------------------------------ MODULE HashMapI ------------------------------
(***************************************************************************)
(* datastruct/hashmapi.c: the table of HashMap with int keys.  Each        *)
(* function repeats the one of hashmap.c, with = for strcmp and another    *)
(* hash; hashmapi_get also reads an int through the pointer it found,      *)
(* which every value stored by the program allows.                         *)
(***************************************************************************)
LOCAL INSTANCE Integers

CONSTANTS Key, Hash, NULL, MAX_CHAIN_LENGTH

H == INSTANCE HashMap

hashmapi_new(initSize) == H!hashmap_new(initSize)

hashmapi_hash(m, key) == H!hashmap_hash(m, key)

hashmapi_rehash(m) == H!hashmap_rehash(m)

hashmapi_put(m, key, value) == H!hashmap_put(m, key, value)

hashmapi_get(m, key) == H!hashmap_get(m, key)

hashmapi_remove(m, key) == H!hashmap_remove(m, key)

hashmapi_length(m) == H!hashmap_length(m)
=============================================================================
