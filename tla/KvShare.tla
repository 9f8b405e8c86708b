--------------------------------- MODULE KvShare -------------------------------
(* kv_share_sources of gemma4: the last layers of a model compute no K and *)
(* no V of their own and read the cache of an earlier layer.               *)
EXTENDS Integers, Sequences

Attention == {"sliding", "full"}

(* The layers of that attention type that compute a cache.                 *)
Computing(types, first, ty) == {i \in 1 .. first - 1 : types[i] = ty}

Latest(S) == CHOOSE i \in S : \A j \in S : j <= i
(* last_of_type is overwritten layer by layer, so the latest one wins.     *)
KvSource(types, first, l) ==
  IF l < first THEN l ELSE Latest(Computing(types, first, types[l]))

(* G4Config::parse refuses a configuration without this.                   *)
Shareable(types, first) ==
  \A l \in first .. Len(types) : Computing(types, first, types[l]) # {}
================================================================================
