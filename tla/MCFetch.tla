--------------------------------- MODULE MCFetch ---------------------------------
(* Instances of Fetch for TLC.                                             *)
EXTENDS Fetch, TLC

CONSTANTS p1, p2, k1, k2

OnePuller == {p1}
TwoPullers == {p1, p2}
OneWorker == {k1}
TwoWorkers == {k1, k2}

WorkerSymmetry == Permutations(Workers)

(* Deletions of the directory, in any order; and cima rm of a tag.         *)
Files == {"part", "meta", "dest"}

WholeDirectory ==
  {<<a, b, c, "dir">> : <<a, b, c>> \in
     {t \in Files \X Files \X Files : {t[1], t[2], t[3]} = Files}}

AnyRemoval == WholeDirectory \cup {<<"dest">>}

(* Deletions that stop once the sidecar has gone, and at any point.        *)
Rests(orders) ==
  {SubSeq(order, n, Len(order)) : order \in orders, n \in 1 .. 4} \ {<<>>}

OnceUnlinked ==
  {rest \in Rests(WholeDirectory) : \A i \in DOMAIN rest : rest[i] # "meta"}

AnyTime == Rests(AnyRemoval)
================================================================================
