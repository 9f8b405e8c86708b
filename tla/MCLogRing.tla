-------------------------------- MODULE MCLogRing --------------------------------
(* Instances of LogRing for TLC.                                           *)
EXTENDS LogRing, TLC

CONSTANTS w1, w2

TwoWriters == {w1, w2}
WriterSymmetry == Permutations(Writers)
================================================================================
