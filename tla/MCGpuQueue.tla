------------------------------- MODULE MCGpuQueue -------------------------------
(* Instances of GpuQueue for TLC.                                          *)
EXTENDS GpuQueue, TLC

CONSTANTS t1, t2, t3

ThreeThreads == {t1, t2, t3}

================================================================================
