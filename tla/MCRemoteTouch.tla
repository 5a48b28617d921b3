--------------------------- MODULE MCRemoteTouch ---------------------------
(* Small instances of RemoteTouch: threads only differ by what they do.    *)
EXTENDS RemoteTouch, TLC

CONSTANTS t1, t2, t3

Interchangeable == Permutations(Threads)
=============================================================================
