---------------------------- MODULE MCLockFreePipe ----------------------------
(* TLC instance of LockFreePipe.                                            *)
EXTENDS LockFreePipe, TLC

CONSTANTS v1, v2, k1, k2, k3, k4

MCValues == {v1, v2}
MCChunks == {k1, k2, k3, k4}

=============================================================================
