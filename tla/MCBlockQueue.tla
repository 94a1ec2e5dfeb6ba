----------------------------- MODULE MCBlockQueue -----------------------------
(* TLC instance of BlockQueue.                                              *)
EXTENDS BlockQueue, TLC

CONSTANTS t1, t2, t3, v1, v2

MCThreads == {t1, t2, t3}
MCValues == {v1, v2}

=============================================================================
