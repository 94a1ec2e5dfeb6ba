------------------------- MODULE MCLockFreeArrayQueue -------------------------
(* TLC instance of LockFreeArrayQueue.                                      *)
EXTENDS LockFreeArrayQueue, TLC

CONSTANTS t1, t2, t3, v1, v2

MCThreads == {t1, t2, t3}
MCValues == {v1, v2}

(* Two threads push and pop, each with its own value; the third pops.       *)
MCOffers == (t1 :> {v1}) @@ (t2 :> {v2}) @@ (t3 :> {})

=============================================================================
