--------------------------- MODULE MCLockFreeQueue ---------------------------
(* TLC instance of LockFreeQueue: threads and values are model values.      *)
EXTENDS LockFreeQueue, TLC

CONSTANTS t1, t2, t3, v1, v2

MCThreads == {t1, t2, t3}
MCValues == {v1, v2}
MCLive == {t1}

(* Two threads push, pop and ask for the size; the third does not push.     *)
MCOffers == (t1 :> {v1}) @@ (t2 :> {v2}) @@ (t3 :> {})

=============================================================================
