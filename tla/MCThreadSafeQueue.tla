-------------------------- MODULE MCThreadSafeQueue --------------------------
(* TLC instances of ThreadSafeQueue.                                        *)
EXTENDS ThreadSafeQueue, TLC

CONSTANTS t1, t2, t3, v1, v2, n1, n2, n3

MCNodes == {n1, n2, n3}

(* t1 and t2 push, each its own value; t2 and t3 wait, t2 also tries.       *)
MCPushers == {t1, t2}
MCWaitPoppers == {t2, t3}
MCTryPoppers == {t2}
MCValues == {v1, v2}
MCOffers == (t1 :> {v1}) @@ (t2 :> {v2}) @@ (t3 :> {})

(* One producer and one consumer, as in test.cpp with THREAD_NUM = 1.       *)
MCProducer == {t1}
MCConsumer == {t2}
MCOneOffer == (t1 :> {v1}) @@ (t2 :> {})

=============================================================================
