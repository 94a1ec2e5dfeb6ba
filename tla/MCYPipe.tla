------------------------------- MODULE MCYPipe -------------------------------
(* TLC instance of YPipe.                                                   *)
EXTENDS YPipe, TLC

CONSTANTS v1, v2, k1, k2, k3

MCValues == {v1, v2}
MCChunks == {k1, k2, k3}

(* Addresses are but names: let k1 be the one that is allocated first.      *)
MCInit == Init /\ beginChunk = k1
MCSpec == MCInit /\ [][Next]_vars /\ Fairness

=============================================================================
