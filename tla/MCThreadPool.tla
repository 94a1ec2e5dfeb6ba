----------------------------- MODULE MCThreadPool -----------------------------
(* TLC instance of ThreadPool and its clients.                              *)
EXTENDS ParallelAccumulate, TLC

CONSTANTS w1, w2, w3

MCWorkers == {w1, w2, w3}
MCTasks == 0 .. 2

=============================================================================
