\* The pool of test_ThreadPool1, destroyed when every future is ready.
SPECIFICATION AccSpec
CONSTANTS
  w1 = w1
  w2 = w2
  w3 = w3
  NoTask = NoTask
  Workers <- MCWorkers
  Tasks <- MCTasks
  block_size = 3
  MaxLength = 12
CHECK_DEADLOCK FALSE
INVARIANTS
  QueueOutlivesWorkers
