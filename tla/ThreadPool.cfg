\* Three workers and three tasks; a client that may leave the pool at any moment,
\* and parallel_accumulate on up to four blocks of three elements.
SPECIFICATION AccSpec
CONSTANTS
  w1 = w1
  w2 = w2
  w3 = w3
  NoTask = NoTask
  Workers <- MCWorkers
  Tasks <- MCTasks
  block_size = 3
  MaxLength = 12
CHECK_DEADLOCK FALSE
INVARIANTS
  PendingMeansSomewhere
  NothingLeftBehind
  RangeCovered
PROPERTIES
  FuturesSettle
  TasksRun
  TearDownEnds
  AccumulateReturns
