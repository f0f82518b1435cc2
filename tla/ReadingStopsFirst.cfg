SPECIFICATION ClientsSpec
CONSTANTS
  Sends = {s1, s2}
  Partitions <- MCPartitions
  PartitionId = 0
  NoPartition = NoPartition
  MaxBatch = 2
  MaxStops = 1
INVARIANT ReadingStopsFirst
CHECK_DEADLOCK FALSE
