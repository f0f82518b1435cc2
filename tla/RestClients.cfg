SPECIFICATION ClientsSpec
CONSTANTS
  Sends = {s1, s2}
  Partitions <- MCPartitions
  PartitionId = 0
  NoPartition = NoPartition
  MaxBatch = 2
  MaxStops = 2
INVARIANTS TypeOK OneReadAtATime InOrderOnce LossIsReported NoOtherGap ErrorEndsReading CommandHandledOnce
PROPERTIES StopEnds StoredIsDelivered
CHECK_DEADLOCK FALSE
