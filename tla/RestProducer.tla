---------------------------- MODULE RestProducer ----------------------------
(***************************************************************************)
(* Commands on their way to a Kafka topic through the REST proxy: the      *)
(* CommandSender of NodejsClient/kafkaHelper.js and the KafkaSender of     *)
(* kafka-rest-helper.ts, over Topic.produce and Partition.produce of the   *)
(* kafka-rest client.  A Send is one call of sendCommand, or one           *)
(* subscription to the Observable that the TypeScript one returns.         *)
(* The proxy, the network and the topic are external.                      *)
(***************************************************************************)
EXTENDS Integers, Sequences

CONSTANTS
  Sends,
  Partitions,
  PartitionId,     \* the partition the sender was constructed with,
  NoPartition      \* or none

VARIABLES
  log,             \* the topic: a sequence for each partition     (external)
  arriving,        \* posts the proxy has yet to append            (external)
  send             \* "none", "asked", "ok" or "failed"

vars == <<log, arriving, send>>

TypeOK == /\ log \in [Partitions -> Seq(Sends)]
          /\ arriving \subseteq Sends
          /\ send \in [Sends -> {"none", "asked", "ok", "failed"}]

Init == /\ log = [p \in Partitions |-> <<>>]
        /\ arriving = {}
        /\ send = [s \in Sends |-> "none"]

(* tryToInitialize narrows to a partition "if (this.partitionId)", *)
(* which partition 0 does not pass.                                        *)
Target == IF PartitionId \in {NoPartition, 0} THEN Partitions
                                              ELSE {PartitionId}

SendCommand(s) ==
  /\ send[s] = "none"
  /\ send' = [send EXCEPT ![s] = "asked"]
  /\ arriving' = arriving \cup {s}
  /\ UNCHANGED log

(* External: the proxy appends a post, even one the client gave up.        *)
Arrive(s) ==
  /\ s \in arriving
  /\ arriving' = arriving \ {s}
  /\ \E p \in Target : log' = [log EXCEPT ![p] = Append(@, s)]
  /\ UNCHANGED send

(* An answer below 400: the record is appended, or refused in a field of   *)
(* the answer at which nobody looks.                                       *)
Answered(s) ==
  /\ send[s] = "asked"
  /\ send' = [send EXCEPT ![s] = "ok"]
  /\ arriving' = arriving \ {s}
  /\ UNCHANGED log

(* Mutated form of Failed: the client posts again.                         *)
Failed_Resends(s) ==
  /\ send[s] = "asked"
  /\ arriving' = arriving \cup {s}
  /\ \A p \in Partitions : Len(log[p]) < 2
  /\ UNCHANGED <<log, send>>

(* An error answer or a time-out, whatever became of the post.             *)
Failed(s) ==
  /\ send[s] = "asked"
  /\ send' = [send EXCEPT ![s] = "failed"]
  /\ arriving' \in {arriving, arriving \ {s}}
  /\ UNCHANGED log

Next == \E s \in Sends :
          SendCommand(s) \/ Arrive(s) \/ Answered(s) \/ Failed(s)
=============================================================================
