---------------------------- MODULE RestConsumer ----------------------------
(***************************************************************************)
(* A consumer of a Kafka topic through the REST proxy: the KafkaConsumer   *)
(* of NodejsClient/kafkaHelper.js and its observable twin in               *)
(* kafka-rest-helper.ts, over the kafka-rest client, the readable stream   *)
(* and the async.series that the bundle my-kafka-helper.js carries.        *)
(*                                                                         *)
(* One consumer object joins once, reads by one GET after another, and is  *)
(* shut down by stopConsumer and by every 'error' event of its stream.     *)
(* The proxy, the network and the topic are external.                      *)
(***************************************************************************)
EXTENDS Integers, FiniteSets, Sequences, SequencesExt

CONSTANTS
  Sends,        \* the messages of the topic
  Partitions,
  MaxBatch,     \* messages of one answer
  MaxStops      \* calls of stopConsumer

ASSUME RestAssumption == /\ MaxBatch \in Nat \ {0}
                         /\ MaxStops \in Nat

VARIABLES
  style,        \* "callbacks" (kafkaHelper.js), "observable" (kafka-rest-helper.ts)
  log,          \* the topic: a sequence for each partition         (external)
  position,     \* how much of it the consumer group has been given (external)
  registered,   \* the proxy knows the consumer instance            (external)
  join,         \* "none", "asked", "failed" or "joined"
  active,       \* the stream's own flag, cleared by shutdown
  reading,      \* Readable: a _read has not been answered by a push
  ended,        \* Readable: the end was pushed
  endEmitted,   \* Readable: 'end' was emitted
  reads,        \* the GETs in flight
  shutdowns,    \* the calls of ConsumerInstance.shutdown, oldest first
  closed,       \* the observer takes no more (observable style)
  delivered,    \* the offsets given to the message handler
  unread,       \* batches whose answer nobody could read
  errors,       \* calls of the error handler
  crashed       \* an exception that nothing catches ended the process

stream == <<active, reading, ended, endEmitted>>
local  == <<join, stream, reads, shutdowns, closed, delivered, unread, errors,
            crashed>>
vars   == <<style, log, position, registered, local>>

Asked     == [state |-> "asked"]
Given(p, a, b) ==             \* the offsets a .. b of p; none if b < a
  [state |-> "given", partition |-> p, from |-> a, to |-> b]
IsBatch(g) == g # Asked /\ g.from <= g.to
Offsets(g) == [n \in 1 .. g.to - g.from + 1 |-> g.from + n - 1]
Call(by)   == [by |-> by, state |-> "waiting"]

TypeOK ==
  /\ style \in {"callbacks", "observable"}
  /\ position \in [Partitions -> Nat]
  /\ \A p \in Partitions : position[p] <= Len(log[p])
  /\ join \in {"none", "asked", "failed", "joined"}
  /\ {registered, active, reading, ended, endEmitted, closed, crashed}
       \subseteq BOOLEAN
  /\ \A i \in DOMAIN reads : \/ reads[i] = Asked
                             \/ reads[i].to <= position[reads[i].partition]
  /\ \A g \in unread : g.to <= position[g.partition]
  /\ \A k \in DOMAIN shutdowns :
       shutdowns[k] \in [by : {"stop", "error"},
                         state : {"waiting", "deleting", "called"}]
  /\ errors \in Nat

Init ==
  /\ style \in {"callbacks", "observable"}
  /\ log = [p \in Partitions |-> <<>>]
  /\ position = [p \in Partitions |-> 0]
  /\ registered = FALSE
  /\ join = "none"
  /\ active = FALSE /\ reading = FALSE /\ ended = FALSE /\ endEmitted = FALSE
  /\ reads = <<>>
  /\ shutdowns = <<>>
  /\ closed = FALSE
  /\ delivered = [p \in Partitions |-> <<>>]
  /\ unread = {}
  /\ errors = 0
  /\ crashed = FALSE
-----------------------------------------------------------------------------
(* Mutated form of Consume: no "if (!this.kafka)".                         *)
Consume_Again ==
  /\ ~crashed
  /\ join \in {"none", "joined"}
  /\ join' = "asked"
  /\ UNCHANGED <<style, log, position, registered, stream, reads, shutdowns,
                 closed, delivered, unread, errors, crashed>>

(* consume(): a second call finds this.kafka set and does nothing.         *)
Consume ==
  /\ ~crashed
  /\ join = "none"
  /\ join' = "asked"
  /\ UNCHANGED <<style, log, position, registered, stream, reads, shutdowns,
                 closed, delivered, unread, errors, crashed>>

(* The instance subscribes, and the 'data' handler starts the stream.      *)
Joined ==
  /\ ~crashed
  /\ join = "asked"
  /\ join' = "joined"
  /\ registered' = TRUE
  /\ active' = TRUE
  /\ reading' = TRUE
  /\ reads' = Append(reads, Asked)
  /\ UNCHANGED <<style, log, position, ended, endEmitted, shutdowns, closed,
                 delivered, unread, errors, crashed>>

(* The proxy may have created the instance although the answer is lost.    *)
JoinFailed ==
  /\ ~crashed
  /\ join = "asked"
  /\ join' = "failed"
  /\ registered' \in BOOLEAN
  /\ errors' = errors + 1
  /\ closed' = (closed \/ style = "observable")
  /\ UNCHANGED <<style, log, position, stream, reads, shutdowns, delivered,
                 unread, crashed>>

(* An answer below 400 without an id or an address: the constructor of     *)
(* ConsumerInstance throws in the callback.                                *)
JoinThrows ==
  /\ ~crashed
  /\ join = "asked"
  /\ join' = "failed"
  /\ registered' \in BOOLEAN
  /\ crashed' = TRUE
  /\ UNCHANGED <<style, log, position, stream, reads, shutdowns, closed,
                 delivered, unread, errors>>

(* Mutated form of Serve: the group's position is not advanced.            *)
Serve_KeepsPosition(i) ==
  /\ ~crashed
  /\ registered
  /\ i \in DOMAIN reads
  /\ reads[i] = Asked
  /\ \E p \in Partitions :
       /\ position[p] < Len(log[p])
       /\ reads' = [reads EXCEPT ![i] = Given(p, position[p] + 1,
                                              position[p] + 1)]
  /\ UNCHANGED <<style, log, position, registered, join, stream, shutdowns,
                 closed, delivered, unread, errors, crashed>>

(* External: the proxy gives an instance it knows what the group has not   *)
(* had, at most MaxBatch messages of one partition, or nothing if there is *)
(* nothing.                                                                *)
Serve(i) ==
  /\ ~crashed
  /\ registered
  /\ i \in DOMAIN reads
  /\ reads[i] = Asked
  /\ \E p \in Partitions, n \in 0 .. MaxBatch :
       /\ position[p] + n <= Len(log[p])
       /\ n = 0 => \A q \in Partitions : position[q] = Len(log[q])
       /\ position' = [position EXCEPT ![p] = @ + n]
       /\ reads' = [reads EXCEPT ![i] = Given(p, position[p] + 1,
                                              position[p] + n)]
  /\ UNCHANGED <<style, log, registered, join, stream, shutdowns, closed,
                 delivered, unread, errors, crashed>>
-----------------------------------------------------------------------------
(* The answer of a GET reaches the read callback.  Readable.push emits     *)
(* 'data' and at once starts the next _read, before the callback looks at  *)
(* the active flag and pushes the end.                                     *)
(* Mutated form of Finish: an empty answer returns before the check. *)
Finish_OnData(isActive) == /\ ended' = ended
                           /\ reading' = isActive

(* "if (!this.active) this.push(null)" at the end of the read callback.    *)
Finish(isActive) == /\ ended'   = (ended \/ ~isActive)
                    /\ reading' = isActive

(* Mutated form of Data: the callback reads on by itself, as it does after *)
(* an empty answer.                                                        *)
Data_ReadsAgain(i, g) ==
  /\ ~closed
  /\ delivered' = [delivered EXCEPT ![g.partition] = @ \o Offsets(g)]
  /\ reads' = RemoveAt(reads, i) \o <<Asked, Asked>>
  /\ Finish(active)
  /\ UNCHANGED <<active, shutdowns, errors, closed>>

(* read(0) finds nothing buffered and nothing being read, and calls _read. *)
ReadNext(i) == Append(RemoveAt(reads, i), Asked)

Data(i, g) ==
  /\ delivered' = IF closed THEN delivered
                   ELSE [delivered EXCEPT ![g.partition] = @ \o Offsets(g)]
  /\ reads' = ReadNext(i)
  /\ Finish(active)
  /\ UNCHANGED <<active, shutdowns, errors, closed>>

(* The 'error' handler reports and shuts the instance down.                *)
Report ==
  /\ errors' = errors + 1
  /\ shutdowns' = Append(shutdowns, Call("error"))
  /\ active' = FALSE
  /\ closed' = (closed \/ style = "observable")

(* Mutated form of PushAfterEnd: the batch is dropped without an error. *)
PushAfterEnd_Silent(i, g) ==
  /\ reads' = RemoveAt(reads, i)
  /\ Finish(FALSE)
  /\ UNCHANGED <<active, shutdowns, errors, closed, delivered>>

(* "stream.push() after EOF": the batch is dropped with an error. *)
PushAfterEnd(i, g) ==
  /\ Report
  /\ reads' = RemoveAt(reads, i)
  /\ Finish(FALSE)
  /\ UNCHANGED delivered

(* Mutated form of Nothing: an empty answer starts no new read.            *)
Nothing_Stops(i) ==
  /\ reads' = RemoveAt(reads, i)
  /\ Finish(active)
  /\ UNCHANGED <<active, shutdowns, errors, closed, delivered>>

Nothing(i) ==
  /\ reads' = IF active THEN ReadNext(i) ELSE RemoveAt(reads, i)
  /\ Finish(active)
  /\ UNCHANGED <<active, shutdowns, errors, closed, delivered>>

ReadAnswered(i) ==
  /\ ~crashed
  /\ i \in DOMAIN reads
  /\ reads[i] # Asked
  /\ \/ IsBatch(reads[i]) /\ ~ended /\ Data(i, reads[i])
     \/ IsBatch(reads[i]) /\ ended  /\ PushAfterEnd(i, reads[i])
     \/ ~IsBatch(reads[i]) /\ Nothing(i)
  /\ UNCHANGED <<style, log, position, registered, join, endEmitted, unread,
                 crashed>>

(* An answer below 400 whose body is cut off, is not JSON or holds no      *)
(* messages has no length: the callback takes it for an empty one.         *)
LosesBatch(i) ==
  /\ ~crashed
  /\ i \in DOMAIN reads
  /\ reads[i] # Asked
  /\ unread' = IF IsBatch(reads[i]) THEN unread \cup {reads[i]} ELSE unread

ReadUnreadable(i) ==
  /\ LosesBatch(i)
  /\ Nothing(i)
  /\ UNCHANGED <<style, log, position, registered, join, endEmitted, crashed>>

(* Of a 204, or of "null", the length cannot be asked for: the callback    *)
(* throws.                                                                 *)
ReadThrows(i) ==
  /\ LosesBatch(i)
  /\ crashed' = TRUE
  /\ reads' = RemoveAt(reads, i)
  /\ UNCHANGED <<style, log, position, registered, join, stream, shutdowns,
                 closed, delivered, errors>>

(* Mutated form of ReadFailed: the error handler asks again.               *)
ReadFailed_Retries(i) ==
  /\ ~crashed
  /\ i \in DOMAIN reads
  /\ errors < 2
  /\ errors' = errors + 1
  /\ reads' = [reads EXCEPT ![i] = Asked]
  /\ UNCHANGED <<style, log, position, registered, join, stream, closed,
                 shutdowns, delivered, unread, crashed>>

(* The GET fails: refused, cut off before its answer begins, timed out, or *)
(* answered by 400 or more.  No push follows, so Readable still counts a   *)
(* read as outstanding.                                                    *)
ReadFailed(i) ==
  /\ ~crashed
  /\ i \in DOMAIN reads
  /\ Report
  /\ reads' = RemoveAt(reads, i)
  /\ UNCHANGED <<style, log, position, registered, join, reading, ended,
                 endEmitted, delivered, unread, crashed>>
-----------------------------------------------------------------------------
(* stopConsumer(): completes the observer, and shuts down an instance that *)
(* has joined; a consumer that is still joining goes on.                   *)
Stops == SelectSeq(shutdowns, LAMBDA c : c.by = "stop")

StopConsumer ==
  /\ ~crashed
  /\ join \in {"asked", "joined"}
  /\ Len(Stops) < MaxStops
  /\ IF join = "joined"
       THEN shutdowns' = Append(shutdowns, Call("stop")) /\ active' = FALSE
       ELSE UNCHANGED <<shutdowns, active>>
  /\ closed' = (closed \/ style = "observable")
  /\ UNCHANGED <<style, log, position, registered, join, reading, ended,
                 endEmitted, reads, delivered, unread, errors, crashed>>

(* 'end' is emitted once, on a later tick than the push of the end; every  *)
(* shutdown that waits for it then asks the proxy to delete the instance.  *)
EmitEnd ==
  /\ ~crashed
  /\ ended
  /\ ~endEmitted
  /\ endEmitted' = TRUE
  /\ shutdowns' = [k \in DOMAIN shutdowns |->
                     [shutdowns[k] EXCEPT !.state = "deleting"]]
  /\ UNCHANGED <<style, log, position, registered, join, active, reading,
                 ended, reads, closed, delivered, unread, errors, crashed>>

CalledBack(k) == shutdowns' = [shutdowns EXCEPT ![k].state = "called"]

Deleted(k) ==
  /\ ~crashed
  /\ k \in DOMAIN shutdowns
  /\ shutdowns[k].state = "deleting"
  /\ registered
  /\ registered' = FALSE
  /\ CalledBack(k)
  /\ UNCHANGED <<style, log, position, join, stream, reads, closed, delivered,
                 unread, errors, crashed>>

(* The DELETE fails: no answer, or 404 because another shutdown deleted    *)
(* the instance.  logShutdown was passed without its object, or finds the  *)
(* results of async.series in the place of the observer, and throws;       *)
(* only a shutdown by the observable's error handler has no callback.      *)
DeleteFailed(k) ==
  /\ ~crashed
  /\ k \in DOMAIN shutdowns
  /\ shutdowns[k].state = "deleting"
  /\ registered' \in IF registered THEN BOOLEAN ELSE {FALSE}
  /\ CalledBack(k)
  /\ crashed' = (style = "callbacks" \/ shutdowns[k].by = "stop")
  /\ UNCHANGED <<style, log, position, join, stream, reads, closed, delivered,
                 unread, errors>>

Next ==
  \/ Consume \/ Joined \/ JoinFailed \/ JoinThrows \/ StopConsumer \/ EmitEnd
  \/ \E i \in DOMAIN reads : \/ Serve(i) \/ ReadAnswered(i) \/ ReadUnreadable(i)
                            \/ ReadThrows(i) \/ ReadFailed(i)
  \/ \E k \in DOMAIN shutdowns : Deleted(k) \/ DeleteFailed(k)

(* External: producers append to the topic.                                *)
TopicGrows ==
  /\ \E p \in Partitions, s \in Sends : log' = [log EXCEPT ![p] = Append(@, s)]
  /\ UNCHANGED <<style, position, registered, local>>

Spec == Init /\ [][Next \/ TopicGrows]_vars
-----------------------------------------------------------------------------
(* At most one GET is in flight, whoever started it: push, the read        *)
(* callback itself (my-kafka-helper.js:1854) or the first 'data' handler.  *)
OneReadAtATime == Len(reads) <= 1

(* The handler gets the messages of a partition in the order of the topic, *)
(* none twice, although stopping, errors and lost answers leave some out.  *)
InOrderOnce ==
  \A p \in Partitions : \A m, n \in DOMAIN delivered[p] :
    m < n => delivered[p][m] < delivered[p][n]

Covers(g, p, n)  == g.partition = p /\ n \in g.from .. g.to
Got(p, n)        == \E m \in DOMAIN delivered[p] : delivered[p][m] = n
OnItsWay(p, n)   == \E i \in DOMAIN reads : reads[i] # Asked /\ Covers(reads[i], p, n)
Unreadable(p, n) == \E g \in unread : Covers(g, p, n)

(* As long as no error is reported and no observer is closed, all that the *)
(* group has been given is handled or on its way, except the batches whose *)
(* answer nobody could read: those are lost without a word                 *)
(* (my-kafka-helper.js:1637, 1843).                                        *)
LossIsReported ==
  errors = 0 /\ ~closed =>
    \A p \in Partitions : \A n \in 1 .. position[p] :
      Got(p, n) \/ OnItsWay(p, n) \/ Unreadable(p, n)

(* In each partition the handler gets a prefix of what is there, with no   *)
(* gaps but those of such answers, whatever failed, stopped or came late.  *)
NoOtherGap ==
  \A p \in Partitions : \A m \in DOMAIN delivered[p] :
    \A n \in 1 .. delivered[p][m] : Got(p, n) \/ Unreadable(p, n)

(* One failed read ends the reading for good: kafkaHelper.js:74 shuts down *)
(* and nothing asks again.                                                 *)
ErrorEndsReading == errors > 0 => reads = <<>>

(* consumers.js, in my-kafka-helper.js:1774: "Stop reading from all child  *)
(* streams first so we can be sure there will be no more events initiated  *)
(* by them, then delete the consumer group".                               *)
ReadingStopsFirst ==
  \A k \in DOMAIN shutdowns : shutdowns[k].state = "deleting" => reads = <<>>
-----------------------------------------------------------------------------
(* Every request is answered or fails: the client aborts a silent one      *)
(* after 120 seconds (my-kafka-helper.js:1590), and timers run.            *)
Fairness ==
  /\ WF_vars(Joined \/ JoinFailed \/ JoinThrows)
  /\ WF_vars(\/ Serve(1) \/ ReadAnswered(1) \/ ReadUnreadable(1)
             \/ ReadThrows(1) \/ ReadFailed(1))
  /\ WF_vars(EmitEnd)
  /\ \A k \in 1 .. MaxStops : WF_vars(Deleted(k) \/ DeleteFailed(k))

(* A shutdown that finds a healthy stream is called back, unless a request *)
(* fails on the way, which may end the process.  (After an error no        *)
(* shutdown ever is.)                                                      *)
StopEnds ==
  \A k \in 1 .. MaxStops :
    (k \in DOMAIN shutdowns /\ errors = 0 /\ ~endEmitted)
      ~> \/ k \in DOMAIN shutdowns /\ shutdowns[k].state = "called"
         \/ errors > 0
         \/ crashed

(* A message that reached the topic is given to the handler, unless the    *)
(* consumer is stopped (which, while it joins, closes its observer and     *)
(* leaves it reading), a request of its own fails, or the answer it comes  *)
(* in cannot be read (my-kafka-helper.js:1843).                            *)
StoredIsDelivered ==
  \A p \in Partitions, n \in 1 .. Cardinality(Sends) :
    (n <= Len(log[p]) /\ join = "joined" /\ active)
      ~> ~active \/ closed \/ crashed \/ Got(p, n) \/ Unreadable(p, n)
=============================================================================
