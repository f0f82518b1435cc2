--------------------------------- MODULE Rpc ---------------------------------
(***************************************************************************)
(* Request and reply over RabbitMQ: RabbitMQHelper/RpcClient.cs and        *)
(* RpcServer.cs.                                                           *)
(*                                                                         *)
(* A client has one reply queue, which the broker empties into the memory  *)
(* queue of its consumer (auto-acknowledged), and every Query of the       *)
(* client takes its replies from there.  A server loop is the task that a  *)
(* call of Run starts; the broker hands it one unacknowledged request at a *)
(* time and takes the request back when the loop's channel closes.  The    *)
(* broker itself is external and does not fail.                            *)
(*                                                                         *)
(* An exception of the query handler is answered with an empty response,   *)
(* so it is a result like any other: a reply is named by its query.        *)
(***************************************************************************)
EXTENDS Integers, Sequences

CONSTANTS
  Queries,     \* the calls of Query
  Clients,     \* the RPCClient objects
  ClientOf,    \* the object each call goes through
  Loops,       \* the calls of RpcServer.Run on one server object
  Nobody,      \* no query
  MaxDrops     \* BOUND: connections lost by server loops

ASSUME RpcAssumption ==
  /\ ClientOf \in [Queries -> Clients]
  /\ Nobody \notin Queries
  /\ MaxDrops \in Nat

VARIABLES
  status,      \* status[q]: the call of Query
  answer,      \* answer[q]: the query whose reply it returned
  closed,      \* clients that were disposed of
  requests,    \* the request queue of the broker (its order does not matter)
  declared,    \* that queue exists
  replies,     \* replies[c]: what consumer.Queue of client c holds
  loop,        \* loop[l]: how far a server loop is
  held,        \* held[l]: the request delivered to it and not acknowledged
  stop,        \* RpcServer.stop
  drops,       \* connections lost so far
  executed,    \* ghost: executed[q]: how often the handler ran q
  afterStop,   \* ghost: requests a loop has taken since stop was set
  exposed      \* ghost: queries that nobody promises to answer

clientVars == <<status, answer, closed>>
brokerVars == <<requests, declared, replies>>
serverVars == <<loop, held, stop, drops>>
ghosts     == <<executed, afterStop, exposed>>
vars       == <<clientVars, brokerVars, serverVars, ghosts>>

Running == {"starting", "check", "waiting", "handling", "answering", "replied"}

TypeOK ==
  /\ status \in [Queries -> {"idle", "waiting", "returned", "failed"}]
  /\ answer \in [Queries -> Queries \cup {Nobody}]
  /\ closed \subseteq Clients
  /\ requests \subseteq Queries
  /\ declared \in BOOLEAN
  /\ replies \in [Clients -> Seq(Queries)]
  /\ loop \in [Loops -> Running \cup {"off", "ended"}]
  /\ held \in [Loops -> Queries \cup {Nobody}]
  /\ stop \in BOOLEAN
  /\ drops \in 0 .. MaxDrops
  /\ executed \in [Queries -> Nat]
  /\ afterStop \in [Loops -> Nat]
  /\ exposed \subseteq Queries

Init ==
  /\ status = [q \in Queries |-> "idle"]
  /\ answer = [q \in Queries |-> Nobody]
  /\ closed = {}
  /\ requests = {}
  /\ declared = FALSE
  /\ replies = [c \in Clients |-> <<>>]
  /\ loop = [l \in Loops |-> "off"]
  /\ held = [l \in Loops |-> Nobody]
  /\ stop = FALSE
  /\ drops = 0
  /\ executed = [q \in Queries |-> 0]
  /\ afterStop = [l \in Loops |-> 0]
  /\ exposed = {}
-----------------------------------------------------------------------------
(* The client.                                                             *)

Rivals(q) == {p \in Queries \ {q} : /\ ClientOf[p] = ClientOf[q]
                                    /\ status[p] = "waiting"}

(* Query publishes the request.  Before a server has declared the queue    *)
(* the broker drops it.                                                    *)
Ask(q) ==
  /\ status[q] = "idle"
  /\ ClientOf[q] \notin closed
  /\ status' = [status EXCEPT ![q] = "waiting"]
  /\ requests' = IF declared THEN requests \cup {q} ELSE requests
  /\ exposed' = exposed \cup Rivals(q)
                  \cup (IF Rivals(q) # {} \/ ~declared THEN {q} ELSE {})
  /\ UNCHANGED <<answer, closed, declared, replies, serverVars,
                 executed, afterStop>>

(* Mutated form of Take: the correlation id is not compared. *)
Take_Any(q) ==
  LET c == ClientOf[q]
  IN  /\ status[q] = "waiting"
      /\ replies[c] # <<>>
      /\ replies' = [replies EXCEPT ![c] = Tail(@)]
      /\ status' = [status EXCEPT ![q] = "returned"]
      /\ answer' = [answer EXCEPT ![q] = Head(replies[c])]
      /\ UNCHANGED <<closed, requests, declared, serverVars, ghosts>>

(* Dequeue: a reply with another correlation id is thrown away. *)
Take(q) ==
  LET c == ClientOf[q]
  IN  /\ status[q] = "waiting"
      /\ replies[c] # <<>>
      /\ replies' = [replies EXCEPT ![c] = Tail(@)]
      /\ IF Head(replies[c]) = q
           THEN /\ status' = [status EXCEPT ![q] = "returned"]
                /\ answer' = [answer EXCEPT ![q] = Head(replies[c])]
           ELSE UNCHANGED <<status, answer>>
      /\ UNCHANGED <<closed, requests, declared, serverVars, ghosts>>

(* Dispose closes the channel: the reply queue is deleted, ... *)
Dispose(c) ==
  /\ c \notin closed
  /\ closed' = closed \cup {c}
  /\ UNCHANGED <<status, answer, brokerVars, serverVars, ghosts>>

(* ... and a Dequeue that finds nothing more throws. *)
Abort(q) ==
  /\ status[q] = "waiting"
  /\ ClientOf[q] \in closed
  /\ replies[ClientOf[q]] = <<>>
  /\ status' = [status EXCEPT ![q] = "failed"]
  /\ UNCHANGED <<answer, closed, brokerVars, serverVars, ghosts>>
-----------------------------------------------------------------------------
(* The server.                                                             *)

Goto(l, from, to) == loop[l] = from /\ loop' = [loop EXCEPT ![l] = to]

(* Mutated form of Requeued: nothing held is requeued like a request. *)
Requeued_Always(l) == requests \cup {held[l]}

(* What goes back into the request queue when l's channel closes. *)
Requeued(l) == requests \cup ({held[l]} \ {Nobody})

(* Run clears stop, for the loops of earlier calls too, and starts a task; *)
Run(l) ==
  /\ Goto(l, "off", "starting")
  /\ stop' = FALSE
  /\ afterStop' = [k \in Loops |-> 0]
  /\ UNCHANGED <<clientVars, brokerVars, held, drops, executed, exposed>>

(* it connects, declares the request queue and starts to consume. *)
Open(l) ==
  /\ Goto(l, "starting", "check")
  /\ declared' = TRUE
  /\ UNCHANGED <<clientVars, requests, replies, held, stop, drops, ghosts>>

(* BasicQos(0, 1): the broker delivers while nothing is unacknowledged. *)
Deliver(l) ==
  /\ loop[l] \in {"check", "waiting"}
  /\ held[l] = Nobody
  /\ \E q \in requests : /\ held' = [held EXCEPT ![l] = q]
                         /\ requests' = requests \ {q}
  /\ UNCHANGED <<clientVars, declared, replies, loop, stop, drops, ghosts>>

(* Mutated form of CheckStop: stop is never looked at. *)
CheckStop_Never(l) ==
  /\ Goto(l, "check", "waiting")
  /\ UNCHANGED <<clientVars, brokerVars, held, stop, drops, ghosts>>

(* The top of the loop; leaving it closes the channel. *)
CheckStop(l) ==
  /\ \/ ~stop /\ Goto(l, "check", "waiting") /\ UNCHANGED <<held, requests>>
     \/ /\ stop /\ Goto(l, "check", "ended")
        /\ requests' = Requeued(l)
        /\ held' = [held EXCEPT ![l] = Nobody]
  /\ UNCHANGED <<clientVars, declared, replies, stop, drops, ghosts>>

(* Dequeue, with no timeout and no second look at stop. *)
Dequeue(l) ==
  /\ Goto(l, "waiting", "handling")
  /\ held[l] # Nobody
  /\ afterStop' = [afterStop EXCEPT ![l] = IF stop THEN @ + 1 ELSE @]
  /\ UNCHANGED <<clientVars, brokerVars, held, stop, drops, executed, exposed>>

(* queryHandler.ExecuteQuery. *)
Execute(l) ==
  /\ Goto(l, "handling", "answering")
  /\ executed' = [executed EXCEPT ![held[l]] = @ + 1]
  /\ UNCHANGED <<clientVars, brokerVars, held, stop, drops, afterStop, exposed>>

(* Mutated form of Reply: nothing is published. *)
Reply_None(l) ==
  /\ Goto(l, "answering", "replied")
  /\ UNCHANGED <<clientVars, brokerVars, held, stop, drops, ghosts>>

(* The reply goes to the client's queue if that still exists. *)
Reply(l) ==
  /\ Goto(l, "answering", "replied")
  /\ LET c == ClientOf[held[l]]
     IN  replies' = IF c \in closed THEN replies
                    ELSE [replies EXCEPT ![c] = Append(@, held[l])]
  /\ UNCHANGED <<clientVars, requests, declared, held, stop, drops, ghosts>>

(* Mutated form of Ack: the request is rejected and goes back. *)
Ack_Reject(l) ==
  /\ Goto(l, "replied", "check")
  /\ requests' = Requeued(l)
  /\ held' = [held EXCEPT ![l] = Nobody]
  /\ UNCHANGED <<clientVars, declared, replies, stop, drops, ghosts>>

Ack(l) ==
  /\ Goto(l, "replied", "check")
  /\ held' = [held EXCEPT ![l] = Nobody]
  /\ UNCHANGED <<clientVars, brokerVars, stop, drops, ghosts>>

(* Mutated form of Break: the request was acknowledged on delivery. *)
Break_AutoAck(l) ==
  /\ loop[l] \in Running
  /\ drops < MaxDrops
  /\ drops' = drops + 1
  /\ loop' = [loop EXCEPT ![l] = "ended"]
  /\ held' = [held EXCEPT ![l] = Nobody]
  /\ UNCHANGED <<clientVars, brokerVars, stop, ghosts>>

(* The process or its connection dies: an exception ends the task, and the *)
(* broker takes the unacknowledged request back.                           *)
Break(l) ==
  /\ loop[l] \in Running
  /\ drops < MaxDrops
  /\ drops' = drops + 1
  /\ loop' = [loop EXCEPT ![l] = "ended"]
  /\ requests' = Requeued(l)
  /\ held' = [held EXCEPT ![l] = Nobody]
  /\ UNCHANGED <<clientVars, declared, replies, stop, ghosts>>

Stop ==
  /\ ~stop
  /\ stop' = TRUE
  /\ UNCHANGED <<clientVars, brokerVars, loop, held, drops, ghosts>>

Call(q)     == Take(q) \/ Abort(q)
LoopStep(l) == \/ Open(l) \/ CheckStop(l) \/ Dequeue(l)
               \/ Execute(l) \/ Reply(l) \/ Ack(l)

Next == \/ \E q \in Queries : Ask(q) \/ Call(q)
        \/ \E c \in Clients : Dispose(c)
        \/ \E l \in Loops : Run(l) \/ Deliver(l) \/ LoopStep(l) \/ Break(l)
        \/ Stop

(* Threads and the broker go on; nobody has to ask, run or stop anything. *)
Fairness == /\ \A q \in Queries : WF_vars(Call(q))
            /\ \A l \in Loops : WF_vars(Deliver(l)) /\ WF_vars(LoopStep(l))

Spec     == Init /\ [][Next]_vars
FairSpec == Spec /\ Fairness
-----------------------------------------------------------------------------
Queued(q)  == \E n \in DOMAIN replies[ClientOf[q]] :
                replies[ClientOf[q]][n] = q
InHands(q) == \E l \in Loops : held[l] = q

(* A call of Query returns the reply to its own request, which the handler *)
(* has run, whatever late or repeated replies are in the shared queue.     *)
OwnAnswer == \A q \in Queries :
  status[q] = "returned" => answer[q] = q /\ executed[q] > 0

(* A query that shares its client with no other at the time, and was asked *)
(* after the request queue existed, is never lost: until it returns, the   *)
(* broker, a server loop or the client's queue has it.                     *)
WaitingIsServed == \A q \in Queries \ exposed :
  status[q] = "waiting" /\ ClientOf[q] \notin closed
    => q \in requests \/ InHands(q) \/ Queued(q)

(* The handler repeats a query only because a connection was lost. *)
RepeatedOnlyAfterLoss == \A q \in Queries : executed[q] <= 1 + drops

(* Once Stop was called, and until the next Run, a loop takes at most the  *)
(* one request it may already be waiting for.                              *)
StopIsPrompt == \A l \in Loops : afterStop[l] <= 1

(* Every such query ends, unless no server loop is running. *)
NoServer == \A l \in Loops : loop[l] \notin Running
QueriesEnd == \A q \in Queries :
  status[q] = "waiting" ~> \/ status[q] # "waiting"
                           \/ q \in exposed
                           \/ NoServer
=============================================================================
