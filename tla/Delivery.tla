------------------------------ MODULE Delivery ------------------------------
(***************************************************************************)
(* Messages over a RabbitMQ queue: RabbitMQHelper/Sender.cs and            *)
(* Receiver.cs, one object of each.                                        *)
(*                                                                         *)
(* The broker, its redelivery of what a closed channel has not             *)
(* acknowledged, and the client library's recovery of lost connections are *)
(* external.  The broker itself does not fail.                             *)
(***************************************************************************)
EXTENDS Naturals, Sequences, SequencesExt

CONSTANTS
  Messages,
  MaxLosses      \* BOUND: connections the receiver loses

VARIABLES
  sent,          \* sent[m]: what became of the call of Send
  channel,       \* Sender.channel: "null", "open", "lost" or "closed"
  complete,      \* the getter Channel reached its end
  bound,         \* what is published over it is routed to the queue
  travelling,    \* published, on their way to the broker
  queue,         \* messages ready in the broker (their order is not used)
  inbox,         \* deliveries that wait for the receiver's handler
  hand,          \* the delivery in the handler, or <<>>
  returned,      \* Process has returned for it
  live,          \* its channel is still open
  stuck,         \* handled with an exception, neither acked nor nacked
  acked,
  expired,       \* older than x-message-ttl
  receiver,      \* "new", "connected", "lost" or "disposed"
  losses,
  cutOff,        \* ghost: on their way when the sender's connection was lost
  reached,       \* ghost: messages the broker has put into the queue
  tries,         \* ghost: tries[m]: how often Process was called
  processed      \* ghost: messages Process returned for

senderVars   == <<sent, channel, complete, bound>>
wayVars      == <<travelling, cutOff, reached>>
receiverVars == <<inbox, hand, returned, live, stuck, receiver, losses, tries,
                  processed>>
vars         == <<senderVars, wayVars, receiverVars, queue, acked, expired>>

InboxSet == ToSet(inbox)
Unacked  == (InboxSet \cup stuck \cup (IF live THEN ToSet(hand) ELSE {})) \ acked

Init ==
  /\ sent = [m \in Messages |-> "no"]
  /\ channel = "null" /\ complete = FALSE /\ bound = FALSE
  /\ travelling = {} /\ cutOff = {} /\ reached = {}
  /\ queue = {} /\ acked = {} /\ expired = {}
  /\ inbox = <<>> /\ hand = <<>> /\ returned = FALSE /\ live = FALSE /\ stuck = {}
  /\ receiver = "new"
  /\ losses = 0
  /\ tries = [m \in Messages |-> 0]
  /\ processed = {}
-----------------------------------------------------------------------------
(* A Send finds the field null, and the getter Channel reaches its end.    *)
(* With an exchange and no routing key it binds nothing.                   *)
Setup ==
  /\ channel = "null"
  /\ \E m \in Messages : sent[m] = "no"
  /\ channel' = "open" /\ complete' = TRUE /\ bound' \in BOOLEAN
  /\ UNCHANGED <<sent, wayVars, receiverVars, queue, acked, expired>>

(* The getter throws.  Once CreateModel has returned, the field is set and *)
(* the next Send uses what is there: a channel the broker has closed, or,  *)
(* after a time-out, one without properties, binding or return handler.    *)
SetupFails(m) ==
  /\ sent[m] = "no"
  /\ channel = "null"
  /\ channel' \in {"null", "open", "closed"}
  /\ sent' = [sent EXCEPT ![m] = "failed"]
  /\ UNCHANGED <<complete, bound, wayVars, receiverVars, queue, acked, expired>>

(* BasicPublish over an open channel, complete or not, returns at once:    *)
(* the broker confirms nothing.                                            *)
Publish(m) ==
  /\ sent[m] = "no"
  /\ channel = "open"
  /\ sent' = [sent EXCEPT ![m] = "ok"]
  /\ travelling' = travelling \cup {m}
  /\ UNCHANGED <<channel, complete, bound, cutOff, reached, receiverVars, queue,
                 acked, expired>>

(* It throws over a channel that is lost or closed, and for a routing key  *)
(* that is null.                                                           *)
PublishThrows(m) ==
  /\ sent[m] = "no"
  /\ channel \in {"lost", "closed"} \/ (channel = "open" /\ ~bound)
  /\ sent' = [sent EXCEPT ![m] = "failed"]
  /\ UNCHANGED <<channel, complete, bound, wayVars, receiverVars, queue, acked,
                 expired>>

(* External: the connection is lost with all that is on its way; a channel *)
(* that is not closed waits for the library to recover it.                 *)
LoseSender ==
  /\ channel \in {"open", "closed"}
  /\ channel' = IF channel = "open" THEN "lost" ELSE channel
  /\ travelling' = {} /\ cutOff' = cutOff \cup travelling
  /\ UNCHANGED <<sent, complete, bound, reached, receiverVars, queue, acked,
                 expired>>

RecoverSender ==
  /\ channel = "lost"
  /\ channel' = "open"
  /\ UNCHANGED <<sent, complete, bound, wayVars, receiverVars, queue, acked,
                 expired>>

(* Dispose closes the channel and keeps the field. *)
DisposeSender ==
  /\ channel \in {"open", "lost"}
  /\ channel' = "closed"
  /\ UNCHANGED <<sent, complete, bound, wayVars, receiverVars, queue, acked,
                 expired>>

(* External: the broker puts a message into the queue, or does not know    *)
(* where to put it, as over a half-made channel, and returns it to a       *)
(* handler that only prints.                                               *)
Arrive(m) ==
  /\ m \in travelling
  /\ travelling' = travelling \ {m}
  /\ \/ (bound \/ ~complete) /\ queue' = queue \cup {m} /\ reached' = reached \cup {m}
     \/ ~bound /\ UNCHANGED <<queue, reached>>
  /\ UNCHANGED <<senderVars, cutOff, receiverVars, acked, expired>>

(* External: x-message-ttl. *)
Expire(m) ==
  /\ m \in queue
  /\ queue' = queue \ {m}
  /\ expired' = expired \cup {m}
  /\ UNCHANGED <<senderVars, wayVars, receiverVars, acked>>
-----------------------------------------------------------------------------
(* Connect, and the library's recovery of a lost connection. *)
Connect ==
  /\ receiver \in {"new", "lost"}
  /\ receiver' = "connected"
  /\ UNCHANGED <<senderVars, wayVars, inbox, hand, returned, live, stuck, losses,
                 tries, processed, queue, acked, expired>>

(* Mutated form of Deliver: BasicQos(0, 1), which the code has commented   *)
(* out (Receiver.cs:58), allows one unacknowledged message.                *)
Deliver_One(m) ==
  /\ receiver = "connected"
  /\ m \in queue
  /\ Unacked = {}
  /\ queue' = queue \ {m}
  /\ inbox' = Append(inbox, m)
  /\ UNCHANGED <<senderVars, wayVars, hand, returned, live, stuck, receiver,
                 losses, tries, processed, acked, expired>>

(* Mutated form of Deliver: BasicConsume with autoAck. *)
Deliver_AutoAck(m) ==
  /\ receiver = "connected"
  /\ m \in queue
  /\ queue' = queue \ {m}
  /\ inbox' = Append(inbox, m)
  /\ acked' = acked \cup {m}
  /\ UNCHANGED <<senderVars, wayVars, hand, returned, live, stuck, receiver,
                 losses, tries, processed, expired>>

(* External: without a limit the broker sends all it has.                  *)
Deliver(m) ==
  /\ receiver = "connected"
  /\ m \in queue
  /\ queue' = queue \ {m}
  /\ inbox' = Append(inbox, m)
  /\ UNCHANGED <<senderVars, wayVars, hand, returned, live, stuck, receiver,
                 losses, tries, processed, acked, expired>>

(* The library calls the Received handler for one delivery at a time.      *)
Begin ==
  /\ hand = <<>>
  /\ inbox # <<>>
  /\ hand' = <<Head(inbox)>>
  /\ inbox' = Tail(inbox)
  /\ returned' = FALSE
  /\ live' = TRUE
  /\ tries' = [tries EXCEPT ![Head(inbox)] = @ + 1]
  /\ UNCHANGED <<senderVars, wayVars, stuck, receiver, losses, processed, queue,
                 acked, expired>>

(* Process returns. *)
Processed ==
  /\ hand # <<>> /\ ~returned
  /\ returned' = TRUE
  /\ processed' = processed \cup ToSet(hand)
  /\ UNCHANGED <<senderVars, wayVars, inbox, hand, live, stuck, receiver, losses,
                 tries, queue, acked, expired>>

(* BasicAck: on the channel of the delivery; if that has closed, nothing. *)
Ack ==
  /\ hand # <<>> /\ returned
  /\ acked' = IF live THEN acked \cup ToSet(hand) ELSE acked
  /\ hand' = <<>>
  /\ live' = FALSE
  /\ UNCHANGED <<senderVars, wayVars, inbox, returned, stuck, receiver, losses,
                 tries, processed, queue, expired>>

(* Mutated form of Throws: the catch block gives the message back.         *)
Throws_Requeues ==
  /\ hand # <<>> /\ ~returned
  /\ hand' = <<>>
  /\ live' = FALSE
  /\ queue' = IF live THEN queue \cup ToSet(hand) ELSE queue
  /\ tries[Head(hand)] < 4
  /\ UNCHANGED <<senderVars, wayVars, inbox, returned, stuck, receiver, losses,
                 tries, processed, acked, expired>>

(* Deserialisation or Process throws; the catch block prints.              *)
Throws ==
  /\ hand # <<>> /\ ~returned
  /\ hand' = <<>>
  /\ live' = FALSE
  /\ stuck' = IF live THEN stuck \cup ToSet(hand) ELSE stuck
  /\ UNCHANGED <<senderVars, wayVars, inbox, returned, receiver, losses, tries,
                 processed, queue, acked, expired>>

(* The channel closes: the broker takes back what was not acknowledged.    *)
(* A handler that runs goes on.                                            *)
Close ==
  /\ queue' = queue \cup Unacked
  /\ inbox' = <<>>
  /\ stuck' = {}
  /\ live' = FALSE
  /\ UNCHANGED <<senderVars, wayVars, hand, returned, tries, processed, acked,
                 expired>>

Lose ==
  /\ receiver = "connected"
  /\ losses < MaxLosses
  /\ losses' = losses + 1
  /\ receiver' = "lost"
  /\ Close

(* Dispose finds neither consumerTag nor consumer set: it cancels nothing  *)
(* and closes the channel.                                                 *)
Dispose ==
  /\ receiver \in {"connected", "lost"}
  /\ receiver' = "disposed"
  /\ UNCHANGED losses
  /\ Close

Next == \/ \E m \in Messages : \/ SetupFails(m) \/ Publish(m)
                               \/ PublishThrows(m) \/ Arrive(m)
                               \/ Expire(m) \/ Deliver(m)
        \/ Setup \/ LoseSender \/ RecoverSender \/ DisposeSender
        \/ Connect \/ Begin \/ Processed \/ Ack \/ Throws \/ Lose \/ Dispose

Spec == Init /\ [][Next]_vars

(* The broker delivers, the library recovers the receiver's connection and *)
(* calls the handler, which returns.                                       *)
Fairness == /\ WF_vars(receiver = "lost" /\ Connect)
            /\ \A m \in Messages : WF_vars(Deliver(m))
            /\ WF_vars(Begin)
            /\ WF_vars(Processed \/ Throws)
            /\ WF_vars(Ack)
-----------------------------------------------------------------------------
(* A message that has reached the queue is in the broker until Process has *)
(* returned for it or it has expired, whatever the handler, the receiver's *)
(* connection and Dispose do meanwhile.  One that was published over a     *)
(* channel with its binding gets there, unless the sender's connection is  *)
(* lost while it is on its way, and Send is told of neither.               *)
KeptUntilProcessed ==
  \A m \in Messages :
    /\ m \in reached => m \in queue \cup Unacked \cup expired \cup processed
    /\ sent[m] = "ok" /\ bound => m \in travelling \cup reached \cup cutOff

(* Process is called again only after the receiver lost a connection: an   *)
(* exception (Receiver.cs:76) does not bring the message back by itself.   *)
TriedAgainOnlyAfterLoss == \A m \in Messages : tries[m] <= 1 + losses

(* Messages whose handling failed stay with the receiver, and do not keep  *)
(* it from the others.                                                     *)
EveryMessageTried ==
  \A m \in Messages :
    (m \in queue /\ receiver = "connected")
      ~> (tries[m] > 0 \/ m \in expired \/ receiver = "disposed")
=============================================================================
