----------------------------- MODULE Transports -----------------------------
(***************************************************************************)
(* The two ways a command leaves and reaches a .NET program: a queue of    *)
(* RabbitMQ, or a topic of Kafka.  A deployment uses one of them, so the   *)
(* two share no state and a behaviour runs one of the two.                 *)
(***************************************************************************)
EXTENDS KafkaTopic

CONSTANTS Messages, MaxLosses

VARIABLES
  transport,                                       \* "rabbit" or "kafka"
  sent, channel, complete, bound, travelling, queue, inbox, hand, returned,
  live, stuck, acked, expired, receiver, losses,   \* Delivery
  cutOff, reached, tries, processed                \* Delivery, ghosts

Rabbit == INSTANCE Delivery

rabbitVars == <<sent, channel, complete, bound, travelling, queue, inbox, hand,
                returned, live, stuck, acked, expired, receiver, losses, cutOff,
                reached, tries, processed>>
allVars    == <<transport, vars, rabbitVars>>

TransportsInit == /\ transport \in {"rabbit", "kafka"}
                  /\ Rabbit!Init
                  /\ Init

TransportsNext ==
  \/ transport = "rabbit" /\ Rabbit!Next /\ UNCHANGED <<transport, vars>>
  \/ transport = "kafka" /\ Next /\ UNCHANGED <<transport, rabbitVars>>

(* In its initial state neither of the two has a fair action enabled. *)
TransportsSpec == /\ TransportsInit /\ [][TransportsNext]_allVars
                  /\ Rabbit!Fairness
                  /\ Fairness

(* What Delivery promises holds beside the other transport too.  A message *)
(* that has reached the queue stays in the broker until Process has        *)
(* returned for it or it has expired (Receiver.cs:73); Send publishes      *)
(* without confirms (Sender.cs:84), so that a lost connection of the       *)
(* sender, a half-made channel (Sender.cs:46) or a missing binding         *)
(* (Sender.cs:63) can keep it from there.                                  *)
KeptUntilProcessed == Rabbit!KeptUntilProcessed

(* An exception in the handler (Receiver.cs:76) does not bring a message   *)
(* back: only a lost connection does.                                      *)
TriedAgainOnlyAfterLoss == Rabbit!TriedAgainOnlyAfterLoss

(* A message whose handling failed does not keep the receiver from the     *)
(* others, as it would with the BasicQos of Receiver.cs:58.                *)
EveryMessageTried == Rabbit!EveryMessageTried
=============================================================================
