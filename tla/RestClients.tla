---------------------------- MODULE RestClients ----------------------------
(***************************************************************************)
(* The scripts of NodejsClient around one topic: mySender.js sends         *)
(* commands, myConsumer.js reads them.  They are processes of their own    *)
(* that share the proxy.                                                   *)
(***************************************************************************)
EXTENDS RestConsumer

CONSTANTS PartitionId, NoPartition

ASSUME ProducerAssumption == /\ Partitions \subseteq Nat
                             /\ PartitionId \in Partitions \cup {NoPartition}

VARIABLES arriving, send                                    \* RestProducer

Producer == INSTANCE RestProducer

producerVars == <<arriving, send>>
clientsVars  == <<vars, producerVars>>

ClientsInit == Init /\ Producer!Init

ConsumerStep == Next /\ UNCHANGED producerVars
ProducerStep == /\ UNCHANGED <<style, position, registered, local>>
                /\ Producer!Next

ClientsNext == ConsumerStep \/ ProducerStep
ClientsSpec == ClientsInit /\ [][ClientsNext]_clientsVars /\ Fairness
-----------------------------------------------------------------------------
(* The handler gets a command at most once, over all partitions: sending   *)
(* and reading never repeat one on their own.                              *)
CommandHandledOnce ==
  \A p, q \in Partitions :
    \A m \in DOMAIN delivered[p], n \in DOMAIN delivered[q] :
      log[p][delivered[p][m]] = log[q][delivered[q][n]] => p = q /\ m = n
=============================================================================
