-------------------------- MODULE NodeLink_proofs --------------------------
(***************************************************************************)
(* Proofs about NodeLink, for every size of the queues and every bound.     *)
(***************************************************************************)
EXTENDS NodeLink, Integers, FiniteSetTheorems, TLAPS

(* A side that is exchanging sends the head of its queue, or nothing: what  *)
(* it removes afterwards is what it sent.                                   *)
CtrlSendsHead ==
  cpc # "main" => \/ ctx = NoMsg
                  \/ ctx = ctrlRemoved + 1 /\ ctrlRemoved < ctrlAdded

NodeSendsHead ==
  /\ npc \in Phase \cup {"deliver", "remove"} =>
        \/ ntx = NoMsg
        \/ ntx = nodeRemoved + 1 /\ nodeRemoved < nodeAdded
  /\ npc = "remove" => ntx # NoMsg

(* The node raises ready only to block in a transfer. *)
ReadyMeansBlocked == ready => npc \in Phase

QueueInv == TypeOK /\ CtrlSendsHead /\ NodeSendsHead /\ ReadyMeansBlocked

(* How far apart the two sides can be: PhaseAgreement made inductive.       *)
PhaseInv ==
  /\ cpc \in {"data", "ack"} => ~noise
  /\ cpc = "data" => \/ npc = "sleep"
                     \/ npc = "data" /\ ntx = crx /\ nrx = ctx
                     \/ npc = "ack" /\ CtrlZeroData
  /\ cpc = "ack" => npc = "ack"

-----------------------------------------------------------------------------

LEMMA InitQueueInv == Init => QueueInv
<1> SUFFICES ASSUME Init PROVE QueueInv
  OBVIOUS
<1> USE QueueAssumption DEF Init, Phase, NoMsg
<1>1. TypeOK
  <2>1. /\ cok \in BOOLEAN /\ nok \in BOOLEAN /\ ready \in BOOLEAN
        /\ dataAvailable \in BOOLEAN /\ noise \in BOOLEAN
    BY Zenon
  <2>2. QED
    BY <2>1 DEF TypeOK
<1>2. CtrlSendsHead /\ NodeSendsHead /\ ReadyMeansBlocked
  BY DEF CtrlSendsHead, NodeSendsHead, ReadyMeansBlocked
<1>3. QED
  BY <1>1, <1>2 DEF QueueInv

LEMMA NextQueueInv == QueueInv /\ [Next]_vars => QueueInv'
<1> SUFFICES ASSUME QueueInv, [Next]_vars PROVE QueueInv'
  OBVIOUS
<1> USE QueueAssumption, BoundAssumption
    DEF QueueInv, TypeOK, CtrlSendsHead, NodeSendsHead, ReadyMeansBlocked,
        Phase, NoMsg, InitMsg,
        CtrlQueueEmpty, CtrlQueueFull, NodeQueueEmpty, NodeQueueFull,
        CtrlCanQueue, ctrlVars, nodeVars, queueVars, gotVars
<1>0. ASSUME NodeGarbage, npc \in Phase
      PROVE  /\ npc' \in {"ack", "deliver", "sleep"} /\ nok' \in BOOLEAN
             /\ noise' \in BOOLEAN /\ ready' = FALSE
  BY <1>0 DEF NodeGarbage, NodeFailed
<1>1. CASE CtrlEnqueue
  BY <1>1 DEF CtrlEnqueue
<1>2. CASE NodeEnqueue
  BY <1>2 DEF NodeEnqueue
<1>3. CASE NodeSignalDataReady
  BY <1>3 DEF NodeSignalDataReady
<1>4. CASE CtrlPoll
  BY <1>4 DEF CtrlPoll
<1>5. CASE CtrlTimeout
  BY <1>5 DEF CtrlTimeout
<1>6. CASE CtrlDeliver
  BY <1>6 DEF CtrlDeliver, RemoveSent
<1>7. CASE DrainDone
  BY <1>7 DEF DrainDone
<1>8. CASE NodePeek
  BY <1>8 DEF NodePeek
<1>9. CASE NodeSignalReady
  BY <1>9 DEF NodeSignalReady
<1>10. CASE NodeDeliver
  BY <1>10 DEF NodeDeliver
<1>11. CASE NodeRemove
  BY <1>11 DEF NodeRemove
<1>12. CASE NodeCheckEmpty
  BY <1>12 DEF NodeCheckEmpty
<1>13. CASE NodeClearDataReady
  BY <1>13 DEF NodeClearDataReady
<1>14. CASE NodeWake
  BY <1>14 DEF NodeWake
<1>15. CASE NodeSkipData
  BY <1>15 DEF NodeSkipData, NodeZeroData
<1>16. CASE HeaderTransfer
  <2>1. PICK cbad, nbad \in BOOLEAN :
          /\ Spoil(cbad, nbad)
          /\ CtrlAfterHeader(~cbad /\ npc = "header")
          /\ NodeAfterHeader(~nbad /\ cpc = "header")
    BY <1>16 DEF HeaderTransfer
  <2>2. faults' \in Nat
    BY <2>1 DEF Spoil
  <2>3. cpc' \in {"data", "drain", "deliver"} /\ crx' \in Nat
    BY <2>1 DEF CtrlAfterHeader
  <2>4. npc' \in {"data", "deliver", NodeFailed} /\ nrx' \in Nat
    BY <2>1 DEF NodeAfterHeader
  <2>5. QED
    BY <1>16, <2>2, <2>3, <2>4 DEF HeaderTransfer, NodeFailed
<1>17. CASE DataTransfer
  <2>1. faults' \in Nat /\ cok' \in BOOLEAN /\ nok' \in BOOLEAN
    BY <1>17 DEF DataTransfer, Spoil
  <2>2. QED
    BY <1>17, <2>1 DEF DataTransfer
<1>18. CASE CtrlSkipData
  BY <1>18 DEF CtrlSkipData, CtrlZeroData, NodeZeroData
<1>19. CASE MisalignedHeader
  <2>1. CASE NodeGarbage
    <3>1. npc \in Phase
      BY <1>19 DEF MisalignedHeader
    <3>2. /\ npc' \in {"ack", "deliver", "sleep"} /\ nok' \in BOOLEAN
          /\ noise' \in BOOLEAN /\ ready' = FALSE
      BY <1>0, <2>1, <3>1
    <3>3. QED
      BY <1>19, <3>1, <3>2 DEF MisalignedHeader
  <2>2. CASE npc = "data" /\ noise' = TRUE /\ UNCHANGED <<npc, nok, ready>>
    BY <1>19, <2>2 DEF MisalignedHeader
  <2>3. QED
    BY <1>19, <2>1, <2>2 DEF MisalignedHeader
<1>20. CASE DrainChunk
  <2>1. NodeGarbage /\ npc \in Phase
    BY <1>20 DEF DrainChunk
  <2>2. /\ npc' \in {"ack", "deliver", "sleep"} /\ nok' \in BOOLEAN
        /\ noise' \in BOOLEAN /\ ready' = FALSE
    BY <1>0, <2>1
  <2>3. QED
    BY <1>20, <2>1, <2>2 DEF DrainChunk
<1>21. CASE DrainPartialChunk
  BY <1>21 DEF DrainPartialChunk
<1>22. CASE UNCHANGED vars
  BY <1>22 DEF vars
<1>23. QED
  BY <1>1, <1>2, <1>3, <1>4, <1>5, <1>6, <1>7, <1>8, <1>9, <1>10, <1>11, <1>12,
     <1>13, <1>14, <1>15, <1>16, <1>17, <1>18, <1>19, <1>20, <1>21, <1>22
     DEF Next, CtrlStep, NodeStep, Transfer

(* Type correctness and the queue bounds: neither queue ever holds more     *)
(* than it has room for, whatever the wire does.                            *)
THEOREM TypeCorrect == Spec => []TypeOK
<1>1. QueueInv => TypeOK
  BY DEF QueueInv
<1>2. QED
  BY InitQueueInv, NextQueueInv, <1>1, PTL DEF Spec

-----------------------------------------------------------------------------

LEMMA InitPhaseInv == Init => PhaseInv
  BY DEF Init, PhaseInv

LEMMA NextPhaseInv == QueueInv /\ PhaseInv /\ [Next]_vars => PhaseInv'
<1> SUFFICES ASSUME QueueInv, PhaseInv, [Next]_vars PROVE PhaseInv'
  OBVIOUS
<1>0. ReadyMeansBlocked
  BY DEF QueueInv
<1> USE DEF PhaseInv, CtrlZeroData, NodeZeroData, Phase, NoMsg,
            ctrlVars, nodeVars, queueVars, gotVars
<1>1. CASE CtrlEnqueue
  BY <1>1 DEF CtrlEnqueue
<1>2. CASE NodeEnqueue
  BY <1>2 DEF NodeEnqueue
<1>3. CASE NodeSignalDataReady
  BY <1>3 DEF NodeSignalDataReady
<1>4. CASE CtrlPoll
  BY <1>4 DEF CtrlPoll
<1>5. CASE CtrlTimeout
  BY <1>5 DEF CtrlTimeout
<1>6. CASE CtrlDeliver
  BY <1>6 DEF CtrlDeliver
<1>7. CASE DrainDone
  BY <1>7 DEF DrainDone
<1>8. CASE NodePeek
  BY <1>8 DEF NodePeek
<1>9. CASE NodeSignalReady
  BY <1>9 DEF NodeSignalReady
<1>10. CASE NodeDeliver
  BY <1>10 DEF NodeDeliver
<1>11. CASE NodeRemove
  BY <1>11 DEF NodeRemove
<1>12. CASE NodeCheckEmpty
  BY <1>12 DEF NodeCheckEmpty
<1>13. CASE NodeClearDataReady
  BY <1>13 DEF NodeClearDataReady
<1>14. CASE NodeWake
  BY <1>14 DEF NodeWake, NodeDelayOver
<1>15. CASE NodeSkipData
  BY <1>15 DEF NodeSkipData
<1>16. CASE HeaderTransfer
  <2>1. PICK cbad, nbad \in BOOLEAN :
          /\ CtrlAfterHeader(~cbad /\ npc = "header")
          /\ NodeAfterHeader(~nbad /\ cpc = "header")
    BY <1>16 DEF HeaderTransfer
  <2>2. cpc' \in {"data", "drain", "deliver"}
    BY <2>1 DEF CtrlAfterHeader
  <2>3. cpc' = "data" => cpc = "header" /\ npc = "header" /\ crx' = ntx
    BY <2>1 DEF CtrlAfterHeader
  <2>4. cpc = "header" /\ npc = "header" =>
          npc' = "sleep" \/ (npc' = "data" /\ nrx' = ctx)
    BY <2>1 DEF NodeAfterHeader, NodeFailed
  <2>5. QED
    BY <1>16, <2>2, <2>3, <2>4 DEF HeaderTransfer
<1>17. CASE DataTransfer
  BY <1>17 DEF DataTransfer
<1>18. CASE CtrlSkipData
  BY <1>0, <1>18 DEF CtrlSkipData, ReadyMeansBlocked
<1>19. CASE MisalignedHeader
  BY <1>19 DEF MisalignedHeader
<1>20. CASE DrainChunk
  BY <1>20 DEF DrainChunk
<1>21. CASE DrainPartialChunk
  BY <1>21 DEF DrainPartialChunk
<1>22. CASE UNCHANGED vars
  BY <1>22 DEF vars
<1>23. QED
  BY <1>1, <1>2, <1>3, <1>4, <1>5, <1>6, <1>7, <1>8, <1>9, <1>10, <1>11,
     <1>12, <1>13, <1>14, <1>15, <1>16, <1>17, <1>18, <1>19, <1>20, <1>21,
     <1>22
     DEF Next, CtrlStep, NodeStep, Transfer

(* The controller clocks data or an acknowledgement only into a node that   *)
(* is in the matching transfer of the same exchange, for any number of      *)
(* spoilt transfers.                                                        *)
THEOREM PhasesAgree == Spec => []PhaseAgreement
<1>1. QueueInv /\ PhaseInv => PhaseAgreement
  BY DEF QueueInv, ReadyMeansBlocked, PhaseInv, PhaseAgreement, Phase
<1>2. QED
  BY InitQueueInv, NextQueueInv, InitPhaseInv, NextPhaseInv, <1>1, PTL DEF Spec

-----------------------------------------------------------------------------
(* A wire that spoils nothing (MaxFaults = 0): exactly-once, in order.      *)

(* Nothing fails, and the two sides walk through an exchange together; only *)
(* between exchanges can one be ahead of the other.                         *)
InStep ==
  /\ faults = 0 /\ noise = FALSE
  /\ cpc # "drain" /\ npc # "sleep"
  /\ cpc \in {"main", "deliver"} => npc \notin {"data", "ack"}
  /\ cpc = "header" => npc = "header"
  /\ cpc \in {"data", "ack"} => ntx = crx /\ nrx = ctx
  /\ cpc = "ack" => cok = TRUE
  /\ npc = "ack" => nok = TRUE

(* A message that was exchanged and that one side is about to hand over     *)
(* (Due) or about to remove (Spent).                                        *)
DueAtNode == IF npc = "deliver" /\ nrx # NoMsg THEN 1 ELSE 0
DueAtCtrl == IF cpc = "deliver" /\ crx # NoMsg THEN 1 ELSE 0
SpentAtCtrl == IF cpc = "deliver" /\ ctx # NoMsg THEN 1 ELSE 0
SpentAtNode == IF npc \in {"deliver", "remove"} /\ ntx # NoMsg THEN 1 ELSE 0

(* What a handler was given is 1, 2, ..., as far as the sender's removals.  *)
CtrlToNodeCount ==
  /\ Len(nodeGot) + DueAtNode = ctrlRemoved + SpentAtCtrl
  /\ DueAtNode = 1 => nrx = Len(nodeGot) + 1

NodeToCtrlCount ==
  /\ Len(ctrlGot) + DueAtCtrl = nodeRemoved + SpentAtNode
  /\ DueAtCtrl = 1 => crx = Len(ctrlGot) + 1

OnceInv == QueueInv /\ PhaseInv /\ InStep /\ CtrlToNodeCount /\ NodeToCtrlCount

LEMMA InitOnceInv == Init => OnceInv
<1> SUFFICES ASSUME Init PROVE OnceInv
  OBVIOUS
<1>1. QueueInv /\ PhaseInv
  BY InitQueueInv, InitPhaseInv
<1>2. InStep
  BY DEF Init, InStep
<1>3. CtrlToNodeCount /\ NodeToCtrlCount
  BY DEF Init, CtrlToNodeCount, NodeToCtrlCount, DueAtNode, DueAtCtrl,
         SpentAtCtrl, SpentAtNode
<1>4. QED
  BY <1>1, <1>2, <1>3 DEF OnceInv

LEMMA NextInStep ==
  ASSUME MaxFaults = 0, QueueInv, PhaseInv, InStep, [Next]_vars
  PROVE  InStep'
<1>0. TypeOK /\ ReadyMeansBlocked
  BY DEF QueueInv
<1> USE DEF PhaseInv, InStep, CtrlZeroData, NodeZeroData, Phase,
            NoMsg, ctrlVars, nodeVars, queueVars, gotVars
<1>1. CASE CtrlEnqueue
  BY <1>1 DEF CtrlEnqueue
<1>2. CASE NodeEnqueue
  BY <1>2 DEF NodeEnqueue
<1>3. CASE NodeSignalDataReady
  BY <1>3 DEF NodeSignalDataReady
<1>4. CASE CtrlPoll
  BY <1>4, <1>0 DEF CtrlPoll, ReadyMeansBlocked
<1>5. CASE CtrlTimeout
  BY <1>5 DEF CtrlTimeout
<1>6. CASE CtrlDeliver
  BY <1>6 DEF CtrlDeliver
<1>7. CASE DrainDone
  BY <1>7 DEF DrainDone
<1>8. CASE NodePeek
  BY <1>8 DEF NodePeek
<1>9. CASE NodeSignalReady
  BY <1>9 DEF NodeSignalReady
<1>10. CASE NodeDeliver
  BY <1>10 DEF NodeDeliver
<1>11. CASE NodeRemove
  BY <1>11 DEF NodeRemove
<1>12. CASE NodeCheckEmpty
  BY <1>12 DEF NodeCheckEmpty
<1>13. CASE NodeClearDataReady
  BY <1>13 DEF NodeClearDataReady
<1>14. CASE NodeWake
  BY <1>14 DEF NodeWake, NodeDelayOver
<1>15. CASE NodeSkipData
  BY <1>15 DEF NodeSkipData
<1>16. CASE HeaderTransfer
  <2>1. PICK cbad, nbad \in BOOLEAN :
          /\ Spoil(cbad, nbad)
          /\ CtrlAfterHeader(~cbad /\ npc = "header")
          /\ NodeAfterHeader(~nbad /\ cpc = "header")
    BY <1>16 DEF HeaderTransfer
  <2>2. ~cbad /\ ~nbad /\ faults' = 0
    BY <2>1 DEF Spoil
  <2>3. (cpc = "header" /\ npc = "header") \/ (cpc = "ack" /\ npc = "ack")
    BY <1>16 DEF HeaderTransfer
  <2>4. CASE cpc = "header" /\ npc = "header"
    <3>1. cpc' = "data" /\ crx' = ntx /\ npc' = "data" /\ nrx' = ctx
      BY <2>1, <2>2, <2>4 DEF CtrlAfterHeader, NodeAfterHeader
    <3>2. QED
      BY <1>16, <2>2, <3>1 DEF HeaderTransfer
  <2>5. CASE cpc = "ack" /\ npc = "ack"
    <3>1. cpc' = "deliver" /\ npc' = "deliver"
      BY <2>1, <2>5 DEF CtrlAfterHeader, NodeAfterHeader
    <3>2. QED
      BY <1>16, <2>2, <3>1 DEF HeaderTransfer
  <2>6. QED
    BY <2>3, <2>4, <2>5
<1>17. CASE DataTransfer
  <2>1. PICK cbad, nbad \in BOOLEAN :
          /\ Spoil(cbad, nbad)
          /\ cok' = (~cbad \/ crx = NoMsg)
          /\ nok' = (~nbad \/ nrx = NoMsg)
    BY <1>17 DEF DataTransfer
  <2>2. ~cbad /\ ~nbad /\ faults' = 0
    BY <2>1 DEF Spoil
  <2>3. cok' = TRUE /\ nok' = TRUE
    BY <2>1, <2>2
  <2>4. QED
    BY <1>17, <2>2, <2>3 DEF DataTransfer
<1>18. CASE CtrlSkipData
  BY <1>0, <1>18 DEF CtrlSkipData, ReadyMeansBlocked
<1>19. CASE MisalignedHeader
  BY <1>19 DEF MisalignedHeader
<1>20. CASE DrainChunk
  BY <1>20 DEF DrainChunk
<1>21. CASE DrainPartialChunk
  BY <1>21 DEF DrainPartialChunk
<1>22. CASE UNCHANGED vars
  BY <1>22 DEF vars
<1>23. QED
  BY <1>1, <1>2, <1>3, <1>4, <1>5, <1>6, <1>7, <1>8, <1>9, <1>10, <1>11,
     <1>12, <1>13, <1>14, <1>15, <1>16, <1>17, <1>18, <1>19, <1>20, <1>21,
     <1>22
     DEF Next, CtrlStep, NodeStep, Transfer

LEMMA NextCounts ==
  ASSUME QueueInv, PhaseInv, InStep, InStep', CtrlToNodeCount, NodeToCtrlCount,
         [Next]_vars
  PROVE  CtrlToNodeCount' /\ NodeToCtrlCount'
<1>0. TypeOK /\ CtrlSendsHead /\ NodeSendsHead /\ ReadyMeansBlocked
  BY DEF QueueInv
<1> USE <1>0 DEF PhaseInv, InStep, TypeOK, CtrlSendsHead, NodeSendsHead,
        CtrlToNodeCount, NodeToCtrlCount, DueAtNode, DueAtCtrl, SpentAtCtrl,
        SpentAtNode, CtrlZeroData, NodeZeroData, Phase, NoMsg, ctrlVars,
        nodeVars, queueVars, gotVars
<1>1. CASE CtrlEnqueue
  BY <1>1 DEF CtrlEnqueue
<1>2. CASE NodeEnqueue
  BY <1>2 DEF NodeEnqueue
<1>3. CASE NodeSignalDataReady
  BY <1>3 DEF NodeSignalDataReady
<1>4. CASE CtrlPoll
  BY <1>4 DEF CtrlPoll, ReadyMeansBlocked
<1>5. CASE CtrlTimeout
  BY <1>5 DEF CtrlTimeout
<1>6. CASE CtrlDeliver
  BY <1>6 DEF CtrlDeliver, RemoveSent
<1>7. CASE DrainDone
  BY <1>7 DEF DrainDone
<1>8. CASE NodePeek
  BY <1>8 DEF NodePeek
<1>9. CASE NodeSignalReady
  BY <1>9 DEF NodeSignalReady
<1>10. CASE NodeDeliver
  BY <1>10 DEF NodeDeliver
<1>11. CASE NodeRemove
  BY <1>11 DEF NodeRemove
<1>12. CASE NodeCheckEmpty
  BY <1>12 DEF NodeCheckEmpty
<1>13. CASE NodeClearDataReady
  BY <1>13 DEF NodeClearDataReady
<1>14. CASE NodeWake
  BY <1>14 DEF NodeWake
<1>15. CASE NodeSkipData
  BY <1>15 DEF NodeSkipData
<1>16. CASE HeaderTransfer
  <2>1. PICK cbad, nbad \in BOOLEAN :
          /\ CtrlAfterHeader(~cbad /\ npc = "header")
          /\ NodeAfterHeader(~nbad /\ cpc = "header")
    BY <1>16 DEF HeaderTransfer
  <2>2. (cpc = "header" /\ npc = "header") \/ (cpc = "ack" /\ npc = "ack")
    BY <1>16 DEF HeaderTransfer
  <2>3. CASE cpc = "header" /\ npc = "header"
    <3>1. cpc' \in {"data", "drain"} /\ npc' \in {"data", "sleep"}
      BY <2>1, <2>3 DEF CtrlAfterHeader, NodeAfterHeader, NodeFailed
    <3>2. QED
      BY <1>16, <2>3, <3>1 DEF HeaderTransfer
  <2>4. CASE cpc = "ack" /\ npc = "ack"
    <3>1. cpc' = "deliver" /\ npc' = "deliver" /\ crx' = crx /\ nrx' = nrx
      BY <2>1, <2>4 DEF CtrlAfterHeader, NodeAfterHeader
    <3>2. QED
      BY <1>16, <2>4, <3>1 DEF HeaderTransfer
  <2>5. QED
    BY <2>2, <2>3, <2>4
<1>17. CASE DataTransfer
  BY <1>17 DEF DataTransfer
<1>18. CASE CtrlSkipData
  BY <1>18 DEF CtrlSkipData
<1>19. CASE MisalignedHeader
  BY <1>19 DEF MisalignedHeader
<1>20. CASE DrainChunk
  BY <1>20 DEF DrainChunk
<1>21. CASE DrainPartialChunk
  BY <1>21 DEF DrainPartialChunk
<1>22. CASE UNCHANGED vars
  BY <1>22 DEF vars
<1>23. QED
  BY <1>1, <1>2, <1>3, <1>4, <1>5, <1>6, <1>7, <1>8, <1>9, <1>10, <1>11,
     <1>12, <1>13, <1>14, <1>15, <1>16, <1>17, <1>18, <1>19, <1>20, <1>21,
     <1>22
     DEF Next, CtrlStep, NodeStep, Transfer

LEMMA NextOnceInv ==
  ASSUME MaxFaults = 0
  PROVE  OnceInv /\ [Next]_vars => OnceInv'
  BY NextQueueInv, NextPhaseInv, NextInStep, NextCounts DEF OnceInv

-----------------------------------------------------------------------------
(* The refinement: each direction of the link implements MessageChannel.    *)

LEMMA CtrlToNodeStep ==
  ASSUME OnceInv, [Next]_vars
  PROVE  [CtrlToNode!Next]_(CtrlToNode!chanVars)
<1> USE DEF OnceInv, QueueInv, TypeOK, InStep, CtrlSendsHead, CtrlToNodeCount,
        DueAtNode, SpentAtCtrl, CtrlToNode!Next, CtrlToNode!Accept,
        CtrlToNode!Handle, CtrlToNode!chanVars, NoMsg, Phase,
        queueVars, gotVars, CtrlCanQueue, CtrlQueueFull
<1>1. CASE CtrlEnqueue
  BY QueueAssumption, <1>1 DEF CtrlEnqueue
<1>2. CASE NodeEnqueue
  BY <1>2 DEF NodeEnqueue
<1>3. CASE NodeSignalDataReady
  BY <1>3 DEF NodeSignalDataReady
<1>4. CASE CtrlPoll
  BY <1>4 DEF CtrlPoll
<1>5. CASE CtrlTimeout
  BY <1>5 DEF CtrlTimeout
<1>6. CASE CtrlDeliver
  BY QueueAssumption, <1>6 DEF CtrlDeliver
<1>7. CASE DrainDone
  BY <1>7 DEF DrainDone
<1>8. CASE NodePeek
  BY <1>8 DEF NodePeek
<1>9. CASE NodeSignalReady
  BY <1>9 DEF NodeSignalReady
<1>10. CASE NodeDeliver
  BY <1>10 DEF NodeDeliver
<1>11. CASE NodeRemove
  BY <1>11 DEF NodeRemove
<1>12. CASE NodeCheckEmpty
  BY <1>12 DEF NodeCheckEmpty
<1>13. CASE NodeClearDataReady
  BY <1>13 DEF NodeClearDataReady
<1>14. CASE NodeWake
  BY <1>14 DEF NodeWake
<1>15. CASE NodeSkipData
  BY <1>15 DEF NodeSkipData
<1>16. CASE HeaderTransfer
  BY <1>16 DEF HeaderTransfer
<1>17. CASE DataTransfer
  BY <1>17 DEF DataTransfer
<1>18. CASE CtrlSkipData
  BY <1>18 DEF CtrlSkipData
<1>19. CASE MisalignedHeader
  BY <1>19 DEF MisalignedHeader
<1>20. CASE DrainChunk
  BY <1>20 DEF DrainChunk
<1>21. CASE DrainPartialChunk
  BY <1>21 DEF DrainPartialChunk
<1>22. CASE UNCHANGED vars
  BY <1>22 DEF vars
<1>23. QED
  BY <1>1, <1>2, <1>3, <1>4, <1>5, <1>6, <1>7, <1>8, <1>9, <1>10, <1>11,
     <1>12, <1>13, <1>14, <1>15, <1>16, <1>17, <1>18, <1>19, <1>20, <1>21,
     <1>22
     DEF Next, CtrlStep, NodeStep, Transfer

LEMMA NodeToCtrlStep ==
  ASSUME OnceInv, [Next]_vars
  PROVE  [NodeToCtrl!Next]_(NodeToCtrl!chanVars)
<1> USE DEF OnceInv, QueueInv, TypeOK, InStep, NodeSendsHead, NodeToCtrlCount,
        DueAtCtrl, SpentAtNode, NodeToCtrl!Next, NodeToCtrl!Accept,
        NodeToCtrl!Handle, NodeToCtrl!chanVars, NoMsg, Phase,
        queueVars, gotVars, NodeQueueFull
<1>1. CASE CtrlEnqueue
  BY <1>1 DEF CtrlEnqueue
<1>2. CASE NodeEnqueue
  BY QueueAssumption, <1>2 DEF NodeEnqueue
<1>3. CASE NodeSignalDataReady
  BY <1>3 DEF NodeSignalDataReady
<1>4. CASE CtrlPoll
  BY <1>4 DEF CtrlPoll
<1>5. CASE CtrlTimeout
  BY <1>5 DEF CtrlTimeout
<1>6. CASE CtrlDeliver
  BY <1>6 DEF CtrlDeliver
<1>7. CASE DrainDone
  BY <1>7 DEF DrainDone
<1>8. CASE NodePeek
  BY <1>8 DEF NodePeek
<1>9. CASE NodeSignalReady
  BY <1>9 DEF NodeSignalReady
<1>10. CASE NodeDeliver
  BY <1>10 DEF NodeDeliver
<1>11. CASE NodeRemove
  BY <1>11 DEF NodeRemove
<1>12. CASE NodeCheckEmpty
  BY <1>12 DEF NodeCheckEmpty
<1>13. CASE NodeClearDataReady
  BY <1>13 DEF NodeClearDataReady
<1>14. CASE NodeWake
  BY <1>14 DEF NodeWake
<1>15. CASE NodeSkipData
  BY <1>15 DEF NodeSkipData
<1>16. CASE HeaderTransfer
  BY <1>16 DEF HeaderTransfer
<1>17. CASE DataTransfer
  BY <1>17 DEF DataTransfer
<1>18. CASE CtrlSkipData
  BY <1>18 DEF CtrlSkipData
<1>19. CASE MisalignedHeader
  BY <1>19 DEF MisalignedHeader
<1>20. CASE DrainChunk
  BY <1>20 DEF DrainChunk
<1>21. CASE DrainPartialChunk
  BY <1>21 DEF DrainPartialChunk
<1>22. CASE UNCHANGED vars
  BY <1>22 DEF vars
<1>23. QED
  BY <1>1, <1>2, <1>3, <1>4, <1>5, <1>6, <1>7, <1>8, <1>9, <1>10, <1>11,
     <1>12, <1>13, <1>14, <1>15, <1>16, <1>17, <1>18, <1>19, <1>20, <1>21,
     <1>22
     DEF Next, CtrlStep, NodeStep, Transfer

(* While nothing is spoilt on the wire, every message the controller queued *)
(* is handed to the node's handler once and in order.                       *)
THEOREM CtrlToNodeRefinement ==
  ASSUME MaxFaults = 0
  PROVE  Spec => CtrlToNodeExactlyOnce
<1>1. Init => CtrlToNode!Init
  BY DEF Init, CtrlToNode!Init
<1>2. OnceInv /\ [Next]_vars => [CtrlToNode!Next]_(CtrlToNode!chanVars)
  BY CtrlToNodeStep
<1>3. OnceInv /\ [Next]_vars => OnceInv'
  BY NextOnceInv
<1>4. QED
  BY <1>1, <1>2, <1>3, InitOnceInv, PTL
     DEF Spec, CtrlToNodeExactlyOnce, CtrlToNode!Spec

(* And every message the node queued is handed to the controller's handler  *)
(* once and in order.                                                       *)
THEOREM NodeToCtrlRefinement ==
  ASSUME MaxFaults = 0
  PROVE  Spec => NodeToCtrlExactlyOnce
<1>1. Init => NodeToCtrl!Init
  BY DEF Init, NodeToCtrl!Init
<1>2. OnceInv /\ [Next]_vars => [NodeToCtrl!Next]_(NodeToCtrl!chanVars)
  BY NodeToCtrlStep
<1>3. OnceInv /\ [Next]_vars => OnceInv'
  BY NextOnceInv
<1>4. QED
  BY <1>1, <1>2, <1>3, InitOnceInv, PTL
     DEF Spec, NodeToCtrlExactlyOnce, NodeToCtrl!Spec
-----------------------------------------------------------------------------
(* A wire that spoils some transfers: what that costs.                      *)

(* The acknowledgement that follows data: what each side is about to hand   *)
(* over is what the other is sending.                                       *)
AckInv ==
  /\ npc = "ack" /\ nok /\ nrx # NoMsg => cpc = "ack" /\ nrx = ctx
  /\ cpc = "ack" /\ crx # NoMsg => crx = ntx

(* A side is committed when nothing can keep it any more from handing over  *)
(* what it received and removing what it sent.  A node to which nothing was *)
(* announced is so as soon as the controller has left the exchange: no CRC  *)
(* is going to fail.                                                        *)
CtrlCommitted == cpc = "deliver" \/ (cpc = "ack" /\ cok)
NodeCommitted ==
  \/ npc \in {"deliver", "remove"}
  \/ npc = "ack" /\ nok
  \/ npc = "data" /\ nrx = NoMsg /\ cpc # "data"

(* The queues and the histories as they will be once the sides have done    *)
(* what they are committed to.                                              *)
CtrlGone == IF CtrlCommitted /\ ctx # NoMsg THEN ctrlRemoved + 1 ELSE ctrlRemoved
NodeGone == IF NodeCommitted /\ ntx # NoMsg THEN nodeRemoved + 1 ELSE nodeRemoved
CtrlTakes ==
  IF CtrlCommitted /\ crx # NoMsg THEN Append(ctrlGot, crx) ELSE ctrlGot
NodeTakes ==
  IF (npc = "deliver" \/ (npc = "ack" /\ nok)) /\ nrx # NoMsg
  THEN Append(nodeGot, nrx) ELSE nodeGot

(* Of a direction whose sender dropped gone messages and whose receiver     *)
(* handled those of got: the messages lost; the repetitions there were, and *)
(* the one that is bound to come when the next message is already handled.  *)
Lost(got, gone) == {m \in 1..gone : m \notin Handled(got)}
Repeated(got, gone) ==
  Len(got) - Cardinality(Handled(got)) + (IF gone + 1 \in Handled(got) THEN 1 ELSE 0)

DamageInv ==
  /\ Handled(NodeTakes) \subseteq 1..(CtrlGone + 1)
  /\ Handled(CtrlTakes) \subseteq 1..(NodeGone + 1)
  /\ Cardinality(Lost(NodeTakes, CtrlGone))
       + Cardinality(Lost(CtrlTakes, NodeGone)) <= faults
  /\ Repeated(NodeTakes, CtrlGone) <= faults
  /\ Repeated(CtrlTakes, NodeGone) <= faults

-----------------------------------------------------------------------------

(* What a direction gains or loses when its receiver handles the next       *)
(* message, its sender drops it, or both happen at once.                    *)
LEMMA HandledGrows ==
  ASSUME NEW got \in Seq(Nat), NEW m \in Nat
  PROVE  /\ Handled(Append(got, m)) = Handled(got) \cup {m}
         /\ Len(Append(got, m)) = Len(got) + 1 /\ Append(got, m) \in Seq(Nat)
<1> DEFINE t == Append(got, m)
<1>1. /\ t \in Seq(Nat) /\ Len(t) = Len(got) + 1 /\ t[Len(got) + 1] = m
      /\ \A i \in 1..Len(got) : t[i] = got[i]
  OBVIOUS
<1>2. DOMAIN t = 1..(Len(got) + 1) /\ DOMAIN got = 1..Len(got) /\ Len(got) \in Nat
  BY <1>1
<1> HIDE DEF t
<1>3. \A i \in 1..(Len(got) + 1) : i \in 1..Len(got) \/ i = Len(got) + 1
  BY <1>2
<1>4. 1..Len(got) \subseteq 1..(Len(got) + 1) /\ Len(got) + 1 \in 1..(Len(got) + 1)
  BY <1>2
<1>5. Handled(t) \subseteq Handled(got) \cup {m}
  BY <1>1, <1>2, <1>3 DEF Handled
<1>6. Handled(got) \subseteq Handled(t)
  BY <1>1, <1>2, <1>4 DEF Handled
<1>7. m \in Handled(t)
  BY <1>1, <1>2, <1>4 DEF Handled
<1>8. QED
  BY <1>1, <1>5, <1>6, <1>7 DEF t

LEMMA DamageTypes ==
  ASSUME NEW got \in Seq(Nat), NEW gone \in Nat, Handled(got) \subseteq 1..(gone + 1)
  PROVE  /\ IsFiniteSet(Handled(got)) /\ Cardinality(Handled(got)) \in Nat
         /\ IsFiniteSet(Lost(got, gone)) /\ Cardinality(Lost(got, gone)) \in Nat
         /\ Repeated(got, gone) \in Int
<1>1. IsFiniteSet(1..gone) /\ IsFiniteSet(1..(gone + 1))
  BY FS_Interval
<1>2. IsFiniteSet(Handled(got))
  BY <1>1, FS_Subset
<1>3. Lost(got, gone) \subseteq 1..gone
  BY DEF Lost
<1>4. IsFiniteSet(Lost(got, gone))
  BY <1>1, <1>3, FS_Subset
<1>5. Cardinality(Handled(got)) \in Nat /\ Cardinality(Lost(got, gone)) \in Nat
  BY <1>2, <1>4, FS_CardinalityType
<1>6. Len(got) \in Nat
  OBVIOUS
<1>7. Repeated(got, gone) \in Int
  BY <1>5, <1>6 DEF Repeated
<1>8. QED
  BY <1>2, <1>4, <1>5, <1>7

LEMMA DirectionMoves ==
  ASSUME NEW got \in Seq(Nat), NEW gone \in Nat, Handled(got) \subseteq 1..(gone + 1),
         NEW t \in {got, Append(got, gone + 1)}, NEW h \in {gone, gone + 1}
  PROVE  /\ t \in Seq(Nat) /\ h \in Nat /\ Handled(t) \subseteq 1..(h + 1)
         /\ Cardinality(Lost(t, h)) <= Cardinality(Lost(got, gone)) + 1
         /\ Repeated(t, h) <= Repeated(got, gone) + 1
         /\ h = gone \/ t # got =>
              Cardinality(Lost(t, h)) <= Cardinality(Lost(got, gone))
         /\ h # gone \/ t = got => Repeated(t, h) <= Repeated(got, gone)
<1> DEFINE u == Append(got, gone + 1)
           c == Cardinality(Handled(got))
           d == Cardinality(Lost(got, gone))
<1>1. /\ Handled(u) = Handled(got) \cup {gone + 1}
      /\ Len(u) = Len(got) + 1 /\ u \in Seq(Nat)
  BY HandledGrows
<1>2. /\ IsFiniteSet(Handled(got)) /\ c \in Nat
      /\ IsFiniteSet(Lost(got, gone)) /\ d \in Nat
      /\ Repeated(got, gone) \in Int
  BY DamageTypes
<1>3. Len(got) \in Nat
  OBVIOUS
<1>4. Cardinality(Handled(u)) = IF gone + 1 \in Handled(got) THEN c ELSE c + 1
  <2>1. /\ IsFiniteSet(Handled(got)) /\ Cardinality(Handled(got)) = c
    BY <1>2
  <2> HIDE DEF c, u
  <2>2. Cardinality(Handled(got) \cup {gone + 1})
          = IF gone + 1 \in Handled(got) THEN Cardinality(Handled(got))
            ELSE Cardinality(Handled(got)) + 1
    BY <2>1, FS_AddElement
  <2>3. QED
    BY <1>1, <2>1, <2>2
<1>5. u # got
  BY <1>1, <1>3
<1>6. gone + 2 \notin Handled(got) /\ gone + 2 \notin Handled(u)
  BY <1>1
<1>7. t \in {got, u}
  OBVIOUS
<1>8. Repeated(got, gone) = Len(got) - c + (IF gone + 1 \in Handled(got) THEN 1 ELSE 0)
  BY DEF Repeated
<1> HIDE DEF c, d, u
<1>9. CASE t = got /\ h = gone
  BY <1>2, <1>9 DEF d
<1>10. CASE t = got /\ h = gone + 1
  <2>1. Lost(got, gone + 1) \subseteq Lost(got, gone) \cup {gone + 1}
    BY DEF Lost
  <2>2. /\ IsFiniteSet(Lost(got, gone) \cup {gone + 1})
        /\ Cardinality(Lost(got, gone) \cup {gone + 1}) \in {d, d + 1}
    BY <1>2, FS_AddElement DEF d
  <2>3. Cardinality(Lost(got, gone + 1)) <= Cardinality(Lost(got, gone) \cup {gone + 1})
    BY <2>1, <2>2, FS_Subset
  <2>4. IsFiniteSet(Lost(got, gone + 1))
    BY <2>1, <2>2, FS_Subset
  <2>5. Cardinality(Lost(got, gone + 1)) \in Nat
    BY <2>4, FS_CardinalityType
  <2>6. Cardinality(Lost(got, gone + 1)) <= d + 1
    BY <1>2, <2>2, <2>3, <2>5
  <2>7. gone + 1 + 1 = gone + 2
    OBVIOUS
  <2>8. Repeated(got, gone + 1) = Len(got) - c
    BY <1>2, <1>3, <1>6, <2>7 DEF Repeated, c
  <2>9. Repeated(got, gone + 1) <= Repeated(got, gone)
    BY <1>2, <1>3, <1>8, <2>8
  <2>10. Repeated(got, gone + 1) <= Repeated(got, gone) + 1
    BY <1>2, <1>3, <1>8, <2>8
  <2>11. Handled(got) \subseteq 1..(gone + 1 + 1)
    OBVIOUS
  <2>12. QED
    BY <1>10, <2>6, <2>9, <2>10, <2>11 DEF d
<1>11. CASE t = u /\ h = gone
  <2>1. Lost(u, gone) = Lost(got, gone)
    BY <1>1 DEF Lost
  <2>2. Handled(u) \subseteq 1..(gone + 1)
    BY <1>1
  <2>3. gone + 1 \in Handled(u)
    BY <1>1
  <2> DEFINE q == Cardinality(Handled(u))
  <2>4. q \in Nat
    BY <1>2, <1>4
  <2> HIDE DEF q
  <2>5. Repeated(u, gone) = Len(got) + 1 - q + 1
    BY <1>1, <2>3, <2>4 DEF Repeated, q
  <2>6. Repeated(u, gone) <= Repeated(got, gone) + 1
    BY <1>2, <1>3, <1>4, <1>8, <2>5 DEF q
  <2>7. d <= d + 1
    BY <1>2
  <2>8. QED
    BY <1>1, <1>2, <1>5, <1>11, <2>1, <2>2, <2>6, <2>7 DEF d
<1>12. CASE t = u /\ h = gone + 1
  <2>1. Lost(u, gone + 1) = Lost(got, gone)
    BY <1>1 DEF Lost
  <2>2. Handled(u) \subseteq 1..(gone + 1 + 1)
    BY <1>1
  <2>3. gone + 1 + 1 = gone + 2
    OBVIOUS
  <2> DEFINE q == Cardinality(Handled(u))
  <2>4. q \in Nat
    BY <1>2, <1>4
  <2> HIDE DEF q
  <2>5. gone + 1 + 1 \notin Handled(u)
    BY <1>6, <2>3
  <2>6. Repeated(u, gone + 1) = Len(got) + 1 - q
    BY <1>1, <1>3, <2>4, <2>5 DEF Repeated, q
  <2>7. Repeated(u, gone + 1) <= Repeated(got, gone)
    BY <1>2, <1>3, <1>4, <1>8, <2>6 DEF q
  <2>8. Repeated(u, gone + 1) <= Repeated(got, gone) + 1
    BY <1>2, <1>3, <1>4, <1>8, <2>6 DEF q
  <2>9. d <= d + 1 /\ d <= d
    BY <1>2
  <2>10. QED
    BY <1>1, <1>12, <2>1, <2>2, <2>7, <2>9, <2>8 DEF d
<1>13. QED
  BY <1>7, <1>9, <1>10, <1>11, <1>12

LEMMA TakesTypes ==
  ASSUME QueueInv
  PROVE  /\ NodeTakes \in Seq(Nat) /\ CtrlTakes \in Seq(Nat)
         /\ CtrlGone \in Nat /\ NodeGone \in Nat
<1>1. /\ nodeGot \in Seq(Nat) /\ ctrlGot \in Seq(Nat) /\ nrx \in Nat /\ crx \in Nat
      /\ ctrlRemoved \in Nat /\ nodeRemoved \in Nat
  BY DEF QueueInv, TypeOK
<1>2. NodeTakes \in Seq(Nat)
  BY <1>1 DEF NodeTakes
<1>3. CtrlTakes \in Seq(Nat)
  BY <1>1 DEF CtrlTakes
<1>4. CtrlGone \in Nat /\ NodeGone \in Nat
  BY <1>1 DEF CtrlGone, NodeGone
<1>5. QED
  BY <1>2, <1>3, <1>4

(* A step that loses or repeats something costs a fault, and no step loses  *)
(* in both directions.                                                      *)
LEMMA DamageMoves ==
  ASSUME QueueInv, DamageInv, faults' \in Nat, faults' >= faults,
         NodeTakes' \in {NodeTakes, Append(NodeTakes, CtrlGone + 1)},
         CtrlTakes' \in {CtrlTakes, Append(CtrlTakes, NodeGone + 1)},
         CtrlGone' \in {CtrlGone, CtrlGone + 1},
         NodeGone' \in {NodeGone, NodeGone + 1},
         \/ faults' >= faults + 1
         \/ /\ CtrlGone' = CtrlGone <=> NodeTakes' = NodeTakes
            /\ NodeGone' = NodeGone <=> CtrlTakes' = CtrlTakes,
         \/ CtrlGone' = CtrlGone \/ NodeTakes' # NodeTakes
         \/ NodeGone' = NodeGone \/ CtrlTakes' # CtrlTakes
  PROVE  DamageInv'
<1>1. PICK nt \in Seq(Nat), ct \in Seq(Nat), cg \in Nat, ng \in Nat :
        nt = NodeTakes /\ ct = CtrlTakes /\ cg = CtrlGone /\ ng = NodeGone
  BY TakesTypes
<1>2. PICK nt2, ct2, cg2, ng2 :
        nt2 = NodeTakes' /\ ct2 = CtrlTakes' /\ cg2 = CtrlGone' /\ ng2 = NodeGone'
  OBVIOUS
<1>3. faults \in Nat
  BY DEF QueueInv, TypeOK
<1> DEFINE l == Cardinality(Lost(nt, cg))
           m == Cardinality(Lost(ct, ng))
           l2 == Cardinality(Lost(nt2, cg2))
           m2 == Cardinality(Lost(ct2, ng2))
           r == Repeated(nt, cg)
           s == Repeated(ct, ng)
           r2 == Repeated(nt2, cg2)
           s2 == Repeated(ct2, ng2)
<1>4. /\ Handled(nt) \subseteq 1..(cg + 1) /\ Handled(ct) \subseteq 1..(ng + 1)
      /\ l + m <= faults /\ r <= faults /\ s <= faults
  BY <1>1 DEF DamageInv
<1>5. /\ nt2 \in {nt, Append(nt, cg + 1)} /\ cg2 \in {cg, cg + 1}
      /\ ct2 \in {ct, Append(ct, ng + 1)} /\ ng2 \in {ng, ng + 1}
  BY <1>1, <1>2
<1>6. /\ nt2 \in Seq(Nat) /\ cg2 \in Nat /\ Handled(nt2) \subseteq 1..(cg2 + 1)
      /\ l2 <= l + 1 /\ r2 <= r + 1
      /\ cg2 = cg \/ nt2 # nt => l2 <= l
      /\ cg2 # cg \/ nt2 = nt => r2 <= r
  BY <1>4, <1>5, DirectionMoves
<1>7. /\ ct2 \in Seq(Nat) /\ ng2 \in Nat /\ Handled(ct2) \subseteq 1..(ng2 + 1)
      /\ m2 <= m + 1 /\ s2 <= s + 1
      /\ ng2 = ng \/ ct2 # ct => m2 <= m
      /\ ng2 # ng \/ ct2 = ct => s2 <= s
  BY <1>4, <1>5, DirectionMoves
<1>8. l \in Nat /\ r \in Int
  BY <1>4, DamageTypes
<1>9. m \in Nat /\ s \in Int
  BY <1>4, DamageTypes
<1>10. l2 \in Nat /\ r2 \in Int
  BY <1>6, DamageTypes
<1>11. m2 \in Nat /\ s2 \in Int
  BY <1>7, DamageTypes
<1>12. /\ \/ faults' >= faults + 1
          \/ (cg2 = cg <=> nt2 = nt) /\ (ng2 = ng <=> ct2 = ct)
       /\ cg2 = cg \/ nt2 # nt \/ ng2 = ng \/ ct2 # ct
  BY <1>1, <1>2
<1> HIDE DEF l, m, l2, m2, r, s, r2, s2
<1>13. l2 + m2 <= faults'
  BY <1>3, <1>4, <1>6, <1>7, <1>8, <1>9, <1>10, <1>11, <1>12
<1>14. r2 <= faults' /\ s2 <= faults'
  BY <1>3, <1>4, <1>6, <1>7, <1>8, <1>9, <1>10, <1>11, <1>12
<1> USE DEF l2, m2, r2, s2
<1>15. QED
  BY <1>2, <1>6, <1>7, <1>13, <1>14 DEF DamageInv

LEMMA NextAckInv ==
  ASSUME QueueInv, PhaseInv, AckInv, [Next]_vars
  PROVE  AckInv'
<1>1. ReadyMeansBlocked
  BY DEF QueueInv
<1> USE DEF PhaseInv, AckInv, CtrlZeroData, NodeZeroData, Phase, NoMsg,
            ctrlVars, nodeVars, queueVars, gotVars
<1>2. CASE CtrlEnqueue
  BY <1>2 DEF CtrlEnqueue
<1>3. CASE NodeEnqueue
  BY <1>3 DEF NodeEnqueue
<1>4. CASE NodeSignalDataReady
  BY <1>4 DEF NodeSignalDataReady
<1>5. CASE CtrlPoll
  BY <1>5 DEF CtrlPoll
<1>6. CASE CtrlTimeout
  BY <1>6 DEF CtrlTimeout
<1>7. CASE CtrlDeliver
  BY <1>7 DEF CtrlDeliver
<1>8. CASE DrainDone
  BY <1>8 DEF DrainDone
<1>9. CASE NodePeek
  BY <1>9 DEF NodePeek
<1>10. CASE NodeSignalReady
  BY <1>10 DEF NodeSignalReady
<1>11. CASE NodeDeliver
  BY <1>11 DEF NodeDeliver
<1>12. CASE NodeRemove
  BY <1>12 DEF NodeRemove
<1>13. CASE NodeCheckEmpty
  BY <1>13 DEF NodeCheckEmpty
<1>14. CASE NodeClearDataReady
  BY <1>14 DEF NodeClearDataReady
<1>15. CASE NodeWake
  BY <1>15 DEF NodeWake
<1>16. CASE NodeSkipData
  BY <1>16 DEF NodeSkipData
<1>17. CASE HeaderTransfer
  <2>1. PICK cbad, nbad \in BOOLEAN :
          /\ CtrlAfterHeader(~cbad /\ npc = "header")
          /\ NodeAfterHeader(~nbad /\ cpc = "header")
    BY <1>17 DEF HeaderTransfer
  <2>2. cpc' \in {"data", "drain", "deliver"}
    BY <2>1 DEF CtrlAfterHeader
  <2>3. npc' \in {"data", "sleep", "deliver"}
    BY <2>1 DEF NodeAfterHeader, NodeFailed
  <2>4. QED
    BY <2>2, <2>3
<1>18. CASE DataTransfer
  BY <1>18 DEF DataTransfer
<1>19. CASE CtrlSkipData
  BY <1>1, <1>19 DEF CtrlSkipData, ReadyMeansBlocked
<1>20. CASE MisalignedHeader
  <2>1. CASE NodeGarbage
    <3>1. cpc = "header" /\ cpc' = "drain" /\ nrx' = nrx
      BY <1>20 DEF MisalignedHeader
    <3>2. npc' = "ack" /\ npc \in Phase => npc = "data" /\ (nok' => nrx = NoMsg)
      BY <2>1 DEF NodeGarbage, NodeFailed
    <3>3. QED
      BY <1>1, <1>20, <3>1, <3>2 DEF MisalignedHeader, ReadyMeansBlocked
  <2>2. CASE npc = "data" /\ UNCHANGED npc
    BY <1>20, <2>2 DEF MisalignedHeader
  <2>3. QED
    BY <1>20, <2>1, <2>2 DEF MisalignedHeader
<1>21. CASE DrainChunk
  BY <1>1, <1>21 DEF DrainChunk, NodeGarbage, NodeFailed, ReadyMeansBlocked
<1>22. CASE DrainPartialChunk
  BY <1>22 DEF DrainPartialChunk
<1>23. CASE UNCHANGED vars
  BY <1>23 DEF vars
<1>24. QED
  BY <1>2, <1>3, <1>4, <1>5, <1>6, <1>7, <1>8, <1>9, <1>10, <1>11, <1>12,
     <1>13, <1>14, <1>15, <1>16, <1>17, <1>18, <1>19, <1>20, <1>21, <1>22,
     <1>23
     DEF Next, CtrlStep, NodeStep, Transfer

LEMMA NextDamageInv ==
  ASSUME QueueInv, PhaseInv, AckInv, DamageInv, [Next]_vars, QueueInv'
  PROVE  DamageInv'
<1>1. TypeOK /\ CtrlSendsHead /\ NodeSendsHead /\ ReadyMeansBlocked /\ faults' \in Nat
  BY DEF QueueInv, TypeOK
<1> DEFINE Kept == /\ NodeTakes' = NodeTakes /\ CtrlTakes' = CtrlTakes
                   /\ CtrlGone' = CtrlGone /\ NodeGone' = NodeGone
<1>a. ASSUME Kept, faults' >= faults PROVE DamageInv'
  BY <1>1, <1>a, DamageMoves
<1>b. ASSUME UNCHANGED <<ctrlRemoved, nodeRemoved, gotVars, ctrlVars, nodeVars, faults>>
      PROVE  DamageInv'
  <2>1. Kept
    BY <1>b DEF NodeTakes, CtrlTakes, CtrlGone, NodeGone, CtrlCommitted,
                NodeCommitted, gotVars, ctrlVars, nodeVars
  <2>2. faults' >= faults
    BY <1>1, <1>b DEF TypeOK
  <2>3. QED
    BY <1>a, <2>1, <2>2
<1>c. ASSUME faults' = faults PROVE faults' >= faults
  BY <1>1, <1>c DEF TypeOK
<1>d. ASSUME Kept, UNCHANGED faults PROVE DamageInv'
  BY <1>a, <1>c, <1>d
<1> HIDE DEF Kept
<1> USE DEF Phase, NoMsg, CtrlZeroData, NodeZeroData
<1>2. CASE CtrlEnqueue
  <2>1. UNCHANGED <<ctrlRemoved, nodeRemoved, gotVars, ctrlVars, nodeVars, faults>>
    BY <1>2 DEF CtrlEnqueue
  <2>2. QED
    BY <1>b, <2>1
<1>3. CASE NodeEnqueue
  <2>1. UNCHANGED <<ctrlRemoved, nodeRemoved, gotVars, ctrlVars, nodeVars, faults>>
    BY <1>3 DEF NodeEnqueue
  <2>2. QED
    BY <1>b, <2>1
<1>4. CASE NodeSignalDataReady
  <2>1. UNCHANGED <<ctrlRemoved, nodeRemoved, gotVars, ctrlVars, nodeVars, faults>>
    BY <1>4 DEF NodeSignalDataReady
  <2>2. QED
    BY <1>b, <2>1
<1>5. CASE CtrlPoll
  <2>1. /\ cpc = "main" /\ cpc' = "header"
        /\ UNCHANGED <<crx, cok, ctrlRemoved, nodeRemoved, gotVars, nodeVars, faults>>
    BY <1>5 DEF CtrlPoll, queueVars
  <2>2. Kept
    BY <2>1 DEF Kept, NodeTakes, CtrlTakes, CtrlGone, NodeGone, CtrlCommitted,
                NodeCommitted, gotVars, nodeVars
  <2>3. QED
    BY <1>d, <2>1, <2>2
<1>6. CASE CtrlTimeout
  <2>1. /\ cpc \in {"header", "data"} /\ npc = "sleep" /\ cpc' = "drain"
        /\ UNCHANGED <<ctx, crx, cok, ctrlRemoved, nodeRemoved, gotVars, nodeVars,
                       faults>>
    BY <1>6 DEF CtrlTimeout, queueVars, PhaseInv
  <2>2. Kept
    BY <2>1 DEF Kept, NodeTakes, CtrlTakes, CtrlGone, NodeGone, CtrlCommitted,
                NodeCommitted, gotVars, nodeVars
  <2>3. QED
    BY <1>d, <2>1, <2>2
<1>7. CASE CtrlDeliver
  <2>1. /\ cpc = "deliver" /\ cpc' = "main"
        /\ ctrlGot' = CtrlTakes /\ ctrlRemoved' = CtrlGone
        /\ UNCHANGED <<ctx, crx, cok, nodeRemoved, nodeVars, nodeGot, faults>>
    BY <1>7 DEF CtrlDeliver, RemoveSent, CtrlTakes, CtrlGone, CtrlCommitted
  <2>2. CtrlTakes' = CtrlTakes /\ CtrlGone' = CtrlGone
    BY <2>1 DEF CtrlTakes, CtrlGone, CtrlCommitted
  <2>3. NodeTakes' = NodeTakes /\ NodeGone' = NodeGone
    BY <2>1 DEF NodeTakes, NodeGone, NodeCommitted, nodeVars
  <2>4. QED
    BY <1>d, <2>1, <2>2, <2>3 DEF Kept
<1>8. CASE DrainDone
  <2>1. /\ cpc = "drain" /\ cpc' = "main"
        /\ UNCHANGED <<ctx, crx, cok, ctrlRemoved, nodeRemoved, gotVars, nodeVars,
                       faults>>
    BY <1>8 DEF DrainDone, queueVars
  <2>2. Kept
    BY <2>1 DEF Kept, NodeTakes, CtrlTakes, CtrlGone, NodeGone, CtrlCommitted,
                NodeCommitted, gotVars, nodeVars
  <2>3. QED
    BY <1>d, <2>1, <2>2
<1>9. CASE NodePeek
  <2>1. /\ npc = "peek" /\ npc' = "header"
        /\ UNCHANGED <<nrx, nok, ctrlVars, ctrlRemoved, nodeRemoved, gotVars, faults>>
    BY <1>9 DEF NodePeek, queueVars
  <2>2. Kept
    BY <2>1 DEF Kept, NodeTakes, CtrlTakes, CtrlGone, NodeGone, CtrlCommitted,
                NodeCommitted, gotVars, ctrlVars
  <2>3. QED
    BY <1>d, <2>1, <2>2
<1>10. CASE NodeSignalReady
  <2>1. UNCHANGED <<ctrlRemoved, nodeRemoved, gotVars, ctrlVars, nodeVars, faults>>
    BY <1>10 DEF NodeSignalReady, queueVars
  <2>2. QED
    BY <1>b, <2>1
<1>11. CASE NodeDeliver
  <2>1. /\ npc = "deliver" /\ nodeGot' = NodeTakes
        /\ npc' = IF ntx = NoMsg THEN "peek" ELSE "remove"
        /\ UNCHANGED <<ntx, nrx, nok, ctrlVars, ctrlRemoved, nodeRemoved, ctrlGot,
                       faults>>
    BY <1>11 DEF NodeDeliver, NodeTakes, queueVars
  <2>2. CtrlTakes' = CtrlTakes /\ CtrlGone' = CtrlGone
    BY <2>1 DEF CtrlTakes, CtrlGone, CtrlCommitted, ctrlVars
  <2>3. NodeTakes' = NodeTakes
    BY <2>1 DEF NodeTakes
  <2>4. NodeGone' = NodeGone
    BY <2>1 DEF NodeGone, NodeCommitted
  <2>5. QED
    BY <1>d, <2>1, <2>2, <2>3, <2>4 DEF Kept
<1>12. CASE NodeRemove
  <2>1. /\ npc = "remove" /\ npc' = "check" /\ nodeRemoved' = nodeRemoved + 1
        /\ UNCHANGED <<ntx, nrx, nok, ctrlVars, ctrlRemoved, gotVars, faults>>
    BY <1>12 DEF NodeRemove
  <2>2. ntx # NoMsg
    BY <1>1, <2>1 DEF NodeSendsHead
  <2>3. Kept
    BY <2>1, <2>2 DEF Kept, NodeTakes, CtrlTakes, CtrlGone, NodeGone, CtrlCommitted,
                NodeCommitted, gotVars, ctrlVars
  <2>4. QED
    BY <1>d, <2>1, <2>3
<1>13. CASE NodeCheckEmpty \/ NodeClearDataReady \/ NodeWake
  <2>1. /\ npc \in {"check", "clear", "sleep"} /\ npc' \in {"clear", "peek"}
        /\ UNCHANGED <<ntx, nrx, nok, ctrlVars, ctrlRemoved, nodeRemoved, gotVars,
                       faults>>
    BY <1>13 DEF NodeCheckEmpty, NodeClearDataReady, NodeWake, queueVars
  <2>2. Kept
    BY <2>1 DEF Kept, NodeTakes, CtrlTakes, CtrlGone, NodeGone, CtrlCommitted,
                NodeCommitted, gotVars, ctrlVars
  <2>3. QED
    BY <1>d, <2>1, <2>2
<1>14. CASE NodeSkipData
  <2>1. /\ npc = "data" /\ ntx = NoMsg /\ nrx = NoMsg /\ npc' = "ack" /\ nok' = TRUE
        /\ UNCHANGED <<ntx, nrx, ctrlVars, ctrlRemoved, nodeRemoved, gotVars, faults>>
    BY <1>14 DEF NodeSkipData, queueVars
  <2>2. Kept
    BY <2>1 DEF Kept, NodeTakes, CtrlTakes, CtrlGone, NodeGone, CtrlCommitted,
                NodeCommitted, gotVars, ctrlVars
  <2>3. QED
    BY <1>d, <2>1, <2>2
<1>15. CASE HeaderTransfer
  <2>1. PICK cbad, nbad \in BOOLEAN :
          /\ Spoil(cbad, nbad)
          /\ CtrlAfterHeader(~cbad /\ npc = "header")
          /\ NodeAfterHeader(~nbad /\ cpc = "header")
    BY <1>15 DEF HeaderTransfer
  <2>2. /\ cpc \in {"header", "ack"} /\ npc \in {"header", "ack"}
        /\ UNCHANGED <<ctx, cok, ntx, nok, ctrlRemoved, nodeRemoved, gotVars>>
    BY <1>15 DEF HeaderTransfer, queueVars
  <2>3. faults' >= faults /\ (cbad \/ nbad => faults' >= faults + 1)
    BY <1>1, <2>1 DEF Spoil, TypeOK
  <2>4. CASE npc = "ack"
    <3>1. /\ nrx' = nrx /\ npc' = IF nok THEN "deliver" ELSE "sleep"
      BY <2>1, <2>4 DEF NodeAfterHeader, NodeFailed
    <3>2. NodeTakes' = NodeTakes
      BY <2>2, <2>4, <3>1 DEF NodeTakes, gotVars
    <3>3. NodeGone' = NodeGone
      BY <2>2, <2>4, <3>1 DEF NodeGone, NodeCommitted
    <3>4. \/ cpc = "header" /\ cpc' = "drain"
          \/ cpc = "ack" /\ crx' = crx /\ cpc' = IF cok THEN "deliver" ELSE "drain"
      BY <2>1, <2>2, <2>4 DEF CtrlAfterHeader
    <3>5. CtrlTakes' = CtrlTakes /\ CtrlGone' = CtrlGone
      BY <2>2, <3>4 DEF CtrlTakes, CtrlGone, CtrlCommitted, gotVars
    <3>6. QED
      BY <1>a, <2>3, <3>2, <3>3, <3>5 DEF Kept
  <2>5. CASE npc = "header"
    <3>1. cpc = "header"
      BY <2>2, <2>5 DEF PhaseInv
    <3>2. cpc' = IF cbad THEN "drain" ELSE "data"
      BY <2>1, <2>5, <3>1 DEF CtrlAfterHeader
    <3>3. npc' \in {"data", "sleep"}
      BY <2>1, <2>5, <3>1 DEF NodeAfterHeader, NodeFailed
    <3>4. CtrlTakes' = CtrlTakes /\ CtrlGone' = CtrlGone
      BY <2>2, <3>1, <3>2 DEF CtrlTakes, CtrlGone, CtrlCommitted, gotVars
    <3>5. NodeTakes' = NodeTakes
      BY <2>2, <2>5, <3>3 DEF NodeTakes, gotVars
    <3>6. NodeGone' \in {NodeGone, NodeGone + 1} /\ (~cbad => NodeGone' = NodeGone)
      BY <2>2, <2>5, <3>2, <3>3 DEF NodeGone, NodeCommitted
    <3>7. faults' >= faults + 1 \/ NodeGone' = NodeGone
      BY <2>3, <3>6
    <3>8. QED
      BY <1>1, <2>3, <3>4, <3>5, <3>6, <3>7, DamageMoves
  <2>6. QED
    BY <2>2, <2>4, <2>5
<1>16. CASE DataTransfer
  <2>1. PICK cbad, nbad \in BOOLEAN :
          /\ Spoil(cbad, nbad)
          /\ cok' = (~cbad \/ crx = NoMsg)
          /\ nok' = (~nbad \/ nrx = NoMsg)
    BY <1>16 DEF DataTransfer
  <2>2. /\ cpc = "data" /\ npc = "data" /\ cpc' = "ack" /\ npc' = "ack"
        /\ UNCHANGED <<ctx, crx, ntx, nrx, ctrlRemoved, nodeRemoved, gotVars>>
    BY <1>16 DEF DataTransfer, queueVars
  <2>3. faults' >= faults /\ (cbad \/ nbad => faults' >= faults + 1)
    BY <1>1, <2>1 DEF Spoil, TypeOK
  <2>4. ntx = crx /\ nrx = ctx
    BY <2>2 DEF PhaseInv
  <2>5. /\ NodeTakes = nodeGot /\ CtrlTakes = ctrlGot
        /\ CtrlGone = ctrlRemoved /\ NodeGone = nodeRemoved
    BY <2>2 DEF NodeTakes, CtrlTakes, CtrlGone, NodeGone, CtrlCommitted, NodeCommitted
  <2>6. /\ ctx # NoMsg => ctx = CtrlGone + 1
        /\ ntx # NoMsg => ntx = NodeGone + 1
    BY <1>1, <2>2, <2>5 DEF CtrlSendsHead, NodeSendsHead
  <2>7. NodeTakes' = IF nok' /\ ctx # NoMsg THEN Append(NodeTakes, CtrlGone + 1)
                                            ELSE NodeTakes
    BY <2>2, <2>4, <2>5, <2>6 DEF NodeTakes, gotVars
  <2>8. CtrlTakes' = IF cok' /\ ntx # NoMsg THEN Append(CtrlTakes, NodeGone + 1)
                                            ELSE CtrlTakes
    BY <2>2, <2>4, <2>5, <2>6 DEF CtrlTakes, CtrlCommitted, gotVars
  <2>9. CtrlGone' = IF cok' /\ ctx # NoMsg THEN CtrlGone + 1 ELSE CtrlGone
    BY <2>2, <2>5 DEF CtrlGone, CtrlCommitted
  <2>10. NodeGone' = IF nok' /\ ntx # NoMsg THEN NodeGone + 1 ELSE NodeGone
    BY <2>2, <2>5 DEF NodeGone, NodeCommitted
  <2>11. /\ NodeTakes \in Seq(Nat) /\ CtrlTakes \in Seq(Nat)
         /\ CtrlGone \in Nat /\ NodeGone \in Nat
    BY TakesTypes
  <2>12. /\ Append(NodeTakes, CtrlGone + 1) # NodeTakes
         /\ Append(CtrlTakes, NodeGone + 1) # CtrlTakes
    <3>1. \A s \in Seq(Nat), n \in Nat : Append(s, n) # s
      <4>1. \A s \in Seq(Nat), n \in Nat : Len(Append(s, n)) = Len(s) + 1
        BY HandledGrows
      <4>2. QED
        BY <4>1
    <3>2. CtrlGone + 1 \in Nat /\ NodeGone + 1 \in Nat
      BY <2>11
    <3>3. QED
      BY <2>11, <3>1, <3>2
  <2>13. CtrlGone + 1 # CtrlGone /\ NodeGone + 1 # NodeGone
    BY <2>11
  <2>14. /\ cbad \/ nbad \/ (cok' /\ nok')
         /\ ~(cok' /\ ctx # NoMsg /\ ~nok' /\ nok' /\ ntx # NoMsg)
    BY <2>1
  <2> DEFINE a == NodeTakes
             b == CtrlTakes
             c == CtrlGone
             d == NodeGone
  <2>15. \/ faults' >= faults + 1
         \/ /\ CtrlGone' = CtrlGone <=> NodeTakes' = NodeTakes
            /\ NodeGone' = NodeGone <=> CtrlTakes' = CtrlTakes
    <3>1. CASE cbad \/ nbad
      BY <2>3, <3>1
    <3>2. CASE cok' /\ nok'
      BY <2>7, <2>8, <2>9, <2>10, <2>12, <2>13, <3>2
    <3>3. QED
      BY <2>14, <3>1, <3>2
  <2>16. \/ CtrlGone' = CtrlGone \/ NodeTakes' # NodeTakes
         \/ NodeGone' = NodeGone \/ CtrlTakes' # CtrlTakes
    BY <2>7, <2>8, <2>9, <2>10, <2>12, <2>13
  <2>17. /\ NodeTakes' \in {NodeTakes, Append(NodeTakes, CtrlGone + 1)}
         /\ CtrlTakes' \in {CtrlTakes, Append(CtrlTakes, NodeGone + 1)}
         /\ CtrlGone' \in {CtrlGone, CtrlGone + 1}
         /\ NodeGone' \in {NodeGone, NodeGone + 1}
    BY <2>7, <2>8, <2>9, <2>10
  <2>18. QED
    BY <1>1, <2>3, <2>15, <2>16, <2>17, DamageMoves
<1>17. CASE CtrlSkipData
  <2>1. /\ cpc = "data" /\ ctx = NoMsg /\ crx = NoMsg /\ cpc' = "ack" /\ ready
        /\ UNCHANGED <<ctx, crx, ntx, nrx, ctrlRemoved, nodeRemoved, gotVars, faults>>
    BY <1>17 DEF CtrlSkipData, queueVars
  <2>2. \/ npc = "data" /\ ntx = NoMsg /\ nrx = NoMsg /\ npc' = "ack"
        \/ npc = "ack" /\ npc' = npc /\ nok' = nok
    BY <1>1, <1>17, <2>1 DEF CtrlSkipData, PhaseInv, ReadyMeansBlocked
  <2>3. CtrlTakes' = CtrlTakes /\ CtrlGone' = CtrlGone
    BY <2>1 DEF CtrlTakes, CtrlGone, CtrlCommitted, gotVars
  <2>4. NodeTakes' = NodeTakes
    BY <2>1, <2>2 DEF NodeTakes, gotVars
  <2>5. NodeGone' = NodeGone
    BY <2>1, <2>2 DEF NodeGone, NodeCommitted
  <2>6. QED
    BY <1>d, <2>1, <2>3, <2>4, <2>5 DEF Kept
<1>e. ASSUME NodeGarbage, npc \in Phase, cpc \in {"header", "drain"}, cpc' = "drain",
             UNCHANGED <<ctx, crx, cok, ntx, nrx, ctrlRemoved, nodeRemoved, gotVars,
                         faults>>
      PROVE  DamageInv'
  <2>1. /\ npc' = CASE npc = "header" -> "sleep"
                    [] npc = "data"   -> "ack"
                    [] npc = "ack"    -> IF nok THEN "deliver" ELSE "sleep"
        /\ nok' = IF npc = "data" THEN nrx = NoMsg ELSE nok
    BY <1>e DEF NodeGarbage, NodeFailed
  <2>2. CtrlTakes' = CtrlTakes /\ CtrlGone' = CtrlGone
    BY <1>e DEF CtrlTakes, CtrlGone, CtrlCommitted, gotVars
  <2>3. NodeTakes' = NodeTakes
    BY <1>e, <2>1 DEF NodeTakes, gotVars
  <2>4. NodeGone' = NodeGone
    BY <1>e, <2>1 DEF NodeGone, NodeCommitted
  <2>5. QED
    BY <1>d, <1>e, <2>2, <2>3, <2>4 DEF Kept
<1>18. CASE MisalignedHeader
  <2>1. /\ cpc = "header" /\ cpc' = "drain" /\ npc \in Phase
        /\ UNCHANGED <<ctx, crx, cok, ntx, nrx, ctrlRemoved, nodeRemoved, gotVars,
                       faults>>
    BY <1>1, <1>18 DEF MisalignedHeader, queueVars, ReadyMeansBlocked
  <2>2. CASE NodeGarbage
    BY <1>e, <2>1, <2>2
  <2>3. CASE UNCHANGED <<npc, nok>>
    <3>1. Kept
      BY <2>1, <2>3 DEF Kept, NodeTakes, CtrlTakes, CtrlGone, NodeGone, CtrlCommitted,
                NodeCommitted, gotVars
    <3>2. QED
      BY <1>d, <2>1, <3>1
  <2>4. QED
    BY <1>18, <2>2, <2>3 DEF MisalignedHeader
<1>19. CASE DrainChunk
  <2>1. /\ NodeGarbage /\ npc \in Phase /\ cpc = "drain" /\ cpc' = "drain"
        /\ UNCHANGED <<ctx, crx, cok, ntx, nrx, ctrlRemoved, nodeRemoved, gotVars,
                       faults>>
    BY <1>1, <1>19 DEF DrainChunk, queueVars, ctrlVars, ReadyMeansBlocked
  <2>2. QED
    BY <1>e, <2>1
<1>20. CASE DrainPartialChunk
  <2>1. UNCHANGED <<ctrlRemoved, nodeRemoved, gotVars, ctrlVars, nodeVars, faults>>
    BY <1>20 DEF DrainPartialChunk, queueVars
  <2>2. QED
    BY <1>b, <2>1
<1>21. CASE UNCHANGED vars
  <2>1. UNCHANGED <<ctrlRemoved, nodeRemoved, gotVars, ctrlVars, nodeVars, faults>>
    BY <1>21 DEF vars, queueVars
  <2>2. QED
    BY <1>b, <2>1
<1>22. QED
  BY <1>2, <1>3, <1>4, <1>5, <1>6, <1>7, <1>8, <1>9, <1>10, <1>11, <1>12,
     <1>13, <1>14, <1>15, <1>16, <1>17, <1>18, <1>19, <1>20, <1>21
     DEF Next, CtrlStep, NodeStep, Transfer

LEMMA InitDamageInv == Init => AckInv /\ DamageInv
<1> SUFFICES ASSUME Init PROVE AckInv /\ DamageInv
  OBVIOUS
<1> USE DEF Init, NoMsg
<1>1. AckInv
  BY DEF AckInv
<1>2. /\ NodeTakes = << >> /\ CtrlTakes = << >> /\ CtrlGone = 0 /\ NodeGone = 0
      /\ faults = 0
  BY DEF NodeTakes, CtrlTakes, CtrlGone, NodeGone, CtrlCommitted, NodeCommitted
<1>3. Handled(<< >>) = {} /\ Len(<< >>) = 0
  <2>1. Len(<< >>) = 0 /\ DOMAIN << >> = {}
    OBVIOUS
  <2>2. Handled(<< >>) = {}
    BY <2>1, Zenon DEF Handled
  <2>3. QED
    BY <2>1, <2>2
<1>4. Lost(<< >>, 0) = {}
  <2>1. 1..0 = {}
    OBVIOUS
  <2>2. QED
    BY <2>1, Zenon DEF Lost
<1>5. Cardinality({}) = 0
  BY FS_EmptySet
<1>6. Repeated(<< >>, 0) = 0
  <2>1. Cardinality(Handled(<< >>)) = 0
    BY <1>3, <1>5
  <2>2. 0 + 1 \notin Handled(<< >>)
    BY <1>3
  <2>3. Repeated(<< >>, 0) = 0 - 0 + 0
    BY <1>3, <2>1, <2>2 DEF Repeated
  <2>4. QED
    BY <2>3
<1>7. DamageInv
  <2>1. Handled(NodeTakes) = {} /\ Handled(CtrlTakes) = {}
    BY <1>2, <1>3
  <2>2. /\ Cardinality(Lost(NodeTakes, CtrlGone)) = 0
        /\ Cardinality(Lost(CtrlTakes, NodeGone)) = 0
    BY <1>2, <1>4, <1>5
  <2>3. Repeated(NodeTakes, CtrlGone) = 0 /\ Repeated(CtrlTakes, NodeGone) = 0
    BY <1>2, <1>6
  <2>4. QED
    BY <1>2, <2>1, <2>2, <2>3 DEF DamageInv
<1>8. QED
  BY <1>1, <1>7

(* What counts as lost or repeated now already counted as such in what the  *)
(* sides were committed to.                                                 *)
LEMMA DamageShows ==
  ASSUME QueueInv, PhaseInv, AckInv, DamageInv
  PROVE  DamageBounded
<1> USE DEF NoMsg, Phase
<1>1. /\ NodeTakes \in Seq(Nat) /\ CtrlTakes \in Seq(Nat)
      /\ CtrlGone \in Nat /\ NodeGone \in Nat
  BY TakesTypes
<1>2. /\ nodeGot \in Seq(Nat) /\ ctrlGot \in Seq(Nat) /\ nrx \in Nat /\ crx \in Nat
      /\ ctrlRemoved \in Nat /\ nodeRemoved \in Nat /\ faults \in Nat
  BY DEF QueueInv, TypeOK
<1>3. /\ Handled(NodeTakes) \subseteq 1..(CtrlGone + 1)
      /\ Handled(CtrlTakes) \subseteq 1..(NodeGone + 1)
  BY DEF DamageInv
<1>4. /\ 1..ctrlRemoved \subseteq 1..CtrlGone /\ 1..nodeRemoved \subseteq 1..NodeGone
  <2>1. ctrlRemoved <= CtrlGone /\ nodeRemoved <= NodeGone
    BY <1>2 DEF CtrlGone, NodeGone
  <2>2. QED
    BY <1>1, <1>2, <2>1
<1>5. LostToNode \subseteq Lost(NodeTakes, CtrlGone)
  <2> SUFFICES ASSUME NEW m \in LostToNode, m \in Handled(NodeTakes) PROVE FALSE
    BY <1>4 DEF LostToNode, Lost
  <2>1. m \in 1..ctrlRemoved /\ m \notin Handled(nodeGot) /\ ~(npc = "deliver" /\ nrx = m)
    BY DEF LostToNode
  <2>2. /\ npc = "deliver" \/ (npc = "ack" /\ nok)
        /\ nrx # NoMsg
        /\ NodeTakes = Append(nodeGot, nrx)
    BY <2>1 DEF NodeTakes
  <2>3. m = nrx
    BY <1>2, <2>1, <2>2, HandledGrows
  <2>4. npc = "ack" /\ nok /\ nrx # NoMsg
    BY <2>1, <2>2, <2>3
  <2>5. cpc = "ack" /\ nrx = ctx
    BY <2>4 DEF AckInv
  <2>6. m = ctrlRemoved + 1
    BY <2>3, <2>4, <2>5 DEF QueueInv, CtrlSendsHead
  <2>7. QED
    BY <1>2, <2>1, <2>6
<1>6. LostToCtrl \subseteq Lost(CtrlTakes, NodeGone)
  <2> SUFFICES ASSUME NEW m \in LostToCtrl, m \in Handled(CtrlTakes) PROVE FALSE
    BY <1>4 DEF LostToCtrl, Lost
  <2>1. m \in 1..nodeRemoved /\ m \notin Handled(ctrlGot) /\ ~(cpc = "deliver" /\ crx = m)
    BY DEF LostToCtrl
  <2>2. CtrlCommitted /\ crx # NoMsg /\ CtrlTakes = Append(ctrlGot, crx)
    BY <2>1 DEF CtrlTakes
  <2>3. m = crx
    BY <1>2, <2>1, <2>2, HandledGrows
  <2>4. cpc = "ack" /\ crx # NoMsg
    BY <2>1, <2>2, <2>3 DEF CtrlCommitted
  <2>5. npc = "ack" /\ crx = ntx
    BY <2>4 DEF AckInv, PhaseInv
  <2>6. m = nodeRemoved + 1
    BY <2>3, <2>4, <2>5 DEF QueueInv, NodeSendsHead
  <2>7. QED
    BY <1>2, <2>1, <2>6
<1> DEFINE l == Cardinality(Lost(NodeTakes, CtrlGone))
           m == Cardinality(Lost(CtrlTakes, NodeGone))
<1>7. IsFiniteSet(Lost(NodeTakes, CtrlGone)) /\ l \in Nat
  BY <1>1, <1>3, DamageTypes
<1>8. IsFiniteSet(Lost(CtrlTakes, NodeGone)) /\ m \in Nat
  BY <1>1, <1>3, DamageTypes
<1>9. Cardinality(LostToNode) <= l /\ Cardinality(LostToNode) \in Nat
  BY <1>5, <1>7, FS_Subset, FS_CardinalityType
<1>10. Cardinality(LostToCtrl) <= m /\ Cardinality(LostToCtrl) \in Nat
  BY <1>6, <1>8, FS_Subset, FS_CardinalityType
<1>11. l + m <= faults
  BY DEF DamageInv
<1> HIDE DEF l, m
<1>12. Cardinality(LostToNode) + Cardinality(LostToCtrl) <= faults
  BY <1>2, <1>7, <1>8, <1>9, <1>10, <1>11
<1> USE DEF l, m
<1>13. ASSUME NEW got \in Seq(Nat), NEW x \in Nat, NEW gone \in Nat,
              NEW t \in {got, Append(got, x)},
              Handled(t) \subseteq 1..(gone + 1), Repeated(t, gone) <= faults
       PROVE  Len(got) - Cardinality(Handled(got)) <= faults
  <2>1. /\ Handled(Append(got, x)) = Handled(got) \cup {x}
        /\ Len(Append(got, x)) = Len(got) + 1 /\ Append(got, x) \in Seq(Nat)
    BY HandledGrows
  <2>2. t \in Seq(Nat) /\ Handled(got) \subseteq 1..(gone + 1)
    BY <1>13, <2>1
  <2>3. IsFiniteSet(Handled(got)) /\ Cardinality(Handled(got)) \in Nat
    BY <2>2, DamageTypes
  <2>4. Cardinality(Handled(got) \cup {x}) \in
          {Cardinality(Handled(got)), Cardinality(Handled(got)) + 1}
    BY <2>3, FS_AddElement
  <2>5. Len(t) - Cardinality(Handled(t)) <= faults
    <3> DEFINE q == Cardinality(Handled(t))
    <3>1. Cardinality(Handled(t)) \in Nat
      BY <1>13, <2>2, DamageTypes
    <3>2. Len(t) \in Nat
      BY <2>2
    <3>3. Repeated(t, gone) = Len(t) - q + (IF gone + 1 \in Handled(t) THEN 1 ELSE 0)
      BY DEF Repeated
    <3> HIDE DEF q
    <3>4. Len(t) - q <= faults
      BY <1>2, <1>13, <3>1, <3>2, <3>3 DEF q
    <3>5. QED
      BY <3>4 DEF q
  <2>6. CASE t = got
    BY <2>5, <2>6
  <2>7. CASE t = Append(got, x)
    <3> DEFINE q == Cardinality(Handled(got))
               r == Cardinality(Handled(got) \cup {x})
    <3>1. Len(got) \in Nat /\ q \in Nat /\ r \in {q, q + 1}
      BY <2>3, <2>4
    <3>2. Cardinality(Handled(t)) = r
      BY <2>1, <2>7, Zenon
    <3>3. Len(t) = Len(got) + 1
      BY <2>7
    <3> HIDE DEF q, r
    <3>4. Len(got) + 1 - r <= faults
      BY <1>2, <2>5, <3>1, <3>2, <3>3
    <3>5. Len(got) - q <= faults
      BY <1>2, <3>4, <3>1
    <3>6. QED
      BY <3>5 DEF q
  <2>8. QED
    BY <2>6, <2>7
<1>14. Len(nodeGot) - Cardinality(Handled(nodeGot)) <= faults
  <2>1. NodeTakes \in {nodeGot, Append(nodeGot, nrx)}
    BY DEF NodeTakes
  <2>2. Repeated(NodeTakes, CtrlGone) <= faults
    BY DEF DamageInv
  <2>3. QED
    BY <1>1, <1>2, <1>3, <1>13, <2>1, <2>2
<1>15. Len(ctrlGot) - Cardinality(Handled(ctrlGot)) <= faults
  <2>1. CtrlTakes \in {ctrlGot, Append(ctrlGot, crx)}
    BY DEF CtrlTakes
  <2>2. Repeated(CtrlTakes, NodeGone) <= faults
    BY DEF DamageInv
  <2>3. QED
    BY <1>1, <1>2, <1>3, <1>13, <2>1, <2>2
<1>16. QED
  BY <1>12, <1>14, <1>15 DEF DamageBounded

(* However the wire misbehaves, a spoilt transfer costs at most one message *)
(* of one direction and repeats at most one: the acknowledgement, exchanged *)
(* and ignored by both sides, leaves it at that.                            *)
THEOREM DamageIsBounded == Spec => []DamageBounded
<1> DEFINE Inv == QueueInv /\ PhaseInv /\ AckInv /\ DamageInv
<1>1. Init => Inv
  BY InitQueueInv, InitPhaseInv, InitDamageInv
<1>2. Inv /\ [Next]_vars => Inv'
  BY NextQueueInv, NextPhaseInv, NextAckInv, NextDamageInv
<1>3. Inv => DamageBounded
  BY DamageShows
<1> HIDE DEF Inv
<1>4. QED
  BY <1>1, <1>2, <1>3, PTL DEF Spec
=============================================================================
