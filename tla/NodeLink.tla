------------------------------ MODULE NodeLink ------------------------------
(***************************************************************************)
(* The SPI link between the controller and one node                        *)
(* (shared/node_link.c, controller/node_link_ctrl.c, node/node_link_node.c) *)
(*                                                                         *)
(* Three threads run here: the controller's core 0 (SPI master), the node's *)
(* core 1 (SPI slave, which does nothing else) and the node's core 0, which *)
(* queues messages.  A message is exchanged in three transfers, a transport *)
(* header, the data and an acknowledgement; in each of them both sides send *)
(* and receive at once.  The node raises spi_ready_gpio (ready) while it is *)
(* blocked in a transfer, and data_available_gpio (dataAvailable) when its  *)
(* queue holds something.                                                  *)
(*                                                                         *)
(* A queue_t is a pair of counters: message i is the i-th one it accepted,  *)
(* and the queue holds removed+1 .. added.                                  *)
(*                                                                         *)
(* Timing.  A node that failed sleeps longer than the controller waits for  *)
(* ready (node_link_get_us_delay_before_retry), and between two transfers   *)
(* it is far quicker than that wait: see NodeWake and CtrlTimeout.  It also *)
(* lowers ready before the controller samples it for the next transfer, so  *)
(* a transfer and the lowering of ready are one step.                       *)
(***************************************************************************)
EXTENDS Naturals, Sequences, FiniteSets

CONSTANTS
  CtrlQueueSize,   \* elements of computer->message_queue (10 in the code)
  NodeQueueSize,   \* elements of node.message_queue (16 in the code)
  MaxCtrlMsgs,     \* bound: messages the controller queues
  MaxNodeMsgs,     \* bound: messages the node queues
  MaxFaults        \* bound: received headers or data spoilt on the wire

ASSUME QueueAssumption ==
  /\ CtrlQueueSize \in Nat \ {0}
  /\ NodeQueueSize \in Nat \ {0}

ASSUME BoundAssumption ==
  /\ MaxCtrlMsgs \in Nat
  /\ MaxNodeMsgs \in Nat
  /\ MaxFaults \in Nat

NoMsg == 0                        \* the nullptr message: a length of zero
InitMsg == 1                      \* a node's first message is its INIT
Phase == {"header", "data", "ack"}

VARIABLES
  ctrlAdded, ctrlRemoved,         \* the controller's queue for this node
  cpc,                            \* what the controller's core 0 is doing
  ctx, crx,                       \* message it sends; one the header announced
  cok,                            \* the data it received had the right CRC
  nodeAdded, nodeRemoved,         \* the node's queue
  npc, ntx, nrx, nok,             \* the same for the node's core 1
  apc,                            \* what the node's core 0 is doing
  ready, dataAvailable,           \* the two GPIOs the node drives
  noise,                          \* stray bytes reached the node's transfer
  ctrlGot, nodeGot,               \* messages given to each message_handler
  faults                          \* transfers spoilt so far

ctrlVars == <<cpc, ctx, crx, cok>>
nodeVars == <<npc, ntx, nrx, nok>>
queueVars == <<ctrlAdded, ctrlRemoved, nodeAdded, nodeRemoved, apc>>
gotVars == <<ctrlGot, nodeGot>>
vars == <<ctrlVars, nodeVars, queueVars, gotVars, ready, dataAvailable, noise,
          faults>>

(* Types, and the bounds of the two queues. *)
TypeOK ==
  /\ ctrlAdded \in Nat /\ ctrlRemoved \in Nat
  /\ nodeAdded \in Nat /\ nodeRemoved \in Nat
  /\ ctrlRemoved <= ctrlAdded /\ ctrlAdded - ctrlRemoved <= CtrlQueueSize
  /\ nodeRemoved <= nodeAdded /\ nodeAdded - nodeRemoved <= NodeQueueSize
  /\ cpc \in {"main", "drain", "deliver"} \cup Phase
  /\ npc \in {"peek", "deliver", "remove", "check", "clear", "sleep"} \cup Phase
  /\ apc \in {"idle", "signal"}
  /\ ctx \in Nat /\ crx \in Nat /\ cok \in BOOLEAN
  /\ ntx \in Nat /\ nrx \in Nat /\ nok \in BOOLEAN
  /\ ready \in BOOLEAN /\ dataAvailable \in BOOLEAN /\ noise \in BOOLEAN
  /\ ctrlGot \in Seq(Nat) /\ nodeGot \in Seq(Nat)
  /\ faults \in Nat

(* Both sides freshly started; node_link_node_init lowers both GPIOs. *)
Init ==
  /\ ctrlAdded = 0 /\ ctrlRemoved = 0
  /\ nodeAdded = 0 /\ nodeRemoved = 0
  /\ cpc = "main" /\ ctx = NoMsg /\ crx = NoMsg /\ cok = FALSE
  /\ npc = "peek" /\ ntx = NoMsg /\ nrx = NoMsg /\ nok = FALSE
  /\ apc = "idle"
  /\ ready = FALSE /\ dataAvailable = FALSE /\ noise = FALSE
  /\ ctrlGot = << >> /\ nodeGot = << >>
  /\ faults = 0

-----------------------------------------------------------------------------
(* The two queues.                                                         *)

CtrlQueueFullOffByOne == ctrlAdded - ctrlRemoved > CtrlQueueSize   \* mutant

CtrlQueueEmpty == ctrlAdded = ctrlRemoved
CtrlQueueFull  == ctrlAdded - ctrlRemoved >= CtrlQueueSize
NodeQueueEmpty == nodeAdded = nodeRemoved
NodeQueueFull  == nodeAdded - nodeRemoved >= NodeQueueSize

(* computer->state leaves NOT_CONNECTED when the node's INIT is handled. *)
Connected == \E i \in DOMAIN ctrlGot : ctrlGot[i] = InitMsg

CtrlCanQueue == ~CtrlQueueFull /\ ctrlAdded < MaxCtrlMsgs

(* Core 0 of the controller queues a message between two calls of the task; *)
(* a message for a full queue, or for a node not connected, is refused.     *)
CtrlEnqueue ==
  /\ cpc = "main"
  /\ Connected
  /\ CtrlCanQueue
  /\ ctrlAdded' = ctrlAdded + 1
  /\ UNCHANGED <<ctrlRemoved, nodeAdded, nodeRemoved, apc, ctrlVars, nodeVars,
                 gotVars, ready, dataAvailable, noise, faults>>

(* Core 0 of the node queues a message, and raises the GPIO afterwards. *)
NodeEnqueue ==
  /\ apc = "idle"
  /\ ~NodeQueueFull
  /\ nodeAdded < MaxNodeMsgs
  /\ nodeAdded' = nodeAdded + 1
  /\ apc' = "signal"
  /\ UNCHANGED <<ctrlAdded, ctrlRemoved, nodeRemoved, ctrlVars, nodeVars,
                 gotVars, ready, dataAvailable, noise, faults>>

NodeSignalDataReady ==
  /\ apc = "signal"
  /\ dataAvailable' = TRUE
  /\ apc' = "idle"
  /\ UNCHANGED <<ctrlAdded, ctrlRemoved, nodeAdded, nodeRemoved, ctrlVars,
                 nodeVars, gotVars, ready, noise, faults>>

-----------------------------------------------------------------------------
(* Local steps of the controller.                                          *)

CtrlWantsExchangeIfFlag  == dataAvailable                          \* mutant
CtrlWantsExchangeIfQueue == ~CtrlQueueEmpty                        \* mutant
CtrlWantsExchange == ~CtrlQueueEmpty \/ dataAvailable

(* node_link_ctrl_task: skip a node that is not listening; send the head of *)
(* the queue, or an empty message when the node has data.                   *)
CtrlPoll ==
  /\ cpc = "main"
  /\ ready
  /\ CtrlWantsExchange
  /\ ctx' = IF CtrlQueueEmpty THEN NoMsg ELSE ctrlRemoved + 1
  /\ cpc' = "header"
  /\ UNCHANGED <<crx, cok, nodeVars, queueVars, gotVars, ready, dataAvailable,
                 noise, faults>>

(* wait_for_spi_ready gave up.  Only a sleeping node keeps ready low that   *)
(* long.  The result of the acknowledgement is ignored.                     *)
CtrlTimeout ==
  /\ cpc \in Phase
  /\ ~ready
  /\ npc = "sleep"
  /\ cpc' = IF cpc = "ack" /\ cok THEN "deliver" ELSE "drain"
  /\ UNCHANGED <<ctx, crx, cok, nodeVars, queueVars, gotVars, ready,
                 dataAvailable, noise, faults>>

RemoveSentForgotten == ctrlRemoved                                 \* mutant
RemoveSent == IF ctx = NoMsg THEN ctrlRemoved ELSE ctrlRemoved + 1

(* The exchange succeeded for the controller: hand over what was received   *)
(* (an INIT is answered with an INIT), then drop what was sent.             *)
CtrlDeliver ==
  /\ cpc = "deliver"
  /\ ctrlGot' = IF crx = NoMsg THEN ctrlGot ELSE Append(ctrlGot, crx)
  /\ ctrlAdded' = IF crx = InitMsg /\ CtrlCanQueue
                  THEN ctrlAdded + 1 ELSE ctrlAdded
  /\ ctrlRemoved' = RemoveSent
  /\ cpc' = "main"
  /\ UNCHANGED <<ctx, crx, cok, nodeAdded, nodeRemoved, apc, nodeVars, nodeGot,
                 ready, dataAvailable, noise, faults>>

-----------------------------------------------------------------------------
(* Local steps of the node's core 1.                                       *)

(* Where a failed exchange leads: to the delay before the next try. *)
NodeFailedAtOnce == "peek"                                         \* mutant
NodeFailed == "sleep"

NodePeek ==
  /\ npc = "peek"
  /\ ntx' = IF NodeQueueEmpty THEN NoMsg ELSE nodeRemoved + 1
  /\ npc' = "header"
  /\ UNCHANGED <<nrx, nok, ctrlVars, queueVars, gotVars, ready, dataAvailable,
                 noise, faults>>

(* node_link_write_read_blocking: announce the transfer, then block in it. *)
NodeSignalReady ==
  /\ npc \in Phase
  /\ ~ready
  /\ ready' = TRUE
  /\ UNCHANGED <<ctrlVars, nodeVars, queueVars, gotVars, dataAvailable, noise,
                 faults>>

NodeDeliverRemovesAlways ==                                        \* mutant
  /\ npc = "deliver"
  /\ nodeGot' = IF nrx = NoMsg THEN nodeGot ELSE Append(nodeGot, nrx)
  /\ npc' = IF NodeQueueEmpty THEN "peek" ELSE "remove"
  /\ UNCHANGED <<ntx, nrx, nok, ctrlVars, queueVars, ctrlGot, ready,
                 dataAvailable, noise, faults>>

NodeDeliver ==
  /\ npc = "deliver"
  /\ nodeGot' = IF nrx = NoMsg THEN nodeGot ELSE Append(nodeGot, nrx)
  /\ npc' = IF ntx = NoMsg THEN "peek" ELSE "remove"
  /\ UNCHANGED <<ntx, nrx, nok, ctrlVars, queueVars, ctrlGot, ready,
                 dataAvailable, noise, faults>>

NodeRemoveForgotten ==                                             \* mutant
  /\ npc = "remove"
  /\ npc' = "check"
  /\ UNCHANGED <<ntx, nrx, nok, ctrlVars, queueVars, gotVars, ready,
                 dataAvailable, noise, faults>>

NodeRemove ==
  /\ npc = "remove"
  /\ nodeRemoved' = nodeRemoved + 1
  /\ npc' = "check"
  /\ UNCHANGED <<ntx, nrx, nok, ctrlAdded, ctrlRemoved, nodeAdded, apc,
                 ctrlVars, gotVars, ready, dataAvailable, noise, faults>>

NodeCheckEmpty ==
  /\ npc = "check"
  /\ npc' = IF NodeQueueEmpty THEN "clear" ELSE "peek"
  /\ UNCHANGED <<ntx, nrx, nok, ctrlVars, queueVars, gotVars, ready,
                 dataAvailable, noise, faults>>

NodeClearDataReady ==
  /\ npc = "clear"
  /\ dataAvailable' = FALSE
  /\ npc' = "peek"
  /\ UNCHANGED <<ntx, nrx, nok, ctrlVars, queueVars, gotVars, ready, noise,
                 faults>>

NodeDelayTooShort == TRUE                                          \* mutant
NodeDelayOver == cpc = "main"

(* sleep_us after an error: it outlasts the controller's wait, so that the  *)
(* controller has given up and is back in its main loop.                    *)
NodeWake ==
  /\ npc = "sleep"
  /\ NodeDelayOver
  /\ npc' = "peek"
  /\ UNCHANGED <<ntx, nrx, nok, ctrlVars, queueVars, gotVars, ready,
                 dataAvailable, noise, faults>>

-----------------------------------------------------------------------------
(* Transfers: steps of both sides.                                         *)

(* Nothing to transfer in the data phase: the exchange length is zero. *)
CtrlZeroData == cpc = "data" /\ ctx = NoMsg /\ crx = NoMsg
NodeZeroData == npc = "data" /\ ntx = NoMsg /\ nrx = NoMsg

(* A received copy is spoilt on the wire, on either side or on both. *)
Spoil(cbad, nbad) ==
  /\ faults' = faults + (IF cbad THEN 1 ELSE 0) + (IF nbad THEN 1 ELSE 0)
  /\ faults' <= MaxFaults

(* What each side does with the transport header it received; intact says   *)
(* that magic, CRC and opcode DATA are right.  In the ack phase the code     *)
(* ignores what exchange_ack returns.                                       *)
CtrlAfterHeader(intact) ==
  IF cpc = "header"
  THEN /\ cpc' = IF intact THEN "data" ELSE "drain"
       /\ crx' = IF intact THEN ntx ELSE crx
  ELSE /\ cpc' = IF cok THEN "deliver" ELSE "drain"
       /\ UNCHANGED crx

NodeAfterHeader(intact) ==
  IF npc = "header"
  THEN /\ npc' = IF intact THEN "data" ELSE NodeFailed
       /\ nrx' = IF intact THEN ctx ELSE nrx
  ELSE /\ npc' = IF nok THEN "deliver" ELSE NodeFailed
       /\ UNCHANGED nrx

(* Two transport headers cross.  Headers and acknowledgements have the same *)
(* length, so this also happens between a header and an acknowledgement:    *)
(* the opcode then tells the side that waits for DATA.                      *)
HeaderTransfer ==
  /\ ready /\ ~noise
  /\ cpc \in {"header", "ack"} /\ npc \in {"header", "ack"}
  /\ \E cbad, nbad \in BOOLEAN :
       /\ Spoil(cbad, nbad)
       /\ CtrlAfterHeader(~cbad /\ npc = "header")
       /\ NodeAfterHeader(~nbad /\ cpc = "header")
  /\ ready' = FALSE
  /\ UNCHANGED <<ctx, cok, ntx, nok, queueVars, gotVars, dataAvailable, noise>>

(* Both sides transfer max(length sent, length announced) bytes.  The CRC   *)
(* covers the announced length only: nothing announced, nothing checked.    *)
DataTransfer ==
  /\ ready /\ ~noise
  /\ cpc = "data" /\ npc = "data"
  /\ ~CtrlZeroData /\ ~NodeZeroData
  /\ \E cbad, nbad \in BOOLEAN :
       /\ Spoil(cbad, nbad)
       /\ cok' = (~cbad \/ crx = NoMsg)
       /\ nok' = (~nbad \/ nrx = NoMsg)
  /\ cpc' = "ack" /\ npc' = "ack"
  /\ ready' = FALSE
  /\ UNCHANGED <<ctx, crx, ntx, nrx, queueVars, gotVars, dataAvailable, noise>>

(* A transfer of zero bytes does not block: the node pulses ready and goes  *)
(* on, alone or seen by the controller.                                     *)
NodeSkipData ==
  /\ NodeZeroData
  /\ ready
  /\ nok' = TRUE
  /\ npc' = "ack"
  /\ ready' = FALSE
  /\ UNCHANGED <<ntx, nrx, ctrlVars, queueVars, gotVars, dataAvailable, noise,
                 faults>>

(* The controller waits for ready, be it the pulse or the acknowledgement   *)
(* that follows it.                                                         *)
CtrlSkipData ==
  /\ CtrlZeroData
  /\ ready
  /\ cok' = TRUE
  /\ cpc' = "ack"
  /\ IF NodeZeroData
     THEN npc' = "ack" /\ nok' = TRUE /\ ready' = FALSE
     ELSE UNCHANGED <<npc, nok, ready>>
  /\ UNCHANGED <<ctx, crx, ntx, nrx, queueVars, gotVars, dataAvailable, noise,
                 faults>>

(* The node's transfer ends on bytes that are not what the peer meant for   *)
(* it.  A header is refused; data fail their CRC unless none were           *)
(* announced; an acknowledgement is ignored whatever it says.  If the       *)
(* controller is still clocking, the next transfer gets stray bytes too.    *)
NodeGarbage ==
  /\ ready' = FALSE
  /\ npc' = CASE npc = "header" -> NodeFailed
              [] npc = "data"   -> "ack"
              [] npc = "ack"    -> IF nok THEN "deliver" ELSE NodeFailed
  /\ nok' = IF npc = "data" THEN nrx = NoMsg ELSE nok
  /\ noise' \in IF npc' = "sleep" THEN {FALSE} ELSE BOOLEAN

(* The controller sends a header to a node that is not aligned with it: the *)
(* controller reads bytes that are no header; the node's transfer may end,  *)
(* or, when it reads data, still wait for more.                             *)
MisalignedHeader ==
  /\ cpc = "header"
  /\ ready
  /\ noise \/ (npc = "data" /\ ~NodeZeroData)
  /\ cpc' = "drain"
  /\ \/ NodeGarbage
     \/ npc = "data" /\ noise' = TRUE /\ UNCHANGED <<npc, nok, ready>>
  /\ UNCHANGED <<ctx, crx, cok, ntx, nrx, queueVars, gotVars, dataAvailable,
                 faults>>

(* node_link_drain_buffer: while ready is high, clock chunks of zeros into  *)
(* the node; a chunk may be shorter than the data the node waits for.       *)
DrainChunk ==
  /\ cpc = "drain"
  /\ ready /\ ~NodeZeroData
  /\ NodeGarbage
  /\ UNCHANGED <<ctrlVars, ntx, nrx, queueVars, gotVars, dataAvailable, faults>>

DrainPartialChunk ==
  /\ cpc = "drain"
  /\ ready /\ npc = "data" /\ ~NodeZeroData
  /\ noise' = TRUE
  /\ UNCHANGED <<ctrlVars, nodeVars, queueVars, gotVars, ready, dataAvailable,
                 faults>>

DrainDone ==
  /\ cpc = "drain"
  /\ ~ready
  /\ cpc' = "main"
  /\ UNCHANGED <<ctx, crx, cok, nodeVars, queueVars, gotVars, ready,
                 dataAvailable, noise, faults>>

-----------------------------------------------------------------------------

CtrlStep == CtrlPoll \/ CtrlTimeout \/ CtrlDeliver \/ DrainDone

NodeStep ==
  \/ NodePeek \/ NodeSignalReady \/ NodeDeliver \/ NodeRemove
  \/ NodeCheckEmpty \/ NodeClearDataReady \/ NodeWake \/ NodeSkipData

Transfer ==
  HeaderTransfer \/ DataTransfer \/ CtrlSkipData \/ MisalignedHeader \/ DrainChunk

Next ==
  \/ CtrlEnqueue \/ NodeEnqueue \/ NodeSignalDataReady
  \/ CtrlStep \/ NodeStep \/ Transfer \/ DrainPartialChunk

Spec == Init /\ [][Next]_vars

(* Every thread is a loop that nothing else blocks: its next step is taken. *)
(* The producers of messages are under no obligation.                       *)
Fairness ==
  /\ WF_vars(CtrlStep)
  /\ WF_vars(NodeStep)
  /\ WF_vars(Transfer)
  /\ WF_vars(NodeSignalDataReady)

FairSpec == Spec /\ Fairness
-----------------------------------------------------------------------------
(* Properties.                                                             *)

(* When the controller is about to clock data into a node that listens, the *)
(* node is in the data transfer of the same exchange, or has skipped an     *)
(* empty one; an acknowledgement meets an acknowledgement.  Only the first  *)
(* header of an exchange can meet a node out of step, whatever was spoilt   *)
(* before (the delay of node_link_get_us_delay_before_retry is there for    *)
(* this).                                                                   *)
PhaseAgreement ==
  /\ cpc = "data" /\ ready =>
       \/ npc = "data" /\ ntx = crx /\ nrx = ctx /\ ~noise
       \/ npc = "ack" /\ CtrlZeroData /\ ~noise
  /\ cpc = "ack" => npc = "ack" /\ ~noise

Handled(s) == {s[i] : i \in DOMAIN s}

(* Messages dropped by their sender that the peer's handler never got. *)
LostToNode ==
  {m \in 1..ctrlRemoved : m \notin Handled(nodeGot) /\ ~(npc = "deliver" /\ nrx = m)}
LostToCtrl ==
  {m \in 1..nodeRemoved : m \notin Handled(ctrlGot) /\ ~(cpc = "deliver" /\ crx = m)}

(* The acknowledgement is exchanged and then ignored, so a message can be   *)
(* lost, and its counterpart repeated: one transfer spoilt on the wire      *)
(* costs at most one message of one direction, and repeats at most one.     *)
DamageBounded ==
  /\ Cardinality(LostToNode) + Cardinality(LostToCtrl) <= faults
  /\ Len(nodeGot) - Cardinality(Handled(nodeGot)) <= faults
  /\ Len(ctrlGot) - Cardinality(Handled(ctrlGot)) <= faults

(* data_available_gpio tells the controller that the node has data: once    *)
(* the node's core 0 has raised it for a message, it stays high until the   *)
(* queue is empty.                                                          *)
DataAnnounced == ~NodeQueueEmpty /\ apc = "idle" => dataAvailable

(* Without spoilt transfers each direction is the abstract channel: every   *)
(* queued message is handled once and in order.  A sender drops a message   *)
(* before or after its peer handles it, so one more than the queue holds    *)
(* may be under way.                                                        *)
CtrlToNode == INSTANCE MessageChannel
  WITH Capacity <- CtrlQueueSize + 1, accepted <- ctrlAdded, handled <- nodeGot
NodeToCtrl == INSTANCE MessageChannel
  WITH Capacity <- NodeQueueSize + 1, accepted <- nodeAdded, handled <- ctrlGot

CtrlToNodeExactlyOnce == CtrlToNode!Spec
NodeToCtrlExactlyOnce == NodeToCtrl!Spec

(* What the controller queued reaches the node's handler in the end. *)
CtrlToNodeLive == CtrlToNode!LiveSpec

(* However the wire misbehaved (finitely often), the controller's core 0,   *)
(* which also runs the USB device and feeds the watchdog, always comes back *)
(* from the link, and its queue moves on.                                   *)
CtrlReturns == []<>(cpc = "main")
CtrlQueueMoves ==
  \A n \in 1..MaxCtrlMsgs : (ctrlAdded = n) ~> (ctrlRemoved >= n)

(* A message of the node leaves its queue unless data_available_gpio was    *)
(* lowered with the message in it.                                          *)
NodeQueueMoves ==
  \A n \in 1..MaxNodeMsgs :
    (nodeAdded = n) ~> (nodeRemoved >= n \/ (~NodeQueueEmpty /\ ~dataAvailable))
=============================================================================
