--------------------------- MODULE KvmController ---------------------------
(***************************************************************************)
(* The switching logic: controller/kvm_switch_controller.c on core 0 of the *)
(* controller, the TinyUSB callbacks of core 1 that feed its action queue,  *)
(* the message queues of the nodes, and what the nodes and computers make   *)
(* of the messages (node/kvm_switch_node.c, shared_usb/usb_device.c).       *)
(*                                                                         *)
(* The link to a node is the channel NodeLink shows it to be: messages are  *)
(* handled once, in order.  The node's own action queue is part of it.  A   *)
(* request queued for usb_host counts as asked of the interface; UsbHost is *)
(* the module that follows it.                                             *)
(*                                                                         *)
(* An interface (hid_t) is known by its device and its number.  One report  *)
(* id and type per interface stand for those a computer sets.  All keys but *)
(* the shortcuts are one key.                                               *)
(***************************************************************************)
EXTENDS Naturals, FiniteSets, Sequences, SequencesExt

CONSTANTS
  MaxComputer,       \* MAX_COMPUTER; computer 0 is LOCAL_COMPUTER_ID
  MaxHidDevice,      \* MAX_HID_DEVICE: device addresses are 1..MaxHidDevice
  MaxInterface,      \* interfaces per device
  BootInterface,     \* the interface numbers that support the boot protocol
  Slot,              \* kvm_hid_idx, 0 .. MAX_HID_COUNT - 1
  Shortcut,          \* the shortcut actions that are configured
  None,
  ActionQueueSize,   \* elements of kvm_switch.action_queue (32 in the code)
  MessageQueueSize,  \* elements of computer->message_queue (10 in the code)
  MaxPlugs, MaxUnplugs, MaxReports, MaxSets, MaxRestarts   \* bounds

ASSUME KvmAssumption ==
  /\ MaxComputer \in Nat \ {0} /\ MaxHidDevice \in 1..255
  /\ MaxInterface \in Nat \ {0}
  /\ Slot \subseteq Nat /\ IsFiniteSet(Slot)
  /\ ActionQueueSize \in Nat \ {0} /\ MessageQueueSize \in Nat \ {0}

Local    == 0
Computer == 0..MaxComputer - 1
Node     == Computer \ {Local}
Device   == 1..MaxHidDevice
Hid      == [dev : Device, itf : 0..MaxInterface - 1]
Kind     == {"protocol", "report"}
Value    == {0, 1}                  \* HID_PROTOCOL_BOOT is 0, REPORT is 1
Fresh    == [protocol |-> 0, report |-> None]
PlainKey == [action |-> "none"]
NoHid    == [s \in Slot |-> None]

ASSUME NamesAssumption ==
  /\ None \notin Hid /\ None \notin Value
  /\ Shortcut \subseteq [action : {"next", "previous"}]
                          \cup [action : {"set"}, computer : Computer]
                          \cup [action : {"setDevice"}, computer : Computer, dev : Device]

VARIABLES
  up,              \* devices TinyUSB has mounted
  callbacks,       \* calls TinyUSB still makes for the last device event
  actions,         \* kvm_switch.action_queue
  table,           \* hid_mgr.hid
  mountedCount,    \* kvm_switch.device_mounted_count, a uint8_t
  startDue,        \* kvm_switch.last_device_mounted is not 0
  usbReady,        \* kvm_switch.usb_device_ready
  active,          \* kvm_switch.active_computer_by_device
  saved,           \* the settings each computer_t keeps for each slot
  asked,           \* the settings asked of each interface since its mount
  connected,       \* nodes whose computer_t is not NOT_CONNECTED
  toNode, toCtrl,  \* messages under way, to and from each node
  nodeTable,       \* hid_mgr.hid of each node
  connecting,      \* computers whose USB device side was (re)initialised
  exposed,         \* the interfaces each computer has enumerated
  done             \* how many bounded events happened

hostVars == <<up, callbacks>>
switchVars == <<table, mountedCount, startDue, usbReady, active, saved, asked>>
linkVars == <<connected, toNode, toCtrl>>
computerVars == <<nodeTable, connecting, exposed>>
vars == <<hostVars, actions, switchVars, linkVars, computerVars, done>>

Init ==
  /\ up = {} /\ callbacks = << >> /\ actions = << >>
  /\ table = NoHid
  /\ mountedCount = 0 /\ startDue = FALSE /\ usbReady = FALSE
  /\ active = [d \in Device |-> Local]
  /\ saved = [c \in Computer |-> [s \in Slot |-> Fresh]]
  /\ asked = [h \in Hid |-> Fresh]
  /\ connected = {}
  /\ toNode = [n \in Node |-> << >>]
  /\ toCtrl = [n \in Node |-> <<[op |-> "init"]>>]
  /\ nodeTable = [n \in Node |-> NoHid]
  /\ connecting = {}
  /\ exposed = [c \in Computer |-> NoHid]
  /\ done = [plug |-> 0, unplug |-> 0, report |-> 0, set |-> 0, restart |-> 0]

Once(event, bound) ==
  /\ done[event] < bound
  /\ done' = [done EXCEPT ![event] = @ + 1]

-----------------------------------------------------------------------------
(* Tables and queues.                                                      *)

EnabledSlots(t) == {s \in Slot : t[s] # None}
SlotsOf(t, h) == {s \in Slot : t[s] = h}

AcceptPastEnd(q, a) ==                                             \* mutant
  IF Len(q) <= ActionQueueSize THEN Append(q, a) ELSE q

(* queue_try_add to the action queue, and to a node's message queue *)
Accept(q, a) == IF Len(q) < ActionQueueSize THEN Append(q, a) ELSE q

Enqueue(q, m) == IF Len(q) < MessageQueueSize THEN Append(q, m) ELSE q

(* As many of several elements, added one by one, as a queue has room for. *)
Fitting(q, ms, size) == SubSeq(q \o ms, 1, Min({size, Len(q) + Len(ms)}))
AcceptAll(q, as) == Fitting(q, as, ActionQueueSize)
EnqueueAll(q, ms) == Fitting(q, ms, MessageQueueSize)

MountMsg(s, h) == [op |-> "mount", slot |-> s, hid |-> h]
StartMsg == [op |-> "start"]

Broadcast(m) ==
  toNode' = [n \in Node |-> IF n \in connected
                            THEN Enqueue(toNode[n], m) ELSE toNode[n]]

(* The enabled slots in the order hid_mgr_get_by_kvm_idx is asked for them. *)
SlotSeq(t) ==
  [i \in 1..Cardinality(EnabledSlots(t)) |->
     CHOOSE s \in EnabledSlots(t) : Cardinality({r \in EnabledSlots(t) : r < s}) = i - 1]

-----------------------------------------------------------------------------
(* Core 1: TinyUSB calls tuh_hid_mount_cb for each interface of a new       *)
(* device, then tuh_mount_cb; tuh_umount_cb comes first for a device gone.  *)

HidCallbacks(name, d) ==
  [i \in 1..MaxInterface |-> [op |-> name, hid |-> [dev |-> d, itf |-> i - 1]]]

Plug(d) ==
  /\ Once("plug", MaxPlugs)
  /\ callbacks = << >> /\ d \notin up
  /\ up' = up \cup {d}
  /\ callbacks' = Append(HidCallbacks("hidMount", d), [op |-> "deviceMounted"])
  /\ UNCHANGED <<actions, switchVars, linkVars, computerVars>>

Unplug(d) ==
  /\ Once("unplug", MaxUnplugs)
  /\ callbacks = << >> /\ d \in up
  /\ up' = up \ {d}
  /\ callbacks' = <<[op |-> "deviceUnmounted"]>> \o HidCallbacks("hidUmount", d)
  /\ UNCHANGED <<actions, switchVars, linkVars, computerVars>>

(* A callback queues its action; the result is ignored. *)
HostCallback ==
  /\ callbacks # << >>
  /\ actions' = Accept(actions, Head(callbacks))
  /\ callbacks' = Tail(callbacks)
  /\ UNCHANGED <<up, switchVars, linkVars, computerVars, done>>

(* tuh_hid_report_received_cb; core 1 looks the interface up in the table.  *)
HostReport(h, key) ==
  /\ Once("report", MaxReports)
  /\ callbacks = << >> /\ h.dev \in up
  /\ SlotsOf(table, h) # {}
  /\ actions' = Accept(actions, [op |-> "report", hid |-> h, key |-> key])
  /\ UNCHANGED <<hostVars, switchVars, linkVars, computerVars>>

-----------------------------------------------------------------------------
(* Core 0: kvm_switch_controller_task.  With two devices mounted it starts  *)
(* the USB devices in the call that handled the mount.                      *)

StartNow == startDue /\ mountedCount = 2

Take(op) ==
  /\ ~StartNow
  /\ actions # << >> /\ Head(actions).op = op
  /\ actions' = Tail(actions)

DeviceMountedStartsOnce ==                                         \* mutant
  /\ Take("deviceMounted")
  /\ mountedCount' = (mountedCount + 1) % 256
  /\ startDue' = ~usbReady
  /\ UNCHANGED <<hostVars, table, usbReady, active, saved, asked, linkVars,
                 computerVars, done>>

DeviceMounted ==
  /\ Take("deviceMounted")
  /\ mountedCount' = (mountedCount + 1) % 256
  /\ startDue' = TRUE
  /\ UNCHANGED <<hostVars, table, usbReady, active, saved, asked, linkVars,
                 computerVars, done>>

DeviceUnmountedIgnored ==                                          \* mutant
  /\ Take("deviceUnmounted")
  /\ UNCHANGED <<hostVars, switchVars, linkVars, computerVars, done>>

(* Without assertions the count wraps; that it is not 0 here follows from   *)
(* CountExact, as long as the action queue has room.                        *)
DeviceUnmounted ==
  /\ Take("deviceUnmounted")
  /\ mountedCount' = (mountedCount + 255) % 256
  /\ UNCHANGED <<hostVars, table, startDue, usbReady, active, saved, asked,
                 linkVars, computerVars, done>>

FreeSlots == Slot \ EnabledSlots(table)

(* hid_mgr_register_hid, and the broadcast to the nodes *)
HidMount ==
  /\ Take("hidMount")
  /\ LET h == Head(actions).hid IN
       IF FreeSlots = {}
       THEN UNCHANGED <<table, asked, toNode>>
       ELSE /\ table' = [table EXCEPT ![Min(FreeSlots)] = h]
            /\ asked' = [asked EXCEPT ![h] = Fresh]
            /\ Broadcast(MountMsg(Min(FreeSlots), h))
  /\ UNCHANGED <<hostVars, mountedCount, startDue, usbReady, active, saved,
                 connected, toCtrl, computerVars, done>>

UnregisteredByNumber(h) ==                                         \* mutant
  LET found == {s \in EnabledSlots(table) : table[s].itf = h.itf}
  IN  [table EXCEPT ![Min(found)] = None]
Unregistered(h) == [table EXCEPT ![Min(SlotsOf(table, h))] = None]

(* hid_mgr_unregister_hid; the nodes are not told. *)
HidUmount ==
  /\ Take("hidUmount")
  /\ LET h == Head(actions).hid IN
       table' = IF SlotsOf(table, h) = {} THEN table ELSE Unregistered(h)
  /\ UNCHANGED <<hostVars, mountedCount, startDue, usbReady, active, saved,
                 asked, linkVars, computerVars, done>>

RestoredForgotten(c, ds) == asked                                  \* mutant

(* The requests for usb_host when computer c takes over devices ds: the     *)
(* protocol of every enabled slot, and the reports c has set.               *)
Restored(c, ds) ==
  [h \in Hid |->
     IF h.dev \in ds /\ SlotsOf(table, h) # {}
     THEN LET mine == saved[c][Min(SlotsOf(table, h))]
          IN  [protocol |-> mine.protocol,
               report |-> IF mine.report = None THEN asked[h].report
                                                ELSE mine.report]
     ELSE asked[h]]

SetActive(c, ds) ==
  /\ active' = [d \in Device |-> IF d \in ds THEN c ELSE active[d]]
  /\ asked' = Restored(c, ds)

(* kvm_switch_controller_execute_shortcut: next and previous count from the *)
(* computer of the first device address.                                    *)
ExecuteShortcut(key) ==
  CASE key.action = "next"     -> SetActive((active[1] + 1) % MaxComputer, Device)
    [] key.action = "previous" -> SetActive(IF active[1] = 0 THEN MaxComputer - 1
                                            ELSE active[1] - 1, Device)
    [] key.action = "set"       -> SetActive(key.computer, Device)
    [] key.action = "setDevice" -> SetActive(key.computer, {key.dev})

ReportMsgByNumber(s, h) == [op |-> "report", slot |-> h.itf, hid |-> h]   \* mutant
ReportMsg(s, h) == [op |-> "report", slot |-> s, hid |-> h]

(* A report for the local computer goes straight to its USB device. *)
Forward(s, h) ==
  LET c == active[h.dev]
  IN  toNode' = IF c \in connected
                THEN [toNode EXCEPT ![c] = Enqueue(@, ReportMsg(s, h))]
                ELSE toNode

HidReport ==
  /\ Take("report")
  /\ LET h == Head(actions).hid
         key == Head(actions).key
     IN CASE SlotsOf(table, h) = {} -> UNCHANGED <<active, asked, toNode>>
          [] SlotsOf(table, h) # {} /\ key \in Shortcut ->
               ExecuteShortcut(key) /\ UNCHANGED toNode
          [] OTHER -> Forward(Min(SlotsOf(table, h)), h)
                      /\ UNCHANGED <<active, asked>>
  /\ UNCHANGED <<hostVars, table, mountedCount, startDue, usbReady, saved,
                 connected, toCtrl, computerVars, done>>

AnnouncementNoMounts ==                                            \* mutant
  IF usbReady THEN <<StartMsg>> ELSE << >>

Announcement ==
  [i \in DOMAIN SlotSeq(table) |->
     MountMsg(SlotSeq(table)[i], table[SlotSeq(table)[i]])]
    \o (IF usbReady THEN <<StartMsg>> ELSE << >>)

(* The node gets the interfaces it does not know, and starts its USB device *)
(* when the others already did.                                             *)
ComputerReady ==
  /\ Take("computerReady")
  /\ LET n == Head(actions).computer IN
       toNode' = [toNode EXCEPT ![n] = EnqueueAll(@, Announcement)]
  /\ UNCHANGED <<hostVars, switchVars, connected, toCtrl, computerVars, done>>

ForwardsSetting(c, h) == active[h.dev] = c

(* KSC_OP_COMPUTER_SET_HID_PROTOCOL and KSC_OP_COMPUTER_SET_REPORT *)
ComputerSetting ==
  /\ Take("set")
  /\ LET a == Head(actions)
         h == table[a.slot]
     IN /\ saved' = [saved EXCEPT ![a.computer][a.slot][a.kind] = a.value]
        /\ asked' = IF h # None /\ ForwardsSetting(a.computer, h)
                    THEN [asked EXCEPT ![h][a.kind] = a.value] ELSE asked
  /\ UNCHANGED <<hostVars, table, mountedCount, startDue, usbReady, active,
                 linkVars, computerVars, done>>

InitComputer(c) == saved' = [saved EXCEPT ![c] = [s \in Slot |-> Fresh]]

UsbDeviceMounted ==
  /\ Take("usbMounted")
  /\ InitComputer(Local)
  /\ UNCHANGED <<hostVars, table, mountedCount, startDue, usbReady, active,
                 asked, linkVars, computerVars, done>>

ConnectUsb(c) ==
  /\ connecting' = connecting \cup {c}
  /\ exposed' = [exposed EXCEPT ![c] = NoHid]

StartUsbDevices ==
  /\ startDue                  \* two devices, or a second without a new one
  /\ startDue' = FALSE
  /\ usbReady' = TRUE
  /\ ConnectUsb(Local)
  /\ Broadcast(StartMsg)
  /\ UNCHANGED <<hostVars, actions, table, mountedCount, active, saved, asked,
                 connected, toCtrl, nodeTable, done>>

-----------------------------------------------------------------------------
(* The link and the nodes.                                                 *)

(* node_link_ctrl_process_received_message, core 0 of the controller *)
CtrlHandles(n) ==
  /\ toCtrl[n] # << >>
  /\ toCtrl' = [toCtrl EXCEPT ![n] = Tail(@)]
  /\ LET m == Head(toCtrl[n]) IN
       IF m.op = "init"
       THEN /\ connected' = connected \cup {n}
            /\ InitComputer(n)
            /\ toNode' = [toNode EXCEPT ![n] = Enqueue(@, [op |-> "init"])]
            /\ actions' = Accept(actions, [op |-> "computerReady", computer |-> n])
       ELSE /\ actions' = Accept(actions, m)
            /\ UNCHANGED <<connected, saved, toNode>>
  /\ UNCHANGED <<hostVars, table, mountedCount, startDue, usbReady, active,
                 asked, computerVars, done>>

(* node_link_node_process_received_message, then kvm_switch_node_task *)
NodeHandles(n) ==
  /\ toNode[n] # << >>
  /\ toNode' = [toNode EXCEPT ![n] = Tail(@)]
  /\ LET m == Head(toNode[n]) IN
       CASE m.op = "mount" ->
              /\ nodeTable' = [nodeTable EXCEPT ![n][m.slot] = m.hid]
              /\ UNCHANGED <<connecting, exposed>>
         [] m.op = "start" -> ConnectUsb(n) /\ UNCHANGED nodeTable
         [] OTHER -> UNCHANGED computerVars
  /\ UNCHANGED <<hostVars, actions, switchVars, connected, toCtrl, done>>

(* A node that restarts has lost its memory, and announces itself. *)
NodeRestart(n) ==
  /\ Once("restart", MaxRestarts)
  /\ toCtrl' = [toCtrl EXCEPT ![n] = <<[op |-> "init"]>>]
  /\ nodeTable' = [nodeTable EXCEPT ![n] = NoHid]
  /\ connecting' = connecting \ {n}
  /\ exposed' = [exposed EXCEPT ![n] = NoHid]
  /\ UNCHANGED <<hostVars, actions, switchVars, connected, toNode>>

-----------------------------------------------------------------------------
(* The computers, through the USB device of the controller or of a node.    *)

SettingMsg(c, s, k, v) ==
  [op |-> "set", computer |-> c, slot |-> s, kind |-> k, value |-> v]

Tells(c, ms) ==
  IF c = Local
  THEN actions' = AcceptAll(actions, ms) /\ UNCHANGED toCtrl
  ELSE toCtrl' = [toCtrl EXCEPT ![c] = @ \o ms] /\ UNCHANGED actions

(* The computer enumerates the device, and tud_mount_cb reports the         *)
(* protocol of each interface that has one: REPORT, after a reset.          *)
Enumerate(c) ==
  /\ c \in connecting
  /\ LET t == IF c = Local THEN table ELSE nodeTable[c]
         boot == [s \in Slot |-> IF t[s] # None /\ t[s].itf \in BootInterface
                                 THEN t[s] ELSE None]
     IN /\ exposed' = [exposed EXCEPT ![c] = t]
        /\ Tells(c, (IF c = Local THEN <<[op |-> "usbMounted"]>> ELSE << >>) \o
                      [i \in DOMAIN SlotSeq(boot) |->
                         SettingMsg(c, SlotSeq(boot)[i], "protocol", 1)])
  /\ connecting' = connecting \ {c}
  /\ UNCHANGED <<hostVars, switchVars, connected, toNode, nodeTable, done>>

ComputerSets(c, s, k, v) ==
  /\ Once("set", MaxSets)
  /\ exposed[c][s] # None
  /\ k = "protocol" => exposed[c][s].itf \in BootInterface
  /\ Tells(c, <<SettingMsg(c, s, k, v)>>)
  /\ UNCHANGED <<hostVars, switchVars, connected, toNode, computerVars>>

-----------------------------------------------------------------------------
Core1 ==
  \/ \E d \in Device : Plug(d) \/ Unplug(d)
  \/ HostCallback
  \/ \E h \in Hid, key \in Shortcut \cup {PlainKey} : HostReport(h, key)

Task ==
  \/ DeviceMounted \/ DeviceUnmounted \/ HidMount \/ HidUmount \/ HidReport
  \/ ComputerReady \/ ComputerSetting \/ UsbDeviceMounted \/ StartUsbDevices

Next ==
  \/ Core1 \/ Task
  \/ \E n \in Node : CtrlHandles(n) \/ NodeHandles(n) \/ NodeRestart(n)
  \/ \E c \in Computer : Enumerate(c)
  \/ \E c \in Computer, s \in Slot, k \in Kind, v \in Value :
       ComputerSets(c, s, k, v)

Spec == Init /\ [][Next]_vars

-----------------------------------------------------------------------------
(* Properties.                                                             *)

Action ==
  [op : {"deviceMounted", "deviceUnmounted", "usbMounted"}]
    \cup [op : {"hidMount", "hidUmount"}, hid : Hid]
    \cup [op : {"report"}, hid : Hid, key : Shortcut \cup {PlainKey}]
    \cup [op : {"computerReady"}, computer : Node]
    \cup [op : {"set"}, computer : Computer, slot : Slot, kind : Kind,
          value : Value]
ToNodeMsg ==
  [op : {"init", "start"}] \cup [op : {"mount", "report"}, slot : Slot, hid : Hid]
ToCtrlMsg ==
  [op : {"init"}] \cup [op : {"set"}, computer : Node, slot : Slot, kind : Kind,
                        value : Value]
Table == [Slot -> Hid \cup {None}]
Setting == [protocol : Value, report : Value \cup {None}]

(* Types, and the bounds of the two kinds of queues. *)
TypeOK ==
  /\ up \subseteq Device /\ callbacks \in Seq(Action)
  /\ actions \in Seq(Action) /\ Len(actions) <= ActionQueueSize
  /\ table \in Table /\ nodeTable \in [Node -> Table]
  /\ exposed \in [Computer -> Table]
  /\ mountedCount \in 0..255 /\ startDue \in BOOLEAN /\ usbReady \in BOOLEAN
  /\ active \in [Device -> Computer]
  /\ saved \in [Computer -> [Slot -> Setting]] /\ asked \in [Hid -> Setting]
  /\ connected \subseteq Node /\ connecting \subseteq Computer
  /\ toNode \in [Node -> Seq(ToNodeMsg)] /\ toCtrl \in [Node -> Seq(ToCtrlMsg)]
  /\ \A n \in Node : Len(toNode[n]) <= MessageQueueSize

CountOf(q, op) == Cardinality({i \in DOMAIN q : q[i].op = op})
Queued(op) == CountOf(actions, op) + CountOf(callbacks, op)

(* With room in the action queue nothing is miscounted, whatever the two    *)
(* cores do in between: once core 0 has caught up, device_mounted_count,    *)
(* which decides when the USB devices start, is the number of devices.      *)
CountExact ==
  mountedCount + Queued("deviceMounted") = Cardinality(up) + Queued("deviceUnmounted")

(* ... and the table holds each interface of those devices once.            *)
Concerns(a, h) == a.op \in {"hidMount", "hidUmount"} /\ a.hid = h
InTableSoon(h) ==
  LET ops == actions \o callbacks
      events == {i \in DOMAIN ops : Concerns(ops[i], h)}
  IN  IF events = {} THEN SlotsOf(table, h) # {} ELSE ops[Max(events)].op = "hidMount"

TableFollowsHost ==
  \A h \in Hid : /\ InTableSoon(h) <=> h.dev \in up
                 /\ Cardinality(SlotsOf(table, h)) <= 1

(* The LEDs of a keyboard show what the computer it is switched to has set: *)
(* the report last asked of an interface since core 0 registered it, if any *)
(* was, is the one its active computer has saved, if it has saved one.      *)
(* This is of the reports only, not of the protocol an interface is asked   *)
(* for.                                                                     *)
LedsFollowActive ==
  \A s \in EnabledSlots(table) :
    LET h == table[s]
        mine == saved[active[h.dev]][s].report
    IN  mine # None => asked[h].report \in {None, mine}

InitPending(n) ==
  \/ \E i \in DOMAIN toCtrl[n] : toCtrl[n][i].op = "init"
  \/ \E i \in DOMAIN actions :
       actions[i].op = "computerReady" /\ actions[i].computer = n

(* What a node's table holds once it has handled the messages under way.    *)
NodeTableSoon(n) ==
  [s \in Slot |->
     LET mounts == {i \in DOMAIN toNode[n] : toNode[n][i].op = "mount"
                                              /\ toNode[n][i].slot = s}
     IN  IF mounts = {} THEN nodeTable[n][s] ELSE toNode[n][Max(mounts)].hid]

(* A node that is connected knows, or is being told, every interface the    *)
(* controller has, at the same slot; restarts and reuse of slots included.  *)
NodeTableFollows ==
  \A n \in Node : ~InitPending(n) =>
    \A s \in EnabledSlots(table) : NodeTableSoon(n)[s] = table[s]

Settled ==
  /\ callbacks = << >> /\ actions = << >> /\ ~startDue /\ connecting = {}
  /\ \A n \in Node : toNode[n] = << >> /\ toCtrl[n] = << >>

(* "the controller reads the HID report descriptor for every HID interface  *)
(* and then exposes the report descriptors as its own on the computer side" *)
(* (doc/technical.md:48-50): when all is handled every computer has         *)
(* enumerated every interface that is plugged in.                           *)
EveryHidExposed ==
  Settled => \A c \in Computer, h \in Hid :
               h.dev \in up => SlotsOf(exposed[c], h) # {}

(* "Then, when an HID Device is sending a report [...], the report is       *)
(* forwarded as-is to the selected computer" (doc/technical.md:50-51).  A   *)
(* slot is reused at once (hid_manager.c:83), so the local computer may     *)
(* take a report with the descriptor of the slot's previous interface; but  *)
(* only until the restart that the new device has asked for, or will.       *)
MixedOnlyUntilRestart ==
  actions # << >> /\ Head(actions).op = "report" /\ ~StartNow =>
    LET h == Head(actions).hid IN
      active[h.dev] = Local /\ Head(actions).key \notin Shortcut =>
        \A s \in SlotsOf(table, h) :
          \/ exposed[Local][s] \in {None, h}
          \/ startDue \/ Queued("deviceMounted") > 0

(* A node sends a report at once to the endpoint of its slot                *)
(* (kvm_switch_node.c:50-58), and its computer takes it with the descriptor *)
(* it enumerated there.  This may be the slot's previous interface, which   *)
(* the node is never told to forget; but only until the start that the new  *)
(* device asks for: it is still to be sent, or in the queue.                *)
NodeMixedOnlyUntilStart ==
  \A n \in Node :
    toNode[n] # << >> /\ Head(toNode[n]).op = "report" =>
      LET m == Head(toNode[n]) IN
        \/ exposed[n][m.slot] \in {None, m.hid}
        \/ \E i \in DOMAIN toNode[n] : toNode[n][i].op = "start"
        \/ startDue \/ Queued("deviceMounted") > 0
=============================================================================
