------------------------------- MODULE UsbHost -------------------------------
(***************************************************************************)
(* controller/usb_host.c: core 1 of the controller runs the TinyUSB host    *)
(* stack and the queue of actions for the HID devices.  Core 0 queues       *)
(* SET_REPORT and SET_PROTOCOL actions; a device that is mounted queues two *)
(* requests for its strings.  A SET action starts a control transfer whose  *)
(* completion is a callback; should_process_actions is FALSE meanwhile.     *)
(* A string request blocks until it is answered, while TinyUSB goes on      *)
(* calling back.  What core 0 hears of the devices goes through its action  *)
(* queue to the HID table and to controller/hid_device_manager.c.  The      *)
(* reports and what computers ask for go through it too (KvmController), so *)
(* it may be full for any of them.                                         *)
(*                                                                         *)
(* A device has one interface, which sends a report each time it is asked   *)
(* for one.  The name of a device is its number in the order of plugging.   *)
(*                                                                         *)
(* TinyUSB is external.  It has one control pipe: a transfer is refused     *)
(* while another is under way, or while a device is being enumerated; no    *)
(* enumeration starts while the pipe is in use; the completion callback of  *)
(* a transfer never comes once the device is gone, and a string request     *)
(* then fails.  SET_PROTOCOL is refused for an interface without a boot     *)
(* protocol.  A SET that the device itself rejects is left out.            *)
(***************************************************************************)
EXTENDS Naturals, Sequences, SequencesExt

CONSTANTS
  Device,          \* USB addresses
  None,            \* no device, no transfer
  QueueSize,       \* elements of usb_host.action_queue (32 in the code)
  Core0Size,       \* elements of kvm_switch.action_queue (32 in the code)
  EmptyLimit,      \* empty reports in a row that are ignored (3 in the code)
  MaxRequests,     \* bound: actions core 0 queues
  MaxPlugs,        \* bound: devices plugged in
  MaxUnplugs,      \* bound: devices unplugged
  MaxReports       \* bound: reports received

ASSUME UsbHostAssumption ==
  /\ None \notin Device
  /\ QueueSize \in Nat \ {0} /\ Core0Size \in Nat /\ EmptyLimit \in Nat
  /\ MaxRequests \in Nat /\ MaxPlugs \in Nat /\ MaxUnplugs \in Nat /\ MaxReports \in Nat

Setting == {"report", "protocol"}
Value == {0, 1}                     \* of protocol: HID_PROTOCOL_BOOT, .._REPORT

SetAction(d, k, v) == [op |-> k, dev |-> d, value |-> v]
Name == {"manufacturer", "product"}
StringRequest(d, n) == [op |-> n, dev |-> d, value |-> 0]
Action == {SetAction(d, k, v) : d \in Device, k \in Setting, v \in Value}
            \cup {StringRequest(d, n) : d \in Device, n \in Name}
Nameless == [n \in Name |-> 0]

ASSUME NoneIsNoAction == None \notin Action

VARIABLES
  queue,           \* usb_host.action_queue
  shouldProcess,   \* usb_host.should_process_actions
  transfer,        \* the SET action whose control transfer is under way, or None
  asking,          \* the string request at the head: "no", "waiting" for the
                   \* device or "done", with its result in answer
  answer,          \* the name that was answered, 0 when it failed
  enumerating,     \* the device TinyUSB is enumerating, or None
  mounted,         \* devices TinyUSB has mounted
  plugged,         \* the number of the device at each address
  answers,         \* the devices that answer the string requests
  takes,           \* the devices whose interface has a boot protocol
  toCore0,         \* what kvm_switch.action_queue holds of the devices
  known,           \* is_mounted: devices core 0 has in its tables
  names,           \* hid_device_manager.devices: their names, 0 when there is none
  listening,       \* the devices that were asked for their next report
  emptyCount,      \* usb_host.empty_report_received_count, a uint8_t
  empties,         \* history: empty reports in a row of each device
  setting,         \* what each device was set to
  wanted,          \* the last accepted request for each device and setting
  stale,           \* history: addresses whose last unmount core 0 never heard
                   \* of, or heard of before a name of the device that left
  requests, plugs, unplugs, reports

countVars == <<requests, plugs, unplugs, reports>>
core0Vars == <<toCore0, known, names>>
reportVars == <<listening, emptyCount, empties>>
deviceVars == <<mounted, plugged, answers, takes, setting>>
actionVars == <<queue, shouldProcess, transfer>>
stringVars == <<asking, answer>>
vars == <<actionVars, stringVars, deviceVars, enumerating, core0Vars, reportVars, wanted,
          stale, countVars>>

(* A keyboard or mouse starts with its boot protocol, any other with the    *)
(* report protocol.                                                        *)
Fresh(d) == [k \in Setting |-> IF k = "protocol" /\ d \notin takes THEN 1 ELSE 0]

Init ==
  /\ queue = << >> /\ shouldProcess = TRUE /\ transfer = None
  /\ mounted = {} /\ plugged = [d \in Device |-> 0] /\ enumerating = None
  /\ asking = "no" /\ answer = 0
  /\ answers \in SUBSET Device /\ takes \in SUBSET Device
  /\ setting = [d \in Device |-> Fresh(d)]
  /\ toCore0 = << >> /\ known = {} /\ names = [d \in Device |-> Nameless]
  /\ listening = {} /\ emptyCount = 0 /\ empties = [d \in Device |-> 0]
  /\ wanted = [d \in Device |-> Fresh(d)] /\ stale = {}
  /\ requests = 0 /\ plugs = 0 /\ unplugs = 0 /\ reports = 0

-----------------------------------------------------------------------------
AcceptPastEnd(q, a) ==                                             \* mutant
  IF Len(q) <= QueueSize THEN Append(q, a) ELSE q

(* queue_try_add: an action for a full queue is dropped. *)
Accept(q, a) == IF Len(q) < QueueSize THEN Append(q, a) ELSE q

(* The same for core 0, whose queue others may have filled.                 *)
Offer(m) ==
  \/ Len(toCore0) < Core0Size /\ toCore0' = Append(toCore0, m)
  \/ UNCHANGED toCore0

(* Core 0 (set_active_computer, a set request of a computer). *)
Request(d, k, v) ==
  /\ requests < MaxRequests
  /\ d \in known
  /\ queue' = Accept(queue, SetAction(d, k, v))
  /\ wanted' = IF queue' # queue THEN [wanted EXCEPT ![d][k] = v] ELSE wanted
  /\ requests' = requests + 1
  /\ UNCHANGED <<shouldProcess, transfer, stringVars, deviceVars, enumerating, core0Vars,
                 reportVars, stale, plugs, unplugs, reports>>

AfterUnmountNamed(ns) == [ns EXCEPT !["manufacturer"] = 0]         \* mutant
AfterUnmount(ns) == Nameless

(* Core 0 handles what it was told, later (kvm_switch_process_actions).     *)
Core0 ==
  /\ toCore0 # << >>
  /\ toCore0' = Tail(toCore0)
  /\ LET m == Head(toCore0)
         d == m.dev
     IN CASE m.op = "hidMount" -> known' = known \cup {d} /\ UNCHANGED names
          [] m.op = "hidUnmount" -> /\ known' = known \ {d}
                                    /\ names' = [names EXCEPT ![d] = AfterUnmount(@)]
          [] OTHER -> names' = [names EXCEPT ![d][m.op] = m.name] /\ UNCHANGED known
  /\ UNCHANGED <<actionVars, stringVars, deviceVars, enumerating, reportVars, wanted, stale,
                 countVars>>

-----------------------------------------------------------------------------
(* usb_host_process_action.                                                *)

PipeFree == transfer = None /\ enumerating = None
Startable(a) ==
  a.dev \in mounted /\ PipeFree /\ (a.op = "protocol" => a.dev \in takes)

(* tuh_hid_get_protocol, which answers BOOT for a device that is gone. *)
CurrentProtocol(d) == IF d \in mounted THEN setting[d].protocol ELSE 0

Redundant(a) == a.op = "protocol" /\ CurrentProtocol(a.dev) = a.value

AfterRefusalDropped == Tail(queue)                                 \* mutant
AfterRefusal == queue

Processing == shouldProcess /\ asking = "no" /\ queue # << >>

(* A refused SET action stays at the head and is tried again. *)
ProcessSet ==
  /\ Processing /\ Head(queue).op \in Setting
  /\ LET a == Head(queue) IN
       IF Redundant(a)
       THEN /\ queue' = Tail(queue)
            /\ UNCHANGED <<shouldProcess, transfer>>
       ELSE IF Startable(a)
       THEN /\ queue' = Tail(queue)
            /\ transfer' = a
            /\ shouldProcess' = FALSE
       ELSE /\ queue' = AfterRefusal
            /\ UNCHANGED <<shouldProcess, transfer>>
  /\ UNCHANGED <<stringVars, deviceVars, enumerating, core0Vars, reportVars, wanted, stale,
                 countVars>>

(* tuh_descriptor_get_.._string_sync of the request at the head: it starts, *)
(* TinyUSB has a result, and it returns.  A request that fails stays at the *)
(* head and stops the processing.                                          *)
StartString ==
  /\ Processing /\ Head(queue).op \in Name
  /\ IF Startable(Head(queue))
     THEN asking' = "waiting" /\ UNCHANGED shouldProcess
     ELSE shouldProcess' = FALSE /\ UNCHANGED asking
  /\ UNCHANGED <<queue, transfer, answer, deviceVars, enumerating, core0Vars, reportVars,
                 wanted, stale, countVars>>

AnswerString ==
  /\ asking = "waiting" /\ asking' = "done"
  /\ LET d == Head(queue).dev
     IN  answer' = IF d \in mounted \cap answers THEN plugged[d] ELSE 0
  /\ UNCHANGED <<actionVars, deviceVars, enumerating, core0Vars, reportVars, wanted, stale,
                 countVars>>

ReturnString ==
  /\ asking = "done" /\ asking' = "no" /\ answer' = 0
  /\ LET a == Head(queue) IN
       IF answer # 0
       THEN /\ queue' = Tail(queue)
            /\ Offer([op |-> a.op, dev |-> a.dev, name |-> answer])
            /\ UNCHANGED shouldProcess
       ELSE /\ shouldProcess' = FALSE
            /\ UNCHANGED <<queue, toCore0>>
  /\ UNCHANGED <<transfer, deviceVars, enumerating, known, names, reportVars, wanted, stale,
                 countVars>>

-----------------------------------------------------------------------------
(* TinyUSB and its callbacks.                                              *)

Attach(d) ==
  /\ plugs < MaxPlugs
  /\ d \notin mounted
  /\ PipeFree /\ asking # "waiting"
  /\ enumerating' = d
  /\ plugs' = plugs + 1
  /\ UNCHANGED <<actionVars, stringVars, deviceVars, core0Vars, reportVars, wanted, stale,
                 requests, unplugs, reports>>

AfterMountPaused == shouldProcess                                  \* mutant
AfterMount == TRUE

(* The last value still queued for a setting of d, or its initial value. *)
Leftover(d, k) ==
  LET later == {i \in DOMAIN queue : queue[i].dev = d /\ queue[i].op = k}
  IN  IF later = {} THEN Fresh(d)[k] ELSE queue[Max(later)].value

(* tuh_hid_mount_cb, then tuh_mount_cb *)
Mount ==
  /\ enumerating # None
  /\ LET d == enumerating IN
       /\ mounted' = mounted \cup {d}
       /\ plugged' = [plugged EXCEPT ![d] = plugs]
       /\ queue' = Accept(Accept(queue, StringRequest(d, "manufacturer")),
                          StringRequest(d, "product"))
       /\ Offer([op |-> "hidMount", dev |-> d])
       /\ setting' = [setting EXCEPT ![d] = Fresh(d)]
       /\ wanted' = [wanted EXCEPT ![d] = [k \in Setting |-> Leftover(d, k)]]
       /\ listening' = listening \cup {d}
       /\ empties' = [empties EXCEPT ![d] = 0]
  /\ enumerating' = None
  /\ shouldProcess' = AfterMount
  /\ UNCHANGED <<transfer, stringVars, answers, takes, known, names, emptyCount, stale,
                 countVars>>

(* The answer of d is on its way to core 0 when d is pulled out.            *)
Overtakes(d) == asking = "done" /\ answer # 0 /\ Head(queue).dev = d

(* A device pulled out: no completion for the transfer it was part of. *)
Unplug(d) ==
  /\ unplugs < MaxUnplugs
  /\ \/ /\ d = enumerating /\ enumerating' = None
        /\ UNCHANGED <<mounted, transfer, toCore0, stale>>
     \/ /\ d \in mounted
        /\ mounted' = mounted \ {d}
        /\ transfer' = IF transfer # None /\ transfer.dev = d
                       THEN None ELSE transfer
        /\ Offer([op |-> "hidUnmount", dev |-> d])
        /\ stale' = IF toCore0' = toCore0 \/ Overtakes(d)
                    THEN stale \cup {d} ELSE stale \ {d}
        /\ UNCHANGED enumerating
  /\ listening' = listening \ {d}
  /\ unplugs' = unplugs + 1
  /\ UNCHANGED <<queue, shouldProcess, stringVars, plugged, answers, takes, setting, known,
                 names, emptyCount, empties, wanted, requests, plugs, reports>>

AfterCompletePaused == shouldProcess                               \* mutant
AfterComplete == TRUE

(* tuh_hid_set_report_complete_cb, tuh_hid_set_protocol_complete_cb *)
Complete ==
  /\ transfer # None
  /\ setting' = [setting EXCEPT ![transfer.dev][transfer.op] = transfer.value]
  /\ transfer' = None
  /\ shouldProcess' = AfterComplete
  /\ UNCHANGED <<queue, stringVars, mounted, plugged, answers, takes, enumerating, core0Vars,
                 reportVars, wanted, stale, countVars>>

AsksAgain(count) == count <= EmptyLimit

(* tuh_hid_report_received_cb.  An empty report is counted, for all devices *)
(* together; after EmptyLimit in a row the device that sent it is not asked for  *)
(* another.  Other reports go to core 0 (see KvmController).                *)
ReportReceived(d, empty) ==
  /\ reports < MaxReports /\ reports' = reports + 1
  /\ d \in listening
  /\ emptyCount' = IF empty THEN (emptyCount + 1) % 256 ELSE 0
  /\ empties' = [empties EXCEPT ![d] = IF empty THEN @ + 1 ELSE 0]
  /\ listening' = IF AsksAgain(emptyCount') THEN listening ELSE listening \ {d}
  /\ UNCHANGED <<actionVars, stringVars, deviceVars, enumerating, core0Vars, wanted, stale,
                 requests, plugs, unplugs>>

Next ==
  \/ \E d \in Device, k \in Setting, v \in Value : Request(d, k, v)
  \/ \E d \in Device : Attach(d) \/ Unplug(d)
  \/ \E d \in Device, empty \in BOOLEAN : ReportReceived(d, empty)
  \/ Core0 \/ Mount \/ Complete
  \/ ProcessSet \/ StartString \/ AnswerString \/ ReturnString

Spec == Init /\ [][Next]_vars

(* usb_host_task runs for ever, and TinyUSB finishes what it started. *)
Fairness ==
  /\ WF_vars(ProcessSet)
  /\ WF_vars(StartString) /\ WF_vars(AnswerString) /\ WF_vars(ReturnString)
  /\ WF_vars(Mount) /\ WF_vars(Complete)

FairSpec == Spec /\ Fairness

-----------------------------------------------------------------------------
(* Properties.                                                             *)

TypeOK ==
  /\ queue \in Seq(Action) /\ Len(queue) <= QueueSize
  /\ shouldProcess \in BOOLEAN
  /\ transfer \in Action \cup {None}
  /\ enumerating \in Device \cup {None}
  /\ asking \in {"no", "waiting", "done"} /\ answer \in 0..MaxPlugs
  /\ Len(toCore0) <= Core0Size
  /\ mounted \subseteq Device /\ known \subseteq Device
  /\ takes \subseteq Device /\ stale \subseteq Device
  /\ setting \in [Device -> [Setting -> Value]]
  /\ wanted \in [Device -> [Setting -> Value]]
  /\ names \in [Device -> [Name -> 0..MaxPlugs]]
  /\ listening \subseteq mounted /\ emptyCount \in 0..255

Pending(d, k) ==
  \/ \E i \in DOMAIN queue : queue[i].dev = d /\ queue[i].op = k
  \/ transfer # None /\ transfer.dev = d /\ transfer.op = k

(* A mounted device ends up as the last request that was accepted for it    *)
(* says, however requests, refusals, completions and other devices' coming  *)
(* and going interleave.                                                    *)
LastRequestWins ==
  \A d \in mounted, k \in Setting :
    ~Pending(d, k) => setting[d][k] = wanted[d][k]

(* Once core 0 has heard everything, it has no name for a device that is    *)
(* gone, and none of an earlier device for one that came to its address,    *)
(* though string requests outlive the device they were queued for.  Two     *)
(* things can leave an old name at an address until the next unmount there: *)
(* the unmount was dropped by a full queue (kvm_switch_controller.c:361),   *)
(* or the device left between its answer and the return of the request,     *)
(* which then queues the name behind the unmount.                          *)
NamesFollowDevice ==
  toCore0 = << >> =>
    \A d \in Device \ stale, n \in Name :
      names[d][n] # 0 => d \in mounted /\ names[d][n] = plugged[d]

(* usb_host.c:96: processing stops without a transfer under way only on a    *)
(* string request that was refused, or for a completion that the unplugging *)
(* of its device took away.                                                *)
PausedWithReason ==
  ~shouldProcess /\ transfer = None /\ unplugs = 0 =>
    queue # << >> /\ Head(queue).op \in Name

(* usb_host.c:79: a protocol asked of an interface that takes none, and     *)
(* does not have it, is refused for ever.                                  *)
Stuck ==
  /\ queue # << >> /\ Head(queue).op = "protocol"
  /\ Head(queue).dev \in mounted \ takes /\ ~Redundant(Head(queue))

(* While every device answers and none is pulled out, only a protocol asked *)
(* of an interface that takes none stops the queue for good: a string       *)
(* request refused because another device is being enumerated is resumed by *)
(* the mount of that device.                                               *)
QueueDrains ==
  queue # << >> ~> (queue = << >> \/ Stuck \/ unplugs > 0 \/ answers # Device)

(* usb_host.c:324: "ignore the problem and try again if this is not         *)
(* spamming": a device that sent no more than EmptyLimit empty reports in a *)
(* row is asked for the next one.                                          *)
SilentOnlyWhenSpamming == \A d \in mounted \ listening : empties[d] > EmptyLimit
=============================================================================
