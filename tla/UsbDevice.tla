----------------------------- MODULE UsbDevice -----------------------------
(***************************************************************************)
(* shared_usb/usb_device.c: the USB device a computer sees, between the     *)
(* table of hid_manager.c and TinyUSB's device stack.  An interface is the  *)
(* length of its report descriptor, 0 when the slot is free; the ids of the *)
(* device are left out.  Of the stack:                                      *)
(* SET_CONFIGURATION opens the interfaces with the lengths of the           *)
(* configuration descriptor of that moment and calls tud_mount_cb; a reset  *)
(* of the bus calls nothing back; tud_umount_cb comes when the computer     *)
(* takes the configuration away; tud_ready says that the device is          *)
(* configured and not suspended.  What the computer sets on an interface    *)
(* is modelled in KvmController.                                            *)
(*                                                                         *)
(* The actions leave the configuration and its power alone: a module that   *)
(* composes this one with KvmConfig says when they can happen.              *)
(***************************************************************************)
EXTENDS Naturals, FiniteSets, FiniteSetsExt

CONSTANTS
  Slot,                     \* kvm_hid_idx
  DescriptorLength,         \* of the interfaces that are plugged in
  MaxMounts, MaxSuspends    \* bounds

ASSUME UsbDeviceAssumption ==
  /\ Slot \subseteq Nat /\ IsFiniteSet(Slot)
  /\ DescriptorLength \subseteq Nat \ {0}
  /\ MaxMounts \in Nat /\ MaxSuspends \in Nat

VARIABLES
  table,       \* hid_mgr.hid: the descriptor length of each slot
  arriving,    \* KSC_OP_HID_DEVICE_MOUNTED is still queued
  due,         \* kvm_switch.last_device_mounted is not 0
  bus,         \* "off", "attached" or "configured"
  suspended,
  opened,      \* the length each interface was opened with
  connected,   \* usb_device.connected
  asleep,      \* history: a report found the bus suspended since the last mount
  gone,        \* history: slots freed since the bus was last connected
  events       \* how many bounded events happened
deviceVars == <<table, arriving, due, bus, suspended, opened, connected,
                asleep, gone, events>>

Closed == [s \in Slot |-> 0]

DeviceOff ==
  /\ table' = Closed /\ arriving' = FALSE /\ due' = FALSE
  /\ bus' = "off" /\ suspended' = FALSE /\ opened' = Closed
  /\ connected' = FALSE
  /\ asleep' = FALSE /\ gone' = {}

DeviceInit ==
  /\ table = Closed /\ arriving = FALSE /\ due = FALSE
  /\ bus = "off" /\ suspended = FALSE /\ opened = Closed
  /\ connected = FALSE
  /\ asleep = FALSE /\ gone = {}
  /\ events = [mount |-> 0, suspend |-> 0]

Limited(event, bound) ==
  /\ events[event] < bound
  /\ events' = [events EXCEPT ![event] = @ + 1]

-----------------------------------------------------------------------------
(* The table: an interface is registered in the first free slot before the  *)
(* mount of its device is handled.                                          *)

FreeSlot == {s \in Slot : table[s] = 0}

Register(length) ==
  /\ Limited("mount", MaxMounts)
  /\ FreeSlot # {}
  /\ table' = [table EXCEPT ![Min(FreeSlot)] = length]
  /\ arriving' = TRUE
  /\ UNCHANGED <<due, bus, suspended, opened, connected, asleep, gone>>

DeviceMounted ==
  /\ arriving /\ arriving' = FALSE
  /\ due' = TRUE
  /\ UNCHANGED <<table, bus, suspended, opened, connected, asleep, gone, events>>

Unregister(s) ==
  /\ table[s] # 0
  /\ table' = [table EXCEPT ![s] = 0]
  /\ gone' = gone \cup {s}
  /\ UNCHANGED <<arriving, due, bus, suspended, opened, connected, asleep, events>>

(* usb_device_connect_to_computer, when kvm_switch_controller_task finds    *)
(* the wait over.  tud_deinit resets the stack and calls nothing back.      *)
RestartedAsleep ==                                                \* mutant
  bus' = "attached" /\ opened' = Closed /\ UNCHANGED suspended
RestartedOnce ==                                                  \* mutant
  IF bus = "off" THEN bus' = "attached" /\ opened' = Closed /\ suspended' = FALSE
  ELSE UNCHANGED <<bus, opened, suspended>>
Restarted == bus' = "attached" /\ opened' = Closed /\ suspended' = FALSE

Connect ==
  /\ due /\ due' = FALSE
  /\ Restarted
  /\ gone' = {}
  /\ UNCHANGED <<table, arriving, connected, asleep, events>>

-----------------------------------------------------------------------------
(* The computer.                                                           *)

(* tud_descriptor_configuration_cb, then tud_mount_cb *)
SetConfiguration ==
  /\ bus = "attached" /\ ~suspended
  /\ bus' = "configured" /\ opened' = table
  /\ connected' = TRUE
  /\ asleep' = FALSE
  /\ UNCHANGED <<table, arriving, due, suspended, gone, events>>

(* tud_umount_cb *)
Deconfigure ==
  /\ bus = "configured" /\ ~suspended
  /\ bus' = "attached" /\ opened' = Closed
  /\ connected' = FALSE
  /\ UNCHANGED <<table, arriving, due, suspended, asleep, gone, events>>

BusReset ==
  /\ bus = "configured"
  /\ bus' = "attached" /\ opened' = Closed /\ suspended' = FALSE
  /\ UNCHANGED <<table, arriving, due, connected, asleep, gone, events>>

Suspend ==
  /\ Limited("suspend", MaxSuspends)
  /\ bus = "configured" /\ ~suspended /\ suspended' = TRUE
  /\ UNCHANGED <<table, arriving, due, bus, opened, connected, asleep, gone>>

Resume ==
  /\ suspended /\ suspended' = FALSE
  /\ UNCHANGED <<table, arriving, due, bus, opened, connected, asleep, gone, events>>

-----------------------------------------------------------------------------
ReadyInterface ==                                                 \* mutant
  bus = "configured" /\ ~suspended /\ \A s \in Slot : opened[s] # 0
Ready == bus = "configured" /\ ~suspended   \* tud_ready

(* usb_device_send_report for a device that looks connected and is not      *)
(* ready.  Otherwise a report changes nothing here: it is dropped, given    *)
(* to the endpoint, or skipped when the endpoint is busy.                   *)
SendReport ==
  /\ connected /\ ~Ready
  /\ connected' = FALSE
  /\ asleep' = (asleep \/ suspended)
  /\ UNCHANGED <<table, arriving, due, bus, suspended, opened, gone, events>>

-----------------------------------------------------------------------------
(* A suspended bus is one that was configured; an interface is open only    *)
(* then, and a device looks connected only after a first connection.        *)
DeviceTypeOK ==
  /\ table \in [Slot -> DescriptorLength \cup {0}]
  /\ opened \in [Slot -> DescriptorLength \cup {0}]
  /\ bus \in {"off", "attached", "configured"}
  /\ suspended => bus = "configured"
  /\ opened # Closed => bus = "configured"
  /\ connected => bus # "off"

(* usb_device.c:74: a computer that has configured the device is not taken  *)
(* for an unplugged one, whose reports are all dropped, unless one of them  *)
(* met the device suspended.  Reports skipped on a busy endpoint (:85) are  *)
(* not the matter.                                                         *)
KeptConnected == bus = "configured" /\ ~connected => asleep

(* hid_manager.c and kvm_switch_controller.c:324: once no restart is due or *)
(* on its way, the computer has opened every interface with the length of   *)
(* its own report descriptor; only a slot freed since then can differ.      *)
OpenedAsRegistered ==
  bus = "configured" /\ ~due /\ ~arriving =>
    \A s \in Slot \ gone : opened[s] = table[s]
=============================================================================
