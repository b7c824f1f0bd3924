---------------------------- MODULE Configurator ----------------------------
(***************************************************************************)
(* The configurator's transfers (KvmConfig) go through the USB device        *)
(* (UsbDevice) whose restarts, resets and suspensions cut them.  Both run on *)
(* core 0 of the controller, which does nothing else while it writes the     *)
(* flash; a loss of power clears both but the flash.                         *)
(***************************************************************************)
EXTENDS KvmConfig, UsbDevice

vars == <<configVars, deviceVars>>

Init == ConfigInit /\ DeviceInit

(* The computer's requests get through to a device that is ready.           *)
Requests ==
  \/ \E op \in {"general", "shortcut", "unknown"}, length \in {"none", "some", "long"} :
       SetupOut(op, length)
  \/ SetupIn
  \/ \E packet \in Packet : Data(packet)
  \/ Ack

Request == Ready /\ Requests /\ UNCHANGED deviceVars

Saving ==
  /\ \/ Erase
     \/ \E page \in {"first", "second"} : Program(page)
  /\ UNCHANGED deviceVars

Idle == powered /\ saving = "no"

(* What the device does that leaves a transfer where it is, ...             *)
Devices ==
  /\ Idle
  /\ \/ \E length \in DescriptorLength : Register(length)
     \/ DeviceMounted
     \/ \E s \in Slot : Unregister(s)
     \/ Suspend \/ Resume \/ SendReport
  /\ UNCHANGED configVars

(* ... and what cuts it.                                                    *)
Cut ==
  /\ Idle
  /\ \/ Connect \/ SetConfiguration \/ Deconfigure \/ BusReset
  /\ Aborted
  /\ UNCHANGED <<powered, ram, flash, buffer, saving, sent, saves, last, lost, cut, used>>

Off == PowerLoss /\ DeviceOff /\ UNCHANGED events
On == Boot /\ UNCHANGED deviceVars

Next == Request \/ Saving \/ Devices \/ Cut \/ Off \/ On

Spec == Init /\ [][Next]_vars

-----------------------------------------------------------------------------
TypeOK == ConfigTypeOK /\ DeviceTypeOK
=============================================================================
