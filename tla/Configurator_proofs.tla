------------------------- MODULE Configurator_proofs -------------------------
(***************************************************************************)
(* Proofs about Configurator, for every number of shortcuts and of keys,    *)
(* every packet, every number of slots and any number of power losses.     *)
(***************************************************************************)
EXTENDS Configurator, FiniteSetTheorems, WellFoundedInduction, TLAPS

(* What KvmConfig leaves of a configuration: a value in every cell.         *)
Cells(config) == config = [c \in Cell |-> config[c]]

(* A configuration that kvm_config_init takes as it is.                     *)
Valid(config) ==
  /\ Cells(config)
  /\ config[<<"magic", 0>>] = Magic /\ config[<<"version", 0>>] = Version

(* A transfer that waits for its data has nothing in the buffer, and it     *)
(* stays while the flash is written.                                       *)
ControlInv ==
  /\ control = None \/ control \in [op : {"general", "shortcut", "unknown", "get"},
                                    stage : {"data", "ack"}]
  /\ control # None /\ control.op = "get" => control.stage = "ack"
  /\ saving \in {"no", "erase", "first", "second"}
  /\ saving # "no" => powered /\ control # None
  /\ saving = "no" /\ control # None /\ control.stage = "data" => buffer = Zeros
  /\ OwnData

(* What the flash holds at each step of write_data_to_flash, and after it.  *)
FlashInv ==
  /\ powered \in BOOLEAN /\ saving \in {"no", "erase", "first", "second"}
  /\ saving # "no" => powered
  /\ Cells(flash)
  /\ powered => Valid(ram)
  /\ saving = "first" => flash = Erased
  /\ saving = "second" =>
       flash = [c \in Cell |-> IF Page(c) = "first" THEN ram[c] ELSE Erased[c]]
  /\ last # None /\ ~lost => /\ Valid(last)
                             /\ saving \in {"no", "erase"} => flash = last
                             /\ powered /\ saving = "no" => ram = last

(* NeverMixed of any configuration, and of the one a restart would read.    *)
Unmixed(config) ==
  \/ config = Default \/ config \in saves
  \/ /\ cut /\ Half(config, "second") = Half(Erased, "second")
     /\ \E c \in saves : Half(config, "first") = Half(c, "first")

MixInv ==
  /\ FlashInv
  /\ powered => Unmixed(ram)
  /\ saving # "no" => ram \in saves
  /\ saving \in {"no", "erase"} => Unmixed(Booted(flash))

-----------------------------------------------------------------------------
(* The configurations the code makes.                                       *)

LEMMA SetShortcutCells ==
  ASSUME NEW config, Cells(config), NEW id, NEW enabled, NEW count, NEW keys,
         NEW length
  PROVE  /\ Cells(SetShortcut(config, id, enabled, count, keys, length))
         /\ \A n \in {"magic", "version", "ids"} :
              SetShortcut(config, id, enabled, count, keys, length)[<<n, 0>>] = config[<<n, 0>>]
<1> DEFINE new == SetShortcut(config, id, enabled, count, keys, length)
           head == [enabled |-> enabled, count |-> count]
           copied(old) == [k \in 1..MAX_KEYS_PER_SHORTCUT |->
                             IF k <= count THEN keys[k] ELSE old[k]]
<1>1. CASE id \notin Shortcut \/ count > MAX_KEYS_PER_SHORTCUT \/ length > MAX_DATA_PER_SHORTCUT
  BY <1>1 DEF SetShortcut
<1>2. CASE ~(\/ id \notin Shortcut \/ count > MAX_KEYS_PER_SHORTCUT
             \/ length > MAX_DATA_PER_SHORTCUT)
  <2>1. new = [config EXCEPT ![Head1(id)] = head, ![Keys(id)] = copied(@)]
    BY <1>2 DEF SetShortcut
  <2>2. DOMAIN config = Cell
    BY DEF Cells
  <2>3. \A n \in {"magic", "version", "ids"} :
          <<n, 0>> \in Cell /\ <<n, 0>> # Head1(id) /\ <<n, 0>> # Keys(id)
    BY DEF Cell, Head1, Keys
  <2> HIDE DEF copied, head
  <2>4. \A n \in {"magic", "version", "ids"} : new[<<n, 0>>] = config[<<n, 0>>]
    BY <2>1, <2>2, <2>3
  <2>5. Cells(new)
    BY <2>1, <2>2 DEF Cells
  <2>6. QED
    BY <2>4, <2>5
<1>3. QED
  BY <1>1, <1>2

LEMMA DefaultValid == Valid(Default)
<1> DEFINE one == SetShortcut(Cleared, 0, 1, 2, <<71, 30>>, 1)
<1>1. Valid(Cleared)
  <2>1. \A n \in {"magic", "version"} : <<n, 0>> \in Cell
    BY DEF Cell
  <2>2. QED
    BY <2>1 DEF Valid, Cells, Cleared
<1>2. Valid(one)
  BY <1>1, SetShortcutCells DEF Valid
<1>3. Default = SetShortcut(one, 1, 1, 2, <<71, 31>>, 1)
  BY DEF Default
<1> HIDE DEF one
<1>4. QED
  BY <1>2, <1>3, SetShortcutCells DEF Valid

LEMMA BootedValid ==
  ASSUME NEW stored, Cells(stored)
  PROVE  /\ Valid(Booted(stored))
         /\ Valid(stored) => Booted(stored) = stored
         /\ Booted(stored) = stored \/ Booted(stored) = Default
BY DefaultValid DEF Booted, Valid

LEMMA ErasedNotValid ==
  /\ Cells(Erased) /\ Booted(Erased) = Default
  /\ Cells(OldVersion) /\ Booted(OldVersion) = Default
<1>1. /\ <<"magic", 0>> \in Cell /\ <<"version", 0>> \in Cell
      /\ <<"magic", 0>> # <<"version", 0>>
  BY DEF Cell
<1>2. /\ Cells(Erased)
      /\ Erased[<<"magic", 0>>] = 65535 /\ Erased[<<"version", 0>>] = 255
  BY <1>1 DEF Cells, Erased, ErasedCell
<1>3. Booted(Erased) = Default
  BY <1>2, KvmConfigAssumption DEF Booted
<1>4. Cells(OldVersion) /\ OldVersion[<<"version", 0>>] = Version - 1
  <2>1. DOMAIN Erased = Cell
    BY DEF Erased
  <2>2. PICK old : old = [Erased EXCEPT ![<<"magic", 0>>] = Magic]
    OBVIOUS
  <2>3. OldVersion = [old EXCEPT ![<<"version", 0>>] = Version - 1]
    BY <2>2 DEF OldVersion
  <2>4. DOMAIN old = Cell /\ old = [c \in Cell |-> old[c]]
    BY <2>1, <2>2
  <2>5. QED
    BY <1>1, <2>3, <2>4 DEF Cells
<1>5. Booted(OldVersion) = Default
  BY <1>4, KvmConfigAssumption DEF Booted
<1>6. QED
  BY <1>2, <1>3, <1>4, <1>5

(* Setting anything leaves a valid configuration valid.                     *)
LEMMA AppliedValid ==
  ASSUME NEW op \in {"general", "shortcut"}, NEW config, Valid(config), NEW b
  PROVE  Valid(Applied(op, config, b))
<1>1. CASE op = "general"
  <2>1. Applied(op, config, b) = [config EXCEPT ![<<"ids", 0>>] = b[1]]
    BY <1>1 DEF Applied
  <2>2. /\ DOMAIN config = Cell
        /\ \A n \in {"magic", "version", "ids"} : <<n, 0>> \in Cell
        /\ <<"magic", 0>> # <<"ids", 0>> /\ <<"version", 0>> # <<"ids", 0>>
    BY DEF Valid, Cells, Cell
  <2>3. QED
    BY <2>1, <2>2 DEF Valid, Cells
<1>2. CASE op = "shortcut"
  <2>1. Applied(op, config, b) =
          SetShortcut(config, b[1], b[2], b[3], SubSeq(b, 4, BufferSize - 1), b[BufferSize])
    BY <1>2 DEF Applied
  <2>2. QED
    BY <2>1, SetShortcutCells DEF Valid
<1>3. QED
  BY <1>1, <1>2

-----------------------------------------------------------------------------
(* The USB device.                                                         *)

DeviceInv == DeviceTypeOK /\ KeptConnected /\ OpenedAsRegistered

LEMMA InitDeviceInv == Init => DeviceInv
BY DEF Init, DeviceInit, DeviceInv, DeviceTypeOK, KeptConnected, OpenedAsRegistered, Closed

LEMMA NextDeviceInv == DeviceInv /\ [Next]_vars => DeviceInv'
<1> SUFFICES ASSUME DeviceInv, [Next]_vars PROVE DeviceInv'
  OBVIOUS
<1> USE DEF DeviceInv, DeviceTypeOK, KeptConnected, OpenedAsRegistered
<1>1. CASE UNCHANGED deviceVars
  BY <1>1 DEF deviceVars
<1>2. CASE DeviceOff
  BY <1>2 DEF DeviceOff, Closed
<1>3. ASSUME NEW length \in DescriptorLength, Register(length) PROVE DeviceInv'
  BY <1>3 DEF Register
<1>4. CASE DeviceMounted
  BY <1>4 DEF DeviceMounted
<1>5. ASSUME NEW s \in Slot, Unregister(s) PROVE DeviceInv'
  BY <1>5 DEF Unregister
<1>6. CASE Suspend \/ Resume
  BY <1>6 DEF Suspend, Resume
<1>7. CASE SendReport
  BY <1>7 DEF SendReport, Ready
<1>8. CASE Connect \/ BusReset
  BY <1>8 DEF Connect, BusReset, Restarted, Closed
<1>9. CASE SetConfiguration \/ Deconfigure
  BY <1>9 DEF SetConfiguration, Deconfigure, Closed
<1>10. QED
  BY <1>1, <1>2, <1>3, <1>4, <1>5, <1>6, <1>7, <1>8, <1>9
     DEF Next, Request, Saving, Devices, Cut, Off, On, vars

-----------------------------------------------------------------------------
(* The transfers.                                                          *)

LEMMA InitControlInv == Init => ControlInv
BY DEF Init, ConfigInit, ControlInv, OwnData

LEMMA NextControlInv == ControlInv /\ [Next]_vars => ControlInv'
<1> SUFFICES ASSUME ControlInv, [Next]_vars PROVE ControlInv'
  OBVIOUS
<1> USE DEF ControlInv, OwnData
<1>1. CASE UNCHANGED configVars
  BY <1>1 DEF configVars
<1>2. ASSUME NEW op \in {"general", "shortcut", "unknown"}, NEW length, SetupOut(op, length)
      PROVE  ControlInv'
  <2>1. powered' = powered /\ saving' = "no" /\ sent' = sent
    BY <1>2 DEF SetupOut
  <2>2. CASE length = "long"
    BY <1>2, <2>1, <2>2 DEF SetupOut
  <2>3. CASE length # "long"
    <3>1. PICK stage \in {"data", "ack"} : control' = [op |-> op, stage |-> stage]
      BY <1>2, <2>3 DEF SetupOut
    <3>2. buffer' = Zeros
      BY <1>2, <2>3 DEF SetupOut, Wiped
    <3>3. QED
      BY <2>1, <3>1, <3>2
  <2>4. QED
    BY <2>2, <2>3
<1>3. CASE SetupIn
  BY <1>3 DEF SetupIn
<1>4. ASSUME NEW packet \in Packet, Data(packet) PROVE ControlInv'
  <2>1. saving = "no" /\ buffer = Zeros
    BY <1>4 DEF Data
  <2>2. buffer' = sent'
    BY <1>4, <2>1 DEF Data
  <2>3. CASE packet.op = "unknown"
    BY <1>4, <2>2, <2>3 DEF Data
  <2>4. CASE packet.op # "unknown"
    BY <1>4, <2>2, <2>4 DEF Data
  <2>5. QED
    BY <2>3, <2>4
<1>5. CASE Ack
  BY <1>5 DEF Ack
<1>6. CASE Erase
  BY <1>6 DEF Erase
<1>7. ASSUME NEW page \in {"first", "second"}, Program(page) PROVE ControlInv'
  <2>1. CASE page = "first"
    BY <1>7, <2>1 DEF Program
  <2>2. CASE page = "second"
    <3>1. control' = [control EXCEPT !.stage = "ack"] /\ saving' = "no"
      BY <1>7, <2>2 DEF Program
    <3>2. control \in [op : {"general", "shortcut", "unknown", "get"}, stage : {"data", "ack"}]
      BY <1>7, <2>2 DEF Program
    <3>3. /\ control' \in [op : {"general", "shortcut", "unknown", "get"},
                           stage : {"data", "ack"}]
          /\ control'.stage = "ack"
      BY <3>1, <3>2
    <3>4. QED
      BY <3>1, <3>3
  <2>3. QED
    BY <2>1, <2>2
<1>8. CASE Cut
  BY <1>8 DEF Cut, Aborted, Idle
<1>9. CASE PowerLoss
  BY <1>9 DEF PowerLoss
<1>10. CASE Boot
  BY <1>10 DEF Boot
<1>11. QED
  BY <1>1, <1>2, <1>3, <1>4, <1>5, <1>6, <1>7, <1>8, <1>9, <1>10
     DEF Next, Request, Requests, Saving, Devices, Off, On, vars

-----------------------------------------------------------------------------
(* The flash.  Its invariant needs that of the transfers only to know that  *)
(* a command that is saved is one that Applied knows.                      *)

LEMMA InitFlashInv == Init => FlashInv
<1> SUFFICES ASSUME Init PROVE FlashInv
  OBVIOUS
<1>1. /\ flash \in {Erased, OldVersion} /\ ram = Booted(flash)
      /\ powered = TRUE /\ saving = "no" /\ last = None /\ lost = FALSE
  BY DEF Init, ConfigInit
<1>2. Cells(flash) /\ Valid(ram)
  BY <1>1, ErasedNotValid, DefaultValid
<1>3. QED
  BY <1>1, <1>2 DEF FlashInv

LEMMA PageOfCell == \A c \in Cell : Page(c) \in {"first", "second"}
BY DEF Page

LEMMA NextFlashInv == FlashInv /\ [Next]_vars => FlashInv'
<1> SUFFICES ASSUME FlashInv, [Next]_vars PROVE FlashInv'
  OBVIOUS
<1> USE DEF FlashInv
<1>1. CASE UNCHANGED <<powered, ram, flash, saving, last, lost>>
  BY <1>1
<1>2. ASSUME NEW packet \in Packet, Data(packet) PROVE FlashInv'
  <2>1. UNCHANGED <<powered, flash, last, lost>> /\ powered /\ saving = "no"
    BY <1>2 DEF Data
  <2>2. CASE packet.op = "unknown"
    BY <1>2, <2>2, <2>1 DEF Data
  <2>3. CASE packet.op # "unknown"
    <3>1. packet.op \in {"general", "shortcut"}
      BY <2>3, KvmConfigAssumption
    <3>2. /\ ram' = Applied(packet.op, ram, buffer')
          /\ saving' = "erase"
      BY <1>2, <2>3 DEF Data
    <3>3. Valid(ram')
      BY <2>1, <3>1, <3>2, AppliedValid
    <3>4. QED
      BY <2>1, <3>2, <3>3
  <2>4. QED
    BY <2>2, <2>3
<1>3. CASE Erase
  BY <1>3, ErasedNotValid DEF Erase
<1>4. ASSUME NEW page \in {"first", "second"}, Program(page) PROVE FlashInv'
  <2>1. /\ powered /\ saving = page /\ UNCHANGED <<powered, ram>>
        /\ flash' = [c \in Cell |-> IF Page(c) = page THEN ram[c] ELSE flash[c]]
    BY <1>4 DEF Program, Written
  <2>2. Cells(flash')
    BY <2>1 DEF Cells
  <2>3. CASE page = "first"
    <3>1. saving' = "second" /\ UNCHANGED <<last, lost>>
      BY <1>4, <2>3 DEF Program
    <3>2. flash' = [c \in Cell |-> IF Page(c) = "first" THEN ram'[c] ELSE Erased[c]]
      BY <2>1, <2>3
    <3>3. QED
      BY <2>1, <2>2, <3>1, <3>2
  <2>4. CASE page = "second"
    <3>1. saving' = "no" /\ last' = ram /\ lost' = FALSE
      BY <1>4, <2>4 DEF Program
    <3>2. \A c \in Cell : flash'[c] = ram[c]
      BY <2>1, <2>4, PageOfCell
    <3>3. Cells(ram)
      BY <2>1 DEF Valid
    <3>4. flash' = ram
      BY <2>2, <3>2, <3>3 DEF Cells
    <3>5. QED
      BY <2>1, <2>2, <3>1, <3>4
  <2>5. QED
    BY <2>3, <2>4
<1>5. CASE PowerLoss
  BY <1>5 DEF PowerLoss
<1>6. CASE Boot
  <2>1. /\ ram' = Booted(flash) /\ powered' = TRUE /\ saving = "no"
        /\ UNCHANGED <<flash, saving, last, lost>>
    BY <1>6 DEF Boot
  <2>2. Valid(Booted(flash)) /\ (Valid(flash) => Booted(flash) = flash)
    BY BootedValid
  <2>3. QED
    BY <2>1, <2>2
<1>7. QED
  BY <1>1, <1>2, <1>3, <1>4, <1>5, <1>6
     DEF Next, Request, Requests, SetupOut, SetupIn, Ack, Saving, Devices, Cut,
         Off, On, vars, configVars

LEMMA InitMixInv == Init => MixInv
<1> SUFFICES ASSUME Init PROVE MixInv
  OBVIOUS
<1>1. /\ flash \in {Erased, OldVersion} /\ ram = Booted(flash) /\ saving = "no"
  BY DEF Init, ConfigInit
<1>2. Booted(flash) = Default
  BY <1>1, ErasedNotValid
<1>3. QED
  BY <1>1, <1>2, InitFlashInv DEF MixInv, Unmixed

LEMMA NextMixInv == MixInv /\ [Next]_vars => MixInv'
<1> SUFFICES ASSUME MixInv, [Next]_vars PROVE MixInv'
  OBVIOUS
<1>0. FlashInv /\ FlashInv'
  BY NextFlashInv DEF MixInv
<1>1. CASE UNCHANGED <<powered, ram, flash, saving, saves, cut>>
  BY <1>0, <1>1 DEF MixInv, Unmixed, Booted
<1>2. ASSUME NEW packet \in Packet, Data(packet) PROVE MixInv'
  <2>1. UNCHANGED <<powered, flash, cut>> /\ powered /\ saving = "no"
    BY <1>2 DEF Data
  <2>2. saves \subseteq saves' /\ (\/ UNCHANGED <<ram, saving>>
                                   \/ saving' = "erase" /\ ram' \in saves')
    BY <1>2 DEF Data
  <2>3. Unmixed(ram)' /\ Unmixed(Booted(flash))'
    BY <2>1, <2>2 DEF MixInv, Unmixed, Booted
  <2>4. QED
    BY <1>0, <2>1, <2>2, <2>3 DEF MixInv, Unmixed
<1>3. CASE Erase
  <2>1. /\ saving = "erase" /\ saving' = "first" /\ UNCHANGED <<powered, ram, saves>>
    BY <1>3 DEF Erase
  <2>2. QED
    BY <1>0, <2>1 DEF MixInv, Unmixed
<1>4. ASSUME NEW page \in {"first", "second"}, Program(page) PROVE MixInv'
  <2>1. /\ powered /\ saving = page /\ UNCHANGED <<powered, ram, saves, cut>>
    BY <1>4 DEF Program
  <2>2. ram \in saves /\ Unmixed(ram)'
    BY <2>1 DEF MixInv, Unmixed
  <2>3. CASE page = "first"
    BY <1>0, <1>4, <2>1, <2>2, <2>3 DEF Program, MixInv
  <2>4. CASE page = "second"
    <3>1. saving' = "no"
      BY <1>4, <2>4 DEF Program
    <3>2. flash' = ram
      <4>1. flash' = [c \in Cell |-> IF Page(c) = "second" THEN ram[c] ELSE flash[c]]
        BY <1>4, <2>4 DEF Program, Written
      <4>2. \A c \in Cell : Page(c) # "second" => flash[c] = ram[c]
        BY <1>0, <2>1, <2>4, PageOfCell DEF FlashInv
      <4>3. Cells(ram)
        BY <1>0, <2>1 DEF FlashInv, Valid
      <4>4. flash' = [c \in Cell |-> ram[c]]
        BY <4>1, <4>2
      <4>5. QED
        BY <4>3, <4>4 DEF Cells
    <3>3. Booted(flash)' = ram \/ Booted(flash)' = Default
      BY <3>2 DEF Booted
    <3>4. Unmixed(Booted(flash))'
      BY <2>1, <2>2, <3>3 DEF Unmixed
    <3>5. QED
      BY <1>0, <2>1, <2>2, <3>1, <3>4 DEF MixInv
  <2>5. QED
    BY <2>3, <2>4
<1>5. CASE PowerLoss
  <2>1. /\ powered' = FALSE /\ saving' = "no" /\ UNCHANGED <<ram, flash, saves>>
        /\ cut' = (cut \/ saving = "second")
    BY <1>5 DEF PowerLoss
  <2>2. CASE saving \in {"no", "erase"}
    <3>1. Unmixed(Booted(flash))
      BY <2>2 DEF MixInv
    <3>2. Unmixed(Booted(flash))'
      BY <2>1, <3>1 DEF Unmixed, Booted
    <3>3. QED
      BY <1>0, <2>1, <3>2 DEF MixInv
  <2>3. CASE saving = "first"
    <3>1. Booted(flash) = Default
      BY <1>0, <2>3, ErasedNotValid DEF FlashInv
    <3>2. QED
      BY <1>0, <2>1, <3>1 DEF MixInv, Unmixed, Booted
  <2>4. CASE saving = "second"
    <3>1. /\ cut' /\ ram \in saves'
          /\ flash' = [c \in Cell |-> IF Page(c) = "first" THEN ram[c] ELSE Erased[c]]
      BY <1>0, <2>1, <2>4 DEF MixInv, FlashInv
    <3>2. \A c \in Cell : Page(c) = "second" => flash'[c] = Erased[c]
      BY <3>1
    <3>3. \A c \in Cell : Page(c) = "first" => flash'[c] = ram[c]
      BY <3>1
    <3>4. Half(flash', "second") = Half(Erased, "second")
      BY <3>2 DEF Half
    <3>5. Half(flash', "first") = Half(ram, "first")
      BY <3>3 DEF Half
    <3>6. Unmixed(flash)'
      BY <3>1, <3>4, <3>5 DEF Unmixed
    <3>7. Booted(flash)' = flash' \/ Booted(flash)' = Default
      BY DEF Booted
    <3>8. Unmixed(Booted(flash))'
      BY <3>6, <3>7 DEF Unmixed
    <3>9. QED
      BY <1>0, <2>1, <3>8 DEF MixInv
  <2>5. QED
    BY <1>0, <2>2, <2>3, <2>4 DEF FlashInv
<1>6. CASE Boot
  <2>1. /\ ram' = Booted(flash) /\ powered' = TRUE /\ saving = "no"
        /\ UNCHANGED <<flash, saving, saves, cut>>
    BY <1>0, <1>6 DEF Boot, FlashInv
  <2>2. QED
    BY <1>0, <2>1 DEF MixInv, Unmixed, Booted
<1>7. QED
  BY <1>1, <1>2, <1>3, <1>4, <1>5, <1>6
     DEF Next, Request, Requests, SetupOut, SetupIn, Ack, Saving, Devices, Cut,
         Off, On, vars, configVars

-----------------------------------------------------------------------------
(* Types.                                                                  *)

LEMMA BufferTypes ==
  /\ Zeros \in [1..BufferSize -> Nat]
  /\ \A b \in [1..BufferSize -> Nat], fields \in Seq(Nat) :
       Received(b, fields) \in [1..BufferSize -> Nat]
<1>1. Zeros \in [1..BufferSize -> Nat]
  BY DEF Zeros
<1>2. ASSUME NEW b \in [1..BufferSize -> Nat], NEW fields \in Seq(Nat)
      PROVE  Received(b, fields) \in [1..BufferSize -> Nat]
  <2>1. \A i \in DOMAIN fields : fields[i] \in Nat
    OBVIOUS
  <2>2. \A i \in 1..BufferSize : (IF i \in DOMAIN fields THEN fields[i] ELSE b[i]) \in Nat
    BY <2>1
  <2>3. QED
    BY <2>2 DEF Received
<1>3. QED
  BY <1>1, <1>2

LEMMA InitConfigTypeOK == Init => ConfigTypeOK
<1> SUFFICES ASSUME Init PROVE ConfigTypeOK
  OBVIOUS
<1>1. DOMAIN ram = Cell /\ DOMAIN flash = Cell
  BY InitFlashInv DEF Init, ConfigInit, FlashInv, Valid, Cells
<1>2. QED
  BY <1>1, BufferTypes DEF Init, ConfigInit, ConfigTypeOK

(* What a configuration of ConfigTypeOK needs of the others.                *)
ConfigInv == ControlInv /\ FlashInv /\ ConfigTypeOK

LEMMA NextConfigInv == ConfigInv /\ [Next]_vars => ConfigInv'
<1> SUFFICES ASSUME ConfigInv, [Next]_vars PROVE ConfigInv'
  OBVIOUS
<1>1. ControlInv' /\ FlashInv'
  BY NextControlInv, NextFlashInv DEF ConfigInv
<1>2. buffer' \in [1..BufferSize -> Nat]
  <2>1. ASSUME NEW packet \in Packet, Data(packet)
        PROVE  buffer' \in [1..BufferSize -> Nat]
    BY <2>1, BufferTypes, KvmConfigAssumption DEF Data, ConfigInv, ConfigTypeOK
  <2>2. CASE buffer' = buffer \/ buffer' = Zeros
    BY <2>2, BufferTypes DEF ConfigInv, ConfigTypeOK
  <2>3. QED
    BY <2>1, <2>2
       DEF Next, Request, Requests, SetupOut, Wiped, SetupIn, Ack, Saving, Erase, Program,
           Devices, Cut, Off, PowerLoss, On, Boot, vars, configVars
<1>3. cut' \in BOOLEAN /\ lost' \in BOOLEAN
  <2>1. /\ cut' = cut \/ cut' = FALSE \/ cut' = (cut \/ saving = "second")
        /\ \/ lost' = lost \/ lost' = FALSE
           \/ lost' = (lost \/ saving \in {"first", "second"})
    BY DEF Next, Request, Requests, SetupOut, SetupIn, Data, Ack, Saving, Erase, Program,
           Devices, Cut, Off, PowerLoss, On, Boot, vars, configVars
  <2>2. QED
    BY <2>1 DEF ConfigInv, ConfigTypeOK
<1>4. DOMAIN ram' = Cell
  <2>1. CASE powered'
    BY <1>1, <2>1 DEF FlashInv, Valid, Cells
  <2>2. CASE ~powered'
    <3>1. ram' = ram
      BY <2>2 DEF Next, Request, Requests, SetupOut, SetupIn, Data, Ack, Saving, Erase,
           Program, Devices, Cut, Off, PowerLoss, On, Boot, vars, configVars
    <3>2. QED
      BY <3>1 DEF ConfigInv, ConfigTypeOK
  <2>3. QED
    BY <2>1, <2>2
<1>5. DOMAIN flash' = Cell
  BY <1>1 DEF FlashInv, Cells
<1>6. control' = None \/ control'.stage \in {"data", "ack"}
  BY <1>1 DEF ControlInv
<1>7. QED
  BY <1>1, <1>2, <1>3, <1>4, <1>5, <1>6 DEF ConfigInv, ConfigTypeOK, FlashInv

-----------------------------------------------------------------------------
(* The keys of shortcuts.                                                  *)

(* No shortcut claims more keys than it has room for, whether it is asked   *)
(* for by the configurator or read back from the flash.                    *)
CountsFit(config) ==
  \A i \in Shortcut : config[Head1(i)].count \in 0..MAX_KEYS_PER_SHORTCUT

(* Nor does the configuration a restart would read.                         *)
CountsInv ==
  /\ powered => CountsFit(ram)
  /\ CountsFit(Booted(flash))

LEMMA HeadCells ==
  ASSUME NEW i \in Shortcut
  PROVE  /\ Head1(i) \in Cell /\ Page(Head1(i)) = "first"
         /\ Head1(i)[1] = "head" /\ Head1(i) # <<"ids", 0>>
         /\ \A j \in Shortcut : Head1(i) # Keys(j) /\ (Head1(i) = Head1(j) => i = j)
<1>1. Head1(i) \in Cell
  BY DEF Cell
<1>2. Head1(i)[1] = "head" /\ Head1(i)[2] = i
  BY DEF Head1
<1>3. \A j : Keys(j)[1] = "keys" /\ Head1(j)[2] = j
  BY DEF Keys, Head1
<1>4. <<"ids", 0>>[1] = "ids" /\ "ids" # "head" /\ "keys" # "head"
  OBVIOUS
<1>5. /\ Head1(i) # <<"ids", 0>>
      /\ \A j : Head1(i) # Keys(j) /\ (Head1(i) = Head1(j) => i = j)
  <2> HIDE DEF Head1, Keys
  <2>1. QED
    BY <1>2, <1>3, <1>4, Zenon
<1>6. Page(Head1(i)) = "first"
  BY <1>5 DEF Page
<1>7. QED
  BY <1>1, <1>2, <1>5, <1>6

LEMMA SetShortcutCounts ==
  ASSUME NEW config, Cells(config), CountsFit(config),
         NEW id, NEW enabled, NEW count \in Nat, NEW keys,
         NEW length
  PROVE  CountsFit(SetShortcut(config, id, enabled, count, keys, length))
<1> DEFINE new == SetShortcut(config, id, enabled, count, keys, length)
           head == [enabled |-> enabled, count |-> count]
           copied(old) == [k \in 1..MAX_KEYS_PER_SHORTCUT |->
                             IF k <= count THEN keys[k] ELSE old[k]]
<1>1. CASE id \notin Shortcut \/ count > MAX_KEYS_PER_SHORTCUT \/ length > MAX_DATA_PER_SHORTCUT
  BY <1>1 DEF SetShortcut
<1>2. CASE ~(\/ id \notin Shortcut \/ count > MAX_KEYS_PER_SHORTCUT
             \/ length > MAX_DATA_PER_SHORTCUT)
  <2>1. new = [config EXCEPT ![Head1(id)] = head, ![Keys(id)] = copied(@)]
    BY <1>2, KvmConfigAssumption DEF SetShortcut
  <2>2. DOMAIN config = Cell
    BY DEF Cells
  <2>3. head.count \in 0..MAX_KEYS_PER_SHORTCUT
    BY <1>2, KvmConfigAssumption
  <2> HIDE DEF copied, head
  <2> SUFFICES ASSUME NEW i \in Shortcut
               PROVE  new[Head1(i)].count \in 0..MAX_KEYS_PER_SHORTCUT
    BY DEF CountsFit
  <2>4. Head1(i) \in Cell /\ Head1(i) # Keys(id)
    BY <1>2, HeadCells
  <2>5. CASE i = id
    BY <2>1, <2>2, <2>3, <2>4, <2>5
  <2>6. CASE i # id
    <3>1. Head1(i) # Head1(id)
      BY <1>2, <2>6, HeadCells
    <3>2. new[Head1(i)] = config[Head1(i)]
      BY <2>1, <2>2, <2>4, <3>1
    <3>3. QED
      BY <3>2 DEF CountsFit
  <2>7. QED
    BY <2>5, <2>6
<1>3. QED
  BY <1>1, <1>2, KvmConfigAssumption

LEMMA DefaultCounts == CountsFit(Default)
<1> DEFINE one == SetShortcut(Cleared, 0, 1, 2, <<71, 30>>, 1)
<1>1. Cells(Cleared)
  BY DEF Cells, Cleared
<1>2. CountsFit(Cleared)
  <2> SUFFICES ASSUME NEW i \in Shortcut
               PROVE  Cleared[Head1(i)].count \in 0..MAX_KEYS_PER_SHORTCUT
    BY DEF CountsFit
  <2>1. Head1(i) \in Cell /\ Head1(i)[1] = "head"
    BY HeadCells
  <2>2. Cleared[Head1(i)] = [enabled |-> 0, count |-> 0]
    BY <2>1 DEF Cleared
  <2>3. QED
    BY <2>2, KvmConfigAssumption
<1>3. Cells(one) /\ CountsFit(one)
  BY <1>1, <1>2, SetShortcutCells, SetShortcutCounts
<1>4. Default = SetShortcut(one, 1, 1, 2, <<71, 31>>, 1)
  BY DEF Default
<1> HIDE DEF one
<1>5. QED
  BY <1>3, <1>4, SetShortcutCounts

LEMMA AppliedCounts ==
  ASSUME NEW op \in {"general", "shortcut"}, NEW config, Cells(config),
         CountsFit(config), NEW b \in [1..BufferSize -> Nat]
  PROVE  CountsFit(Applied(op, config, b))
<1>1. CASE op = "general"
  <2>1. Applied(op, config, b) = [config EXCEPT ![<<"ids", 0>>] = b[1]]
    BY <1>1 DEF Applied
  <2>2. DOMAIN config = Cell
    BY DEF Cells
  <2>3. \A i \in Shortcut : Head1(i) \in Cell /\ Head1(i) # <<"ids", 0>>
    BY HeadCells
  <2>4. \A i \in Shortcut : Applied(op, config, b)[Head1(i)] = config[Head1(i)]
    BY <2>1, <2>2, <2>3
  <2>5. QED
    BY <2>4 DEF CountsFit
<1>2. CASE op = "shortcut"
  <2>1. Applied(op, config, b) =
          SetShortcut(config, b[1], b[2], b[3], SubSeq(b, 4, BufferSize - 1), b[BufferSize])
    BY <1>2 DEF Applied
  <2>2. b[3] \in Nat
    <3>1. 3 \in 1..BufferSize
      BY KvmConfigAssumption DEF BufferSize
    <3>2. QED
      BY <3>1
  <2>3. QED
    BY <2>1, <2>2, SetShortcutCounts
<1>3. QED
  BY <1>1, <1>2

LEMMA BootedCounts ==
  ASSUME NEW stored, CountsFit(stored)
  PROVE  CountsFit(Booted(stored))
BY DefaultCounts DEF Booted

LEMMA InitCountsInv == Init => CountsInv
<1> SUFFICES ASSUME Init PROVE CountsInv
  OBVIOUS
<1>1. flash \in {Erased, OldVersion} /\ ram = Booted(flash)
  BY DEF Init, ConfigInit
<1>2. Booted(flash) = Default
  BY <1>1, ErasedNotValid
<1>3. QED
  BY <1>1, <1>2, DefaultCounts DEF CountsInv

LEMMA NextCountsInv ==
  ASSUME ConfigInv, ConfigInv', CountsInv, [Next]_vars
  PROVE  CountsInv'
<1>1. CASE UNCHANGED <<powered, ram, flash>>
  BY <1>1 DEF CountsInv
<1>2. ASSUME NEW packet \in Packet, Data(packet) PROVE CountsInv'
  <2>1. UNCHANGED <<powered, flash>> /\ powered
    BY <1>2 DEF Data
  <2>2. CASE packet.op = "unknown"
    <3>1. UNCHANGED <<powered, ram, flash>>
      BY <1>2, <2>2 DEF Data
    <3>2. QED
      BY <1>1, <3>1
  <2>3. CASE packet.op # "unknown"
    <3>1. packet.op \in {"general", "shortcut"}
      BY <2>3, KvmConfigAssumption
    <3>2. ram' = Applied(packet.op, ram, buffer')
      BY <1>2, <2>3 DEF Data
    <3>3. buffer' \in [1..BufferSize -> Nat] /\ Cells(ram)
      BY <2>1 DEF ConfigInv, ConfigTypeOK, FlashInv, Valid
    <3>4. CountsFit(ram) /\ CountsFit(Booted(flash))
      BY <2>1 DEF CountsInv
    <3>5. PICK b \in [1..BufferSize -> Nat] : b = buffer'
      BY <3>3
    <3>6. CountsFit(Applied(packet.op, ram, b))
      BY <3>1, <3>3, <3>4, AppliedCounts
    <3>7. PICK new : new = Applied(packet.op, ram, b)
      OBVIOUS
    <3>8. ram' = new /\ CountsFit(new) /\ flash' = flash
      BY <2>1, <3>2, <3>5, <3>6, <3>7
    <3>9. QED
      BY <3>4, <3>8 DEF CountsInv
  <2>4. QED
    BY <2>2, <2>3
<1>3. CASE Erase
  <2>1. UNCHANGED <<powered, ram>> /\ flash' = Erased
    BY <1>3 DEF Erase
  <2>2. CountsFit(Booted(Erased))
    BY ErasedNotValid, DefaultCounts
  <2>3. QED
    BY <2>1, <2>2 DEF CountsInv
<1>4. ASSUME NEW page \in {"first", "second"}, Program(page) PROVE CountsInv'
  <2>1. /\ powered /\ saving = page /\ UNCHANGED <<powered, ram>>
        /\ flash' = [c \in Cell |-> IF Page(c) = page THEN ram[c] ELSE flash[c]]
    BY <1>4 DEF Program, Written
  <2>2. \A c \in Cell : page = "second" /\ Page(c) = "first" => flash[c] = ram[c]
    BY <2>1 DEF ConfigInv, FlashInv
  <2>3. \A i \in Shortcut : flash'[Head1(i)] = ram[Head1(i)]
    <3> SUFFICES ASSUME NEW i \in Shortcut PROVE flash'[Head1(i)] = ram[Head1(i)]
      OBVIOUS
    <3>1. Head1(i) \in Cell /\ Page(Head1(i)) = "first"
      BY HeadCells
    <3>2. QED
      BY <2>1, <2>2, <3>1
  <2>4. CountsFit(ram)
    BY <2>1 DEF CountsInv
  <2>5. PICK new : new = flash'
    OBVIOUS
  <2>6. CountsFit(new)
    BY <2>3, <2>4, <2>5 DEF CountsFit
  <2>7. CountsFit(Booted(new))
    BY <2>6, BootedCounts
  <2>8. QED
    BY <2>1, <2>4, <2>5, <2>7 DEF CountsInv
<1>5. CASE PowerLoss
  BY <1>5 DEF PowerLoss, CountsInv
<1>6. CASE Boot
  BY <1>6 DEF Boot, CountsInv
<1>7. QED
  BY <1>1, <1>2, <1>3, <1>4, <1>5, <1>6
     DEF Next, Request, Requests, SetupOut, SetupIn, Ack, Saving, Devices, Cut,
         Off, On, vars, configVars

(* The loops of kvm_config_first_matching_shortcut find every shortcut with *)
(* the keys that are pressed, up to two, and no other that names none of    *)
(* its keys twice.                                                         *)
LEMMA MatchesIsHasKeys ==
  ASSUME NEW config, CountsFit(config), NEW i \in Shortcut,
         NEW a \in Nat, NEW b \in Nat
  PROVE  LET held == IF a = b THEN <<a>> ELSE <<a, b>>
         IN /\ HasKeys(config, i, {a, b}) => Matches(config, i, held)
            /\ ~Twice(config, i) /\ Matches(config, i, held) => HasKeys(config, i, {a, b})
<1> DEFINE n == config[Head1(i)].count
           key(k) == config[Keys(i)][k]
           on == config[Head1(i)].enabled # 0
           held == IF a = b THEN <<a>> ELSE <<a, b>>
<1>1. Matches(config, i, held) <=>
        /\ on /\ n = Len(held)
        /\ \A k \in 1..Len(held) : \E p \in 1..Len(held) : key(k) = held[p]
  BY DEF Matches
<1>2. HasKeys(config, i, {a, b}) <=>
        on /\ n = Cardinality({a, b}) /\ {key(k) : k \in 1..n} = {a, b}
  BY DEF HasKeys
<1>3. Twice(config, i) <=> on /\ \E k, l \in 1..n : k # l /\ key(k) = key(l)
  BY DEF Twice
<1> SUFFICES /\ HasKeys(config, i, {a, b}) => Matches(config, i, held)
             /\ ~Twice(config, i) /\ Matches(config, i, held) => HasKeys(config, i, {a, b})
  OBVIOUS
<1> HIDE DEF n, key, on
<1>5. CASE a = b
  <2>1. Len(held) = 1 /\ held[1] = a /\ 1..1 = {1}
    BY <1>5
  <2>2. Cardinality({a, b}) = 1 /\ {a, b} = {a}
    BY <1>5, FS_Singleton
  <2> HIDE DEF held
  <2>3. Matches(config, i, held) <=> on /\ n = 1 /\ key(1) = a
    BY <1>1, <2>1
  <2>4. HasKeys(config, i, {a, b}) <=> on /\ n = 1 /\ key(1) = a
    BY <1>2, <2>1, <2>2
  <2>5. QED
    BY <2>3, <2>4
<1>6. CASE a # b
  <2>1. Len(held) = 2 /\ held[1] = a /\ held[2] = b /\ 1..2 = {1, 2}
    BY <1>6
  <2>2. Cardinality({a, b}) = 2
    <3>1. IsFiniteSet({a}) /\ Cardinality({a}) = 1
      BY FS_Singleton
    <3>2. {a, b} = {a} \cup {b} /\ b \notin {a}
      BY <1>6
    <3>3. Cardinality({a} \cup {b}) = Cardinality({a}) + 1
      BY <3>1, <3>2, FS_AddElement
    <3>4. QED
      BY <3>1, <3>2, <3>3
  <2> HIDE DEF held
  <2>3. Matches(config, i, held) <=>
          on /\ n = 2 /\ key(1) \in {a, b} /\ key(2) \in {a, b}
    BY <1>1, <2>1
  <2>4. n = 2 => (Twice(config, i) <=> on /\ key(1) = key(2))
    BY <1>3, <2>1
  <2>5. n = 2 => {key(k) : k \in 1..n} = {key(1), key(2)}
    BY <2>1
  <2>6. HasKeys(config, i, {a, b}) <=> on /\ n = 2 /\ {key(1), key(2)} = {a, b}
    BY <1>2, <2>2, <2>5
  <2>7. /\ {key(1), key(2)} = {a, b} => key(1) \in {a, b} /\ key(2) \in {a, b}
        /\ key(1) \in {a, b} /\ key(2) \in {a, b} /\ key(1) # key(2)
             => {key(1), key(2)} = {a, b}
    OBVIOUS
  <2>8. QED
    BY <2>3, <2>4, <2>6, <2>7
<1>7. QED
  BY <1>5, <1>6

LEMMA LeastOne ==
  ASSUME NEW S \in SUBSET Nat, S # {}
  PROVE  \E i \in S : \A j \in S : i <= j
<1> DEFINE R == OpToRel(<, Nat)
<1>1. IsWellFoundedOn(R, Nat)
  BY NatLessThanWellFounded, Zenon
<1>2. \A i, j \in Nat : i < j => <<i, j>> \in R
  BY DEF OpToRel
<1> HIDE DEF R
<1>3. PICK i \in S : \A j \in S : ~(<<j, i>> \in R)
  BY <1>1, WFMin
<1>4. \A j \in S : ~(j < i)
  BY <1>2, <1>3
<1>5. \A j \in S : i <= j
  BY <1>4
<1>6. QED
  BY <1>5

LEMMA CountsMatch == CountsInv => MatchBySet
<1> SUFFICES ASSUME CountsInv, powered, NEW a \in {30, 31, 71}, NEW b \in {30, 31, 71}
             PROVE  LET found == FirstMatching(ram, IF a = b THEN <<a>> ELSE <<a, b>>)
                        same == {i \in Shortcut : HasKeys(ram, i, {a, b})}
                    IN /\ found = None \/ found \in same \/ Twice(ram, found)
                       /\ \A i \in same : found # None /\ found <= i
  BY DEF MatchBySet
<1> DEFINE held == IF a = b THEN <<a>> ELSE <<a, b>>
           matching == {i \in Shortcut : Matches(ram, i, held)}
           first == CHOOSE i \in matching : \A j \in matching : i <= j
<1>1. CountsFit(ram) /\ a \in Nat /\ b \in Nat
  BY DEF CountsInv
<1>2. \A i \in Shortcut :
        /\ HasKeys(ram, i, {a, b}) => Matches(ram, i, held)
        /\ ~Twice(ram, i) /\ Matches(ram, i, held) => HasKeys(ram, i, {a, b})
  BY <1>1, MatchesIsHasKeys
<1>3. FirstMatching(ram, held) = IF matching = {} THEN None ELSE first
  BY DEF FirstMatching
<1>4. matching # {} => first \in matching /\ \A j \in matching : first <= j
  <2>1. matching \subseteq Nat
    BY DEF Shortcut
  <2> HIDE DEF matching
  <2>2. matching # {} => \E i \in matching : \A j \in matching : i <= j
    BY <2>1, LeastOne
  <2>3. QED
    BY <2>2
<1>5. \A i \in Shortcut : i # None
  BY KvmConfigAssumption DEF Shortcut
<1> DEFINE found == FirstMatching(ram, held)
           same == {i \in Shortcut : HasKeys(ram, i, {a, b})}
<1>6. same \subseteq matching
  BY <1>2
<1>7. \A i \in matching : i \in same \/ Twice(ram, i)
  BY <1>2
<1>8. matching \subseteq Shortcut
  OBVIOUS
<1> HIDE DEF first, matching
<1>9. CASE matching = {}
  BY <1>3, <1>6, <1>9
<1>10. CASE matching # {}
  <2>1. found = first /\ first # None
    BY <1>3, <1>4, <1>5, <1>8, <1>10
  <2>2. QED
    BY <1>4, <1>6, <1>7, <1>10, <2>1
<1>11. QED
  BY <1>9, <1>10

-----------------------------------------------------------------------------

(* Types: a suspended bus is a configured one, and every configuration in   *)
(* RAM or in flash is whole.                                               *)
THEOREM TypeCorrect == Spec => []TypeOK
<1>1. Init => ConfigInv /\ DeviceInv
  BY InitControlInv, InitFlashInv, InitConfigTypeOK, InitDeviceInv DEF ConfigInv
<1>2. (ConfigInv /\ DeviceInv) /\ [Next]_vars => (ConfigInv /\ DeviceInv)'
  BY NextConfigInv, NextDeviceInv
<1>3. ConfigInv /\ DeviceInv => TypeOK
  BY DEF ConfigInv, DeviceInv, TypeOK
<1>4. QED
  BY <1>1, <1>2, <1>3, PTL DEF Spec

(* usb_device.c: a computer that configured the device looks unplugged only *)
(* after a report met the device suspended.                                *)
THEOREM ReportsKept == Spec => []KeptConnected
<1>1. DeviceInv => KeptConnected
  BY DEF DeviceInv
<1>2. QED
  BY <1>1, InitDeviceInv, NextDeviceInv, PTL DEF Spec

(* hid_manager.c and kvm_switch_controller.c: with no restart of the bus    *)
(* due, each interface is open with the length of its own descriptor.      *)
THEOREM OpenedCorrect == Spec => []OpenedAsRegistered
<1>1. DeviceInv => OpenedAsRegistered
  BY DEF DeviceInv
<1>2. QED
  BY <1>1, InitDeviceInv, NextDeviceInv, PTL DEF Spec

(* web_usb_handler.c: a command is applied with the data of its own         *)
(* transfer, whatever transfers were cut before it.                        *)
THEOREM DataIsOwn == Spec => []OwnData
<1>1. ControlInv => OwnData
  BY DEF ControlInv
<1>2. QED
  BY <1>1, InitControlInv, NextControlInv, PTL DEF Spec

(* config_persistence.c: the last configuration written to its end is the   *)
(* one in flash and the one that runs, after any number of power losses,    *)
(* until a later save is cut once it has erased the sector.                *)
THEOREM ConfigPersists == Spec => []FlashHoldsConfig
<1>1. FlashInv => FlashHoldsConfig
  BY DEF FlashInv, FlashHoldsConfig
<1>2. QED
  BY <1>1, InitFlashInv, NextFlashInv, PTL DEF Spec

(* config_persistence.c and kvm_config_init: what runs is never made of two *)
(* configurations, whenever the power was lost: it is one that was saved,   *)
(* the default one, or the first page of one that was being saved.         *)
THEOREM ConfigNeverMixed == Spec => []NeverMixed
<1>1. MixInv => NeverMixed
  BY DEF MixInv, Unmixed, NeverMixed
<1>2. QED
  BY <1>1, InitMixInv, NextMixInv, PTL DEF Spec

(* kvm_switch_config.c: the shortcut found is the first whose keys are the  *)
(* ones held, in any order, however the configuration that runs came about; *)
(* only one that names a key twice among its keys can be found for others.  *)
THEOREM MatchesBySet == Spec => []MatchBySet
<1>1. Init => ConfigInv /\ CountsInv
  BY InitControlInv, InitFlashInv, InitConfigTypeOK, InitCountsInv DEF ConfigInv
<1>2. (ConfigInv /\ CountsInv) /\ [Next]_vars => (ConfigInv /\ CountsInv)'
  BY NextConfigInv, NextCountsInv
<1>3. ConfigInv /\ CountsInv => MatchBySet
  BY CountsMatch
<1>4. QED
  BY <1>1, <1>2, <1>3, PTL DEF Spec
=============================================================================
