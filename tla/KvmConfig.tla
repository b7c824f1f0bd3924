----------------------------- MODULE KvmConfig -----------------------------
(***************************************************************************)
(* controller/kvm_switch_config.c, controller/config_persistence.c and the  *)
(* part of controller/web_usb_handler.c that sets the configuration: a      *)
(* control transfer of the configurator is applied to kvm_config in RAM and *)
(* then the whole of it is written to flash, a page after the other.  Power *)
(* can go at any moment, also between the pages.                           *)
(*                                                                         *)
(* kvm_config is a function of its cells.  It takes two flash pages: the    *)
(* first ends inside the last shortcut, after its enabled flag and its      *)
(* number of keys and before its keys.  The action of a shortcut and its    *)
(* data are copied as its keys are, and are left out, but for the length    *)
(* of the data a packet claims.  A packet is the sequence of its fields;    *)
(* vid and pid are one field, and the data of an action are left out.      *)
(*                                                                         *)
(* The actions say nothing of the USB device the transfers go through: a    *)
(* module that composes this one with it says when they can happen.         *)
(***************************************************************************)
EXTENDS Naturals, Sequences, FiniteSets

CONSTANTS
  MAX_KEYBOARD_SHORTCUT, MAX_KEYS_PER_SHORTCUT, MAX_DATA_PER_SHORTCUT,
  Magic, Version,        \* SAVED_CONFIG_MAGIC, CONFIG_VERSION
  Packet,                \* what the configurator sends: [op, fields]
  None,
  MaxSetups, MaxPowerLosses   \* bounds

(* Flash that was erased is not taken for a configuration.                  *)
ASSUME KvmConfigAssumption ==
  /\ MAX_KEYBOARD_SHORTCUT \in Nat \ {0} /\ MAX_KEYS_PER_SHORTCUT \in Nat
  /\ MAX_DATA_PER_SHORTCUT \in Nat
  /\ Version \in Nat /\ (Magic # 65535 \/ Version # 255)
  /\ Packet \subseteq [op : {"general", "shortcut", "unknown"}, fields : Seq(Nat)]
  /\ None \notin Nat
  /\ MaxSetups \in Nat /\ MaxPowerLosses \in Nat

Shortcut == 0..MAX_KEYBOARD_SHORTCUT - 1
Head1(i) == <<"head", i>>   \* enabled and key_count of shortcut i
Keys(i) == <<"keys", i>>
Cell == {<<"magic", 0>>, <<"version", 0>>, <<"ids", 0>>}
          \cup {Head1(i) : i \in Shortcut} \cup {Keys(i) : i \in Shortcut}
Page(cell) ==
  IF cell \in {<<"ids", 0>>, Keys(MAX_KEYBOARD_SHORTCUT - 1)} THEN "second" ELSE "first"

NoKeys == [k \in 1..MAX_KEYS_PER_SHORTCUT |-> 0]
(* Erased flash reads as ones. *)
ErasedCell(cell) ==
  CASE cell[1] = "head" -> [enabled |-> 255, count |-> 255]
    [] cell[1] = "keys" -> [k \in 1..MAX_KEYS_PER_SHORTCUT |-> 255]
    [] cell[1] = "version" -> 255
    [] OTHER -> 65535
Erased == [cell \in Cell |-> ErasedCell(cell)]
OldVersion == [Erased EXCEPT ![<<"magic", 0>>] = Magic, ![<<"version", 0>>] = Version - 1]

VARIABLES
  powered,
  ram,        \* kvm_config
  flash,      \* the sector at FLASH_TARGET_OFFSET
  buffer,     \* vendor_data_out_buffer
  control,    \* the control transfer: None or [op, stage]
  saving,     \* what write_data_to_flash does next: "no", "erase", "first" or "second"
  sent,       \* history: the last packet received, padded with zeros
  saves,      \* history: the configurations write_data_to_flash was given
  last,       \* history: the last of them that was written to its end
  lost,       \* history: a save after it was cut once it had erased the sector
  cut,        \* history: the flash holds a first page only
  used        \* how many bounded events happened
configVars == <<powered, ram, flash, buffer, control, saving, sent, saves, last, lost, cut, used>>

-----------------------------------------------------------------------------
BufferSize == 4 + MAX_KEYS_PER_SHORTCUT   \* the fields of the longest packet
Zeros == [i \in 1..BufferSize |-> 0]
Received(old, fields) ==
  [i \in 1..BufferSize |-> IF i \in DOMAIN fields THEN fields[i] ELSE old[i]]

(* kvm_config_set_shortcut: the keys past key_count stay what they were.    *)
SetShortcut(config, id, enabled, count, keys, length) ==
  IF id \notin Shortcut \/ count > MAX_KEYS_PER_SHORTCUT \/ length > MAX_DATA_PER_SHORTCUT
  THEN config
  ELSE [config EXCEPT
          ![Head1(id)] = [enabled |-> enabled, count |-> count],
          ![Keys(id)] = [k \in 1..MAX_KEYS_PER_SHORTCUT |->
                           IF k <= count THEN keys[k] ELSE @[k]]]

(* kvm_config_init_from_default: two shortcuts with two keys and the number *)
(* of a computer each.                                                     *)
Cleared ==
  [cell \in Cell |->
     CASE cell[1] = "head" -> [enabled |-> 0, count |-> 0]
       [] cell[1] = "keys" -> NoKeys
       [] cell[1] = "magic" -> Magic
       [] cell[1] = "version" -> Version
       [] OTHER -> 50]
Default == SetShortcut(SetShortcut(Cleared, 0, 1, 2, <<71, 30>>, 1), 1, 1, 2, <<71, 31>>, 1)

BootedAnyVersion(stored) ==                                        \* mutant
  IF stored[<<"magic", 0>>] # Magic THEN Default ELSE stored

(* kvm_config_init *)
Booted(stored) ==
  IF stored[<<"magic", 0>>] # Magic \/ stored[<<"version", 0>>] # Version
  THEN Default ELSE stored

MatchesInOrder(config, i, keys) ==                                 \* mutant
  /\ config[Head1(i)].enabled # 0 /\ config[Head1(i)].count = Len(keys)
  /\ \A k \in 1..Len(keys) : config[Keys(i)][k] = keys[k]

(* kvm_config_first_matching_shortcut: every key of the shortcut is among   *)
(* as many pressed keys.                                                    *)
Matches(config, i, keys) ==
  /\ config[Head1(i)].enabled # 0 /\ config[Head1(i)].count = Len(keys)
  /\ \A k \in 1..Len(keys) : \E p \in 1..Len(keys) : config[Keys(i)][k] = keys[p]
FirstMatching(config, keys) ==
  LET found == {i \in Shortcut : Matches(config, i, keys)}
  IN IF found = {} THEN None ELSE CHOOSE i \in found : \A j \in found : i <= j

(* The shortcut whose keys are these, if one has them all and once each.    *)
HasKeys(config, i, keys) ==
  /\ config[Head1(i)].enabled # 0
  /\ config[Head1(i)].count = Cardinality(keys)
  /\ {config[Keys(i)][k] : k \in 1..config[Head1(i)].count} = keys

-----------------------------------------------------------------------------
ConfigInit ==
  /\ powered = TRUE
  /\ flash \in {Erased, OldVersion}
  /\ ram = Booted(flash)
  /\ buffer = Zeros /\ control = None /\ saving = "no" /\ sent = Zeros
  /\ saves = {} /\ last = None /\ lost = FALSE /\ cut = FALSE
  /\ used = [setup |-> 0, power |-> 0]

KeptBuffer(b) == b                                                 \* mutant
Wiped(b) == Zeros

(* CONTROL_STAGE_SETUP of an OUT command.  One without data goes straight   *)
(* to its status stage; one that is too long is stalled.                   *)
SetupOut(op, length) ==
  /\ powered /\ saving = "no"
  /\ used.setup < MaxSetups /\ used' = [used EXCEPT !.setup = @ + 1]
  /\ IF length = "long"
     THEN control' = None /\ UNCHANGED buffer
     ELSE /\ control' = [op |-> op, stage |-> IF length = "none" THEN "ack" ELSE "data"]
          /\ buffer' = Wiped(buffer)
  /\ UNCHANGED <<powered, ram, flash, saving, sent, saves, last, lost, cut>>

(* CONTROL_STAGE_SETUP of an IN command takes the place of what was there.  *)
SetupIn ==
  /\ powered /\ saving = "no" /\ control # None
  /\ control' = [op |-> "get", stage |-> "ack"]
  /\ UNCHANGED <<powered, ram, flash, buffer, saving, sent, saves, last, lost, cut, used>>

Applied(op, config, b) ==
  CASE op = "general" -> [config EXCEPT ![<<"ids", 0>>] = b[1]]
    [] op = "shortcut" ->
         SetShortcut(config, b[1], b[2], b[3], SubSeq(b, 4, BufferSize - 1), b[BufferSize])

(* CONTROL_STAGE_DATA: the packet is in the buffer.  A command that is not  *)
(* known is stalled; a shortcut that is refused is still saved.            *)
Data(packet) ==
  /\ powered /\ saving = "no"
  /\ control # None /\ control.stage = "data" /\ control.op = packet.op
  /\ buffer' = Received(buffer, packet.fields)
  /\ sent' = Received(Zeros, packet.fields)
  /\ IF packet.op = "unknown"
     THEN control' = None /\ UNCHANGED <<ram, saving, saves>>
     ELSE /\ ram' = Applied(packet.op, ram, buffer')
          /\ saving' = "erase" /\ saves' = saves \cup {ram'}
          /\ UNCHANGED control
  /\ UNCHANGED <<powered, flash, last, lost, cut, used>>

(* write_data_to_flash, with the rest of the program stopped.              *)
Erase ==
  /\ powered /\ saving = "erase"
  /\ flash' = Erased /\ saving' = "first"
  /\ cut' = FALSE
  /\ UNCHANGED <<powered, ram, buffer, control, sent, saves, last, lost, used>>

WrittenWholePages(page) ==                                         \* mutant
  [cell \in Cell |-> IF page = "first" /\ Page(cell) = page THEN ram[cell] ELSE flash[cell]]
Written(page) == [cell \in Cell |-> IF Page(cell) = page THEN ram[cell] ELSE flash[cell]]

Program(page) ==
  /\ powered /\ saving = page
  /\ flash' = Written(page)
  /\ IF page = "first"
     THEN saving' = "second" /\ UNCHANGED <<control, last, lost>>
     ELSE /\ saving' = "no" /\ control' = [control EXCEPT !.stage = "ack"]
          /\ last' = ram /\ lost' = FALSE
  /\ UNCHANGED <<powered, ram, buffer, sent, saves, cut, used>>

(* CONTROL_STAGE_ACK clears the buffer of the command's direction.         *)
Ack ==
  /\ powered /\ saving = "no"
  /\ control # None /\ control.stage = "ack"
  /\ control' = None
  /\ buffer' = IF control.op = "get" THEN buffer ELSE Zeros
  /\ UNCHANGED <<powered, ram, flash, saving, sent, saves, last, lost, cut, used>>

(* A reset of the bus, or usb_device_connect_to_computer.                  *)
Aborted == control' = None

PowerLoss ==
  /\ powered /\ used.power < MaxPowerLosses /\ used' = [used EXCEPT !.power = @ + 1]
  /\ powered' = FALSE
  /\ control' = None /\ saving' = "no" /\ buffer' = Zeros /\ sent' = Zeros
  /\ cut' = (cut \/ saving = "second")
  /\ lost' = (lost \/ saving \in {"first", "second"})
  /\ UNCHANGED <<ram, flash, saves, last>>

Boot ==
  /\ ~powered /\ powered' = TRUE
  /\ ram' = Booted(flash)
  /\ UNCHANGED <<flash, buffer, control, saving, sent, saves, last, lost, cut, used>>

-----------------------------------------------------------------------------
ConfigTypeOK ==
  /\ powered \in BOOLEAN /\ cut \in BOOLEAN /\ lost \in BOOLEAN
  /\ DOMAIN ram = Cell /\ DOMAIN flash = Cell
  /\ buffer \in [1..BufferSize -> Nat]
  /\ control = None \/ control.stage \in {"data", "ack"}
  /\ saving \in {"no", "erase", "first", "second"}

(* doc/technical.md:63: "When a config is changed, the config is then saved *)
(* to the flash": the flash holds the last configuration that was written   *)
(* to its end and the program runs it, whatever restarts and losses of      *)
(* power follow, until a later save is cut after config_persistence.c:24    *)
(* has erased the sector; that one takes it away (NeverMixed says what      *)
(* remains) until another is written to its end.                           *)
FlashHoldsConfig ==
  saving \in {"no", "erase"} /\ last # None /\ ~lost =>
    /\ flash = last
    /\ powered /\ saving = "no" => ram = last

(* Whatever the moment the power is lost: what runs is one configuration    *)
(* that was saved or the default one, never a mixture of two.  Only a loss  *)
(* between the pages leaves a configuration without its second page.       *)
Half(config, page) == [cell \in {c \in Cell : Page(c) = page} |-> config[cell]]
NeverMixed ==
  powered =>
    \/ ram = Default \/ ram \in saves
    \/ /\ cut /\ Half(ram, "second") = Half(Erased, "second")
       /\ \E config \in saves : Half(ram, "first") = Half(config, "first")

(* What is applied is what the configurator sent in that transfer, missing  *)
(* fields being zero, whatever was aborted before.                         *)
OwnData == saving # "no" => buffer = sent

(* The shortcut found is the first whose keys are the ones held, in any     *)
(* order.  Only an enabled shortcut that names a key twice among its keys   *)
(* can be found for others: one key held may stand for two of its own.     *)
Twice(config, i) ==
  /\ config[Head1(i)].enabled # 0
  /\ \E k, l \in 1..config[Head1(i)].count :
       k # l /\ config[Keys(i)][k] = config[Keys(i)][l]
MatchBySet ==
  powered /\ saving = "no" /\ control = None =>
    \A a, b \in {30, 31, 71} :
      LET found == FirstMatching(ram, IF a = b THEN <<a>> ELSE <<a, b>>)
          same == {i \in Shortcut : HasKeys(ram, i, {a, b})}
      IN /\ found = None \/ found \in same \/ Twice(ram, found)
         /\ \A i \in same : found # None /\ found <= i
=============================================================================
