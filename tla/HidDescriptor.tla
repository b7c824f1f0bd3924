--------------------------- MODULE HidDescriptor ---------------------------
(***************************************************************************)
(* shared/hid_report_descriptor.c and shared/hid_keyboard_report_util.c: a  *)
(* report descriptor is read twice, once to count what must be allocated    *)
(* and once to fill it, and the result tells where the keys are in the      *)
(* device's reports.  A descriptor is the sequence of its items, an item is *)
(* [tag, data], and the two passes go over it one item at a time.           *)
(*                                                                         *)
(* Units, exponents and the physical range do not tell the properties       *)
(* apart: "unit" stands for those tags, "string" for the local items that   *)
(* are stored and never read, "long" for a long item.  "truncated" is an    *)
(* item whose data runs past the end of the descriptor.                    *)
(***************************************************************************)
EXTENDS Integers, Sequences, SequencesExt

CONSTANTS
  GLOBAL_STATE_STACK_SIZE, COLLECTION_STACK_SIZE,
  MAX_USAGES, MAX_USAGE_PER_FIELD,
  Counter,       \* what an uint8_t counter wraps at (256)
  SizeLimit,     \* what an uint16_t wraps at (65536)
  PressedLen,    \* sizeof(pressed_keys)
  Keyboard,      \* HID_USAGE_PAGE_KEYBOARD
  LeftCtrl,      \* LEFT_CTRL_KEY
  Memory,        \* what an element of the list of usages reads past the local items
  BootKeyboard,  \* the descriptor of a boot keyboard
  Openings,      \* the items a descriptor begins with
  Items,         \* the items that may follow
  Reports,       \* the reports devices send, sequences of bytes
  MaxItems,      \* bound on the items that follow the opening
  Null           \* nullptr

(* The items of descriptors.                                               *)
AnyItem == Items \cup UNION {Range(items) : items \in Openings}

ASSUME HidDescriptorAssumption ==
  /\ GLOBAL_STATE_STACK_SIZE \in Nat \ {0} /\ COLLECTION_STACK_SIZE \in Nat
  /\ MAX_USAGES \in Nat \ {0} /\ MAX_USAGE_PER_FIELD \in Nat
  /\ Counter \in Nat \ {0} /\ SizeLimit \in Nat \ {0} /\ PressedLen \in Nat /\ MaxItems \in Nat
  /\ Keyboard \in Nat \ {0}
  /\ Openings \subseteq Seq(AnyItem)
  /\ \A item \in AnyItem :
       /\ item.tag \in {"input", "output", "feature"}
            => item.data \in {"constant", "variable", "array"}
       /\ item.tag \in {"size", "count", "id", "page"} => item.data \in Nat
       /\ item.tag = "usageMin" => item.data.usage \in Nat
  /\ Reports \subseteq Seq(0..255) \ {<<>>}

FieldItem == {"input", "output", "feature"}
MainTag == FieldItem \cup {"collection", "end"}
GlobalTag == {"page", "min", "max", "size", "count", "id", "unit", "push", "pop"}
LocalTag == {"usage", "usageMin", "usageMax", "string"}
(* Tags neither pass knows; "otherMain" still ends the local items.  A      *)
(* reserved local tag is ignored, as "string" is.                          *)
UnknownTag == {"otherMain", "otherGlobal", "otherType"}

VARIABLES
  descriptor,    \* the items received so far
  hid,           \* Null, or what hid_mgr_register_at_hid keeps of it
  pressed        \* Null, or the last report and the keys found in it
vars == <<descriptor, hid, pressed>>

-----------------------------------------------------------------------------
(* try_parse_next_item passes over long items, and fails on a truncated one. *)
Skipped(item) == item.tag = "long"

HasTag(items, tag) == \E i \in DOMAIN items : items[i].tag = tag

UseReportId(items) ==
  \E i \in DOMAIN items :
    /\ items[i].tag = "id"
    /\ \A j \in 1..i - 1 : items[j].tag # "truncated"

Settings0 == [page |-> 0, min |-> 0, max |-> 0, size |-> 0, count |-> 0, id |-> 0]
(* A usage given with four bytes carries its page, otherwise Null.          *)
Usage0 == [page |-> Null, usage |-> 0]
(* usage_min is stored right after the list: the list's element MAX_USAGES. *)
Locals0 == [range |-> FALSE, n |-> 0, list |-> [i \in 0..MAX_USAGES |-> Usage0],
            last |-> Usage0]

(* What hid_global_state_t keeps of an item: the count and the id are       *)
(* uint8_t, the usage page is an uint16_t.                                  *)
Stored(item) ==
  CASE item.tag \in {"count", "id"} -> item.data % Counter
    [] item.tag = "page" -> item.data % SizeLimit
    [] OTHER -> item.data

(* The stack of global states, the current one last.                       *)
CanPush(stack) == Len(stack) < GLOBAL_STATE_STACK_SIZE
CanPop(stack) == Len(stack) > 1
GlobalStep(stack, item) ==
  CASE item.tag = "push" -> Append(stack, Last(stack))
    [] item.tag = "pop" -> Front(stack)
    [] item.tag \in DOMAIN Settings0 ->
         ReplaceAt(stack, Len(stack), [Last(stack) EXCEPT ![item.tag] = Stored(item)])
    [] OTHER -> stack

GlobalAllowed(stack, item) ==
  /\ item.tag = "push" => CanPush(stack)
  /\ item.tag = "pop" => CanPop(stack)

(* Mutant of IndexOf: the type is not compared.                            *)
IndexOfId(reports, id, type) == SelectInSeq(reports, LAMBDA r : r.id = id)

(* The definition of a report, by its id and type.                         *)
IndexOf(reports, id, type) ==
  SelectInSeq(reports, LAMBDA r : r.id = id /\ r.type = type)

-----------------------------------------------------------------------------
(* The counting pass.                                                      *)
(* reports is reports_defs, of which report_count elements are in use; its  *)
(* elements are not cleared when that uint8_t wraps.                       *)
Summary0 == [ok |-> TRUE, stack |-> <<Settings0>>, fields |-> 0,
             collections |-> 0, reports |-> <<>>, report_count |-> 0]

FieldsOf(item, settings) == IF item.data = "constant" THEN 1 ELSE settings.count

CountField(sum, item) ==
  LET id == Last(sum.stack).id
      n == FieldsOf(item, Last(sum.stack))
      at == IndexOf(SubSeq(sum.reports, 1, sum.report_count), id, item.tag)
      next == sum.report_count + 1
      old == IF next \in DOMAIN sum.reports THEN sum.reports[next].n ELSE 0
  IN IF at # 0
     THEN [sum EXCEPT !.fields = @ + n, !.reports[at].n = @ + n]
     ELSE [sum EXCEPT !.fields = @ + n,
                      !.report_count = next % Counter,
                      !.reports = SubSeq(@, 1, sum.report_count)
                                    \o <<[id |-> id, type |-> item.tag, n |-> old + n]>>
                                    \o SubSeq(@, next + 1, Len(@))]

CountItem(sum, item) ==
  IF ~sum.ok \/ Skipped(item) THEN sum
  ELSE IF item.tag = "truncated" \/ ~GlobalAllowed(sum.stack, item)
  THEN [sum EXCEPT !.ok = FALSE]
  ELSE CASE item.tag \in FieldItem -> CountField(sum, item)
         [] item.tag = "collection" -> [sum EXCEPT !.collections = @ + 1]
         [] OTHER -> [sum EXCEPT !.stack = GlobalStep(@, item)]

Count(items) ==
  LET sums[i \in 0..Len(items)] ==
        IF i = 0 THEN Summary0 ELSE CountItem(sums[i - 1], items[i])
  IN  sums[Len(items)]

(* Mutant of Room: as many fields per report as the last report has.       *)
RoomOfLast(sum) ==
  [fields |-> sum.fields, collections |-> sum.collections % Counter,
   reports |-> sum.report_count,
   perReport |-> IF sum.reports = <<>> THEN 0 ELSE Last(sum.reports).n]

(* hid_descriptor_new: the room the summary asks for.                      *)
Room(sum) ==
  [fields |-> sum.fields,
   collections |-> sum.collections % Counter,
   reports |-> sum.report_count,
   perReport |-> Max({0} \cup {sum.reports[i].n : i \in 1..sum.report_count})]

-----------------------------------------------------------------------------
(* The filling pass.                                                       *)
Tree0(room) ==
  [ok |-> TRUE, room |-> room, stack |-> <<Settings0>>, local |-> Locals0,
   open |-> <<>>, active |-> -1, fields |-> <<>>, collections |-> <<>>, reports |-> <<>>]

ReserveField(tree, id, type, field) ==
  LET found == IndexOf(tree.reports, id, type)
      reports == IF found # 0 THEN tree.reports
                 ELSE Append(tree.reports, [id |-> id, type |-> type, fields |-> <<>>])
      at == IF found # 0 THEN found ELSE Len(reports)
  IN IF \/ ~tree.ok
        \/ Len(tree.fields) >= tree.room.fields
        \/ Len(reports) > tree.room.reports
        \/ Len(reports[at].fields) >= tree.room.perReport
     THEN [tree EXCEPT !.ok = FALSE]
     ELSE [tree EXCEPT
             !.fields = Append(@, field),
             !.reports = [reports EXCEPT ![at].fields = Append(@, Len(tree.fields) + 1)]]

Lesser(a, b) == IF a < b THEN a ELSE b

(* usages[min16(i, usage_count - 1)]; with no usage, usage_count - 1 is the *)
(* largest uint16_t, and a report count above MAX_USAGES reads past the     *)
(* list: usage_min, usage_max, and whatever the compiler has put behind.    *)
ListedUsage(local, i) ==
  LET at == IF local.n = 0 THEN i ELSE Lesser(i, local.n - 1)
  IN CASE at \in DOMAIN local.list -> local.list[at]
       [] at = MAX_USAGES + 1 -> local.last
       [] OTHER -> Memory[at]

(* The usage of field f of a variable item.                                *)
VariableUsage(local, f) ==
  IF local.range
  THEN [page |-> local.list[MAX_USAGES].page,
        usage |-> Lesser(local.list[MAX_USAGES].usage + f, local.last.usage)]
  ELSE ListedUsage(local, f)

PageOr(page, settings) == IF page = Null THEN settings.page ELSE page

(* Field f of an item, in the collection that is active.                   *)
Field(settings, local, active, item, f) ==
  LET usage == VariableUsage(local, f)
      first == local.list[MAX_USAGES]
      field(kind, value, page, size, min) ==
        [collection |-> active, size |-> size % SizeLimit, min |-> min,
         kind |-> kind, usage |-> value, page |-> page]
  IN CASE item.data = "constant" ->
            field("value", 0, 0, settings.size * settings.count, 0)
       [] item.data = "variable" ->
            field("value", usage.usage, PageOr(usage.page, settings), settings.size, settings.min)
       [] item.data = "array" /\ local.range ->
            field("range", first.usage, PageOr(first.page, settings), settings.size, settings.min)
       [] OTHER ->   \* the page of a list of usages is not stored
            field("array",
                  [i \in 0..((settings.max - settings.min + 1) % Counter) - 1 |->
                     ListedUsage(local, i).usage],
                  0, settings.size, settings.min)

TooManyUsages(tree, item) ==
  /\ item.data = "array" /\ ~tree.local.range /\ Last(tree.stack).count > 0
  /\ (Last(tree.stack).max - Last(tree.stack).min + 1) % Counter > MAX_USAGE_PER_FIELD

FillFields(tree, item) ==
  IF TooManyUsages(tree, item) THEN [tree EXCEPT !.ok = FALSE]
  ELSE LET settings == Last(tree.stack)
           n == FieldsOf(item, settings)
           field(f) == Field(settings, tree.local, tree.active, item, f)
           trees[f \in 0..n] ==
             IF f = 0 THEN tree
             ELSE ReserveField(trees[f - 1], settings.id, item.tag, field(f - 1))
       IN  trees[n]

(* The index of a collection is an int8_t.                                 *)
Signed(n) == IF n < Counter \div 2 THEN n ELSE n - Counter

OpenCollection(tree) ==
  IF \/ Len(tree.open) >= COLLECTION_STACK_SIZE
     \/ Len(tree.collections) >= tree.room.collections
  THEN [tree EXCEPT !.ok = FALSE]
  ELSE [tree EXCEPT !.collections = Append(@, [parent |-> tree.active]),
                    !.open = Append(@, tree.active),
                    !.active = Signed(Len(tree.collections))]

(* Mutant of CloseCollection: back to no collection at all.                *)
CloseToNone(tree) ==
  IF tree.open = <<>> THEN [tree EXCEPT !.ok = FALSE]
  ELSE [tree EXCEPT !.active = -1, !.open = Front(@)]

CloseCollection(tree) ==
  IF tree.open = <<>> THEN [tree EXCEPT !.ok = FALSE]
  ELSE [tree EXCEPT !.active = Last(tree.open), !.open = Front(@)]

(* The list takes one usage more than it has elements.                     *)
LocalStep(local, item) ==
  CASE item.tag = "usage" ->
         [local EXCEPT !.range = FALSE, !.n = @ + 1, !.list[local.n] = item.data]
    [] item.tag = "usageMin" -> [local EXCEPT !.range = TRUE, !.list[MAX_USAGES] = item.data]
    [] item.tag = "usageMax" -> [local EXCEPT !.range = TRUE, !.last = item.data]
    [] OTHER -> local

(* Mutant of Forget: the local items outlive their main item.              *)
Remember(tree) == tree

Forget(tree) == [tree EXCEPT !.local = Locals0]

FillItem(tree, item) ==
  IF ~tree.ok \/ Skipped(item) THEN tree
  ELSE IF \/ item.tag \in UnknownTag \cup {"truncated"}
          \/ ~GlobalAllowed(tree.stack, item)
          \/ item.tag = "usage" /\ tree.local.n > MAX_USAGES
  THEN [tree EXCEPT !.ok = FALSE]
  ELSE CASE item.tag \in FieldItem -> Forget(FillFields(tree, item))
         [] item.tag = "collection" -> Forget(OpenCollection(tree))
         [] item.tag = "end" -> Forget(CloseCollection(tree))
         [] item.tag \in LocalTag -> [tree EXCEPT !.local = LocalStep(@, item)]
         [] OTHER -> [tree EXCEPT !.stack = GlobalStep(@, item)]

Fill(items, room) ==
  LET trees[i \in 0..Len(items)] ==
        IF i = 0 THEN Tree0(room) ELSE FillItem(trees[i - 1], items[i])
  IN  trees[Len(items)]

(* hid_report_descriptor_parse.  NoTree is nullptr.                        *)
NoTree == [ok |-> FALSE]
Parse(items) ==
  LET sum == Count(items)
      tree == Fill(items, Room(sum))
  IN IF sum.ok /\ tree.ok THEN tree ELSE NoTree

-----------------------------------------------------------------------------
(* Reading keys out of a report.                                           *)
ContainsKeycodesOfAny(tree) ==                                     \* mutant
  \E k \in DOMAIN tree.fields : tree.fields[k].page = Keyboard
ContainsKeycodes(tree) ==
  \E r \in DOMAIN tree.reports :
    /\ tree.reports[r].type = "input"
    /\ \E i \in DOMAIN tree.reports[r].fields :
         tree.fields[tree.reports[r].fields[i]].page = Keyboard

(* Numbers of up to 32 bits: a wider field shifts by more than an int has,  *)
(* which C leaves undefined.                                               *)
Bit(data, i) == (data[i \div 8 + 1] \div 2^(i % 8)) % 2
(* Mutant of Bits: the last bit of the report is taken for its end.        *)
BitsShort(data, offset, size) ==
  IF offset + size >= 8 * Len(data) THEN 0
  ELSE LET bits[i \in 0..size] ==
             IF i = 0 THEN 0 ELSE bits[i - 1] + Bit(data, offset + i - 1) * 2^(i - 1)
       IN  bits[size]
Bits(data, offset, size) ==
  IF offset + size > 8 * Len(data) THEN 0
  ELSE LET bits[i \in 0..size] ==
             IF i = 0 THEN 0 ELSE bits[i - 1] + Bit(data, offset + i - 1) * 2^(i - 1)
       IN  bits[size]

AddKey(keys, key) == IF Len(keys) >= PressedLen THEN keys ELSE Append(keys, key % 256)

FieldKeys(keys, field, bits) ==
  IF bits = 0 \/ field.page # Keyboard THEN keys
  ELSE CASE field.kind = "range" -> AddKey(keys, field.usage + bits)
         [] field.kind = "value" -> AddKey(keys, field.usage)
         [] field.kind = "array" /\ bits - field.min \in DOMAIN field.usage ->
              AddKey(keys, field.usage[bits - field.min])
         [] OTHER -> keys

(* hid_report_get_pressed_keys: the fields of the report's definition, in   *)
(* order, each at the bit where the one before ends.                       *)
PressedKeys(tree, data, id) ==
  LET at == IndexOf(tree.reports, id, "input")
      places == tree.reports[at].fields
      step(acc, field) ==
        [keys |-> FieldKeys(acc.keys, field, Bits(data, acc.offset, field.size)),
         offset |-> acc.offset + field.size]
      found[i \in 0..Len(places)] ==
        IF i = 0 THEN [keys |-> <<>>, offset |-> 0]
        ELSE step(found[i - 1], tree.fields[places[i]])
  IN IF at = 0 THEN <<>> ELSE found[Len(places)].keys

(* Mutant of BootKeys: the reserved byte is read as a key.                 *)
BootKeysReserved(data) ==
  IF Len(data) # 8 THEN <<>>
  ELSE LET modifier(keys, i) ==
             IF (data[1] \div 2^i) % 2 = 1 THEN AddKey(keys, LeftCtrl + i) ELSE keys
           key(keys, k) == IF k # 0 THEN AddKey(keys, k) ELSE keys
       IN FoldLeft(key, FoldLeft(modifier, <<>>, [i \in 1..8 |-> i - 1]), Tail(data))

BootKeys(data) ==
  IF Len(data) # 8 THEN <<>>
  ELSE LET modifier(keys, i) ==
             IF (data[1] \div 2^i) % 2 = 1 THEN AddKey(keys, LeftCtrl + i) ELSE keys
           key(keys, k) == IF k # 0 THEN AddKey(keys, k) ELSE keys
       IN FoldLeft(key, FoldLeft(modifier, <<>>, [i \in 1..8 |-> i - 1]), SubSeq(data, 3, 8))

-----------------------------------------------------------------------------
Init ==
  /\ descriptor \in Openings
  /\ hid = Null /\ pressed = Null

Receive(item) ==
  /\ hid = Null
  /\ \E opening \in Openings : IsPrefix(opening, descriptor)
                               /\ Len(descriptor) < Len(opening) + MaxItems
  /\ ~HasTag(descriptor, "truncated")
  /\ descriptor' = Append(descriptor, item)
  /\ UNCHANGED <<hid, pressed>>

(* hid_mgr_register_at_hid: parse, and look for keys and report ids.       *)
Register ==
  /\ hid = Null
  /\ LET tree == Parse(descriptor)
     IN hid' = [tree |-> tree, useId |-> UseReportId(descriptor),
                keyboard |-> tree.ok /\ ContainsKeycodes(tree)]
  /\ UNCHANGED <<descriptor, pressed>>

(* A report of the interface: its id is taken off in the report protocol,   *)
(* and the boot decoder is used for a keyboard in the boot protocol.       *)
Protocol == {"report", "boot", "bootKeyboard"}
HidReport(data, protocol) ==
  /\ hid # Null /\ pressed = Null
  /\ LET useId == protocol = "report" /\ hid.useId
         id == IF useId THEN data[1] ELSE 0
         rest == IF useId THEN Tail(data) ELSE data
     IN pressed' =
          [data |-> rest, id |-> id, protocol |-> protocol,
           keys |-> IF protocol = "bootKeyboard" THEN BootKeys(rest)
                    ELSE IF hid.keyboard THEN PressedKeys(hid.tree, rest, id)
                    ELSE <<>>]
  /\ UNCHANGED <<descriptor, hid>>

Next ==
  \/ \E item \in Items : Receive(item)
  \/ Register
  \/ \E data \in Reports, protocol \in Protocol : HidReport(data, protocol)

Spec == Init /\ [][Next]_vars
=============================================================================
