---------------------- MODULE HidDescriptorReference ----------------------
(***************************************************************************)
(* What the two passes of HidDescriptor must have found, said without       *)
(* stacks, counters or accumulated state: every fact about an item is read  *)
(* off the items around it.                                                *)
(***************************************************************************)
EXTENDS HidDescriptor, FiniteSets, FiniteSetsExt

Tree == hid.tree
Registered == hid # Null /\ pressed = Null
Parsed == hid # Null /\ hid.tree.ok

(* How many items from one position to another have that tag.               *)
CountTag(tag, from, to) == Cardinality({i \in from..to : descriptor[i].tag = tag})

(* The value a global tag has at item i: the last one given before i that   *)
(* no pop has taken back.                                                  *)
GivenAt(tag, i) ==
  {j \in 1..i - 1 : /\ descriptor[j].tag = tag
                    /\ \A k \in j..i - 1 : CountTag("pop", j, k) <= CountTag("push", j, k)}
SettingAt(tag, i) ==
  IF GivenAt(tag, i) = {} THEN 0 ELSE descriptor[Max(GivenAt(tag, i))].data

(* The usage items that belong to item i: those since the main item before. *)
UsagesAt(i) ==
  {j \in 1..i - 1 : /\ descriptor[j].tag \in {"usage", "usageMin", "usageMax"}
                    /\ \A k \in j..i - 1 : descriptor[k].tag \notin MainTag}
Tagged(places, tag) == {j \in places : descriptor[j].tag = tag}
LastOf(places, tag) ==
  IF Tagged(places, tag) = {} THEN Usage0 ELSE descriptor[Max(Tagged(places, tag))].data
Ranged(places) == places # {} /\ descriptor[Max(places)].tag # "usage"
Listed(places) == Tagged(places, "usage")
Nth(places, n) == CHOOSE j \in places : Cardinality({k \in places : k <= j}) = n

(* The f-th usage of a list or of a range, or the last one when there are   *)
(* more fields than usages.                                                *)
UsageOf(places, f) ==
  IF Ranged(places)
  THEN [page |-> LastOf(places, "usageMin").page,
        usage |-> Lesser(LastOf(places, "usageMin").usage + f, LastOf(places, "usageMax").usage)]
  ELSE IF Listed(places) = {} THEN Usage0
  ELSE descriptor[Nth(Listed(places), Lesser(f + 1, Cardinality(Listed(places))))].data

(* The innermost collection open at item i.                                *)
OpenAt(i) ==
  {j \in 1..i - 1 : /\ descriptor[j].tag = "collection"
                    /\ \A k \in j..i - 1 : CountTag("end", j, k) < CountTag("collection", j, k)}
CollectionAt(i) ==
  IF OpenAt(i) = {} THEN -1 ELSE CountTag("collection", 1, Max(OpenAt(i))) - 1

(* Every field the descriptor declares, in order.                          *)
PageAt(i, f) ==
  LET own == IF descriptor[i].data = "variable" THEN UsageOf(UsagesAt(i), f).page
             ELSE LastOf(UsagesAt(i), "usageMin").page
  IN IF own = Null THEN SettingAt("page", i) ELSE own
FieldAt(i, f) ==
  LET constant == descriptor[i].data = "constant" IN
  [f |-> f, kind |-> descriptor[i].data, type |-> descriptor[i].tag,
   id |-> SettingAt("id", i), usages |-> UsagesAt(i), collection |-> CollectionAt(i),
   min |-> SettingAt("min", i), max |-> SettingAt("max", i),
   size |-> IF constant THEN SettingAt("size", i) * SettingAt("count", i)
            ELSE SettingAt("size", i),
   page |-> IF constant THEN 0 ELSE PageAt(i, f)]
FieldsAt(i) ==
  IF descriptor[i].tag \notin FieldItem THEN <<>>
  ELSE [f \in 1..IF descriptor[i].data = "constant" THEN 1 ELSE SettingAt("count", i)
          |-> FieldAt(i, f - 1)]
Declared == FlattenSeq([i \in 1..Len(descriptor) |-> FieldsAt(i)])

(* The declared fields of a report.                                        *)
FieldsOfReport(declared, id, type) ==
  {k \in DOMAIN declared : declared[k].id = id /\ declared[k].type = type}

(* The counts, report ids and usage pages given are those the program keeps. *)
NumbersFit ==
  \A i \in DOMAIN descriptor :
    /\ descriptor[i].tag \in {"count", "id"} => descriptor[i].data < Counter
    /\ descriptor[i].tag = "page" => descriptor[i].data < SizeLimit

(* The field's usage is one of the local items: there are no more than the  *)
(* list holds (UsagesInBounds), and a field for which none is given reads   *)
(* no further than the list and the two members after it.                  *)
ListLimited(field) ==
  /\ Cardinality(Listed(field.usages)) <= MAX_USAGES
  /\ field.kind = "variable" /\ ~Ranged(field.usages) /\ Listed(field.usages) = {}
       => field.f <= MAX_USAGES + 1

(* A size that bit_size holds, and for a field of keys get_bits as well.    *)
SizeLimited(field) ==
  field.size < SizeLimit /\ (field.page = Keyboard => field.size <= 32)

(* The keys are declared as a list of usages, not as a range.              *)
KeyList(field) ==
  /\ field.type = "input" /\ field.kind = "array" /\ field.page = Keyboard
  /\ ~Ranged(field.usages)

SumOver(f, places) == MapThenSumSet(LAMBDA j : f[j], places)

(* The number in those bits of the report, lowest bit first; 0 when the     *)
(* report ends before.                                                     *)
NumberAt(data, offset, size) ==
  IF offset + size > 8 * Len(data) THEN 0
  ELSE SumOver([b \in 0..size - 1 |-> Bit(data, offset + b) * 2^b], 0..size - 1)

(* What a report holds in those of the declared fields, from bit 0 on.      *)
ValueIn(declared, places, data, k) ==
  LET sizes == [j \in places |-> declared[j].size]
  IN  NumberAt(data, SumOver(sizes, {j \in places : j < k}), declared[k].size)
(* The key that is: an array holds the number of a usage, counted from its  *)
(* logical minimum.                                                        *)
KeyIn(declared, places, data, k) ==
  IF declared[k].kind = "variable" THEN UsageOf(declared[k].usages, declared[k].f).usage
  ELSE LastOf(declared[k].usages, "usageMin").usage
         + ValueIn(declared, places, data, k) - declared[k].min
(* The fields that hold a key: an array does not when its value is out of   *)
(* its logical limits, nor when the usage is zero.                          *)
HoldsKey(declared, places, data, k) ==
  LET value == ValueIn(declared, places, data, k) IN
  IF declared[k].kind = "variable" THEN value # 0
  ELSE /\ value \in declared[k].min..declared[k].max
       /\ KeyIn(declared, places, data, k) # 0
HeldIn(declared, places, data) ==
  {k \in places : declared[k].page = Keyboard /\ HoldsKey(declared, places, data, k)}

(* A value of an array that the program takes for what it is although it    *)
(* looks at no logical limit: they start at zero, the value is within them, *)
(* and zero stands for usage zero.                                          *)
FromZero(field, value) ==
  field.kind = "array" /\ field.page = Keyboard =>
    /\ field.min = 0 /\ value \in field.min..field.max
    /\ value = 0 => LastOf(field.usages, "usageMin").usage = 0

-----------------------------------------------------------------------------
(* More room than a descriptor of that many items can use.                  *)
Plenty(items) ==
  LET most == Len(items) * Counter
  IN  [fields |-> most, collections |-> most, reports |-> most, perReport |-> most]

(* The two passes agree: the filling pass uses every field that was counted *)
(* (hid_report_descriptor.c:181, "to be able to allocate a report with the  *)
(* minimum size"), and is never stopped by the room the counting pass       *)
(* asked for, as long as no uint8_t counter has wrapped.                   *)
CountedIsFilled ==
  Registered =>
    LET sum == Count(descriptor) IN
    /\ Parsed => /\ Len(Tree.fields) = sum.fields
                 /\ Len(Tree.collections) = sum.collections
                 /\ \A r \in DOMAIN Tree.reports :
                      Len(Tree.reports[r].fields) <= Tree.room.perReport
    /\ sum.ok /\ sum.collections < Counter /\ Len(sum.reports) < Counter
         => (Parsed <=> Fill(descriptor, Plenty(descriptor)).ok)

(* Each report's fields are those declared for its id and type, in order    *)
(* and with their sizes, as far as bit_size holds them, whatever is pushed  *)
(* and popped in between: the bit a key is looked for at is the sum of the  *)
(* sizes before it.  Said of descriptors whose counts, ids and pages fit.   *)
LayoutAsDeclared ==
  Registered /\ Parsed /\ NumbersFit =>
    LET declared == Declared IN
    /\ Len(Tree.fields) = Len(declared)
    /\ \A k \in DOMAIN declared :
         declared[k].size < SizeLimit => Tree.fields[k].size = declared[k].size
    /\ \A r \in DOMAIN Tree.reports :
         LET report == Tree.reports[r] IN
         /\ Range(report.fields) = FieldsOfReport(declared, report.id, report.type)
         /\ \A a, b \in DOMAIN report.fields : a < b => report.fields[a] < report.fields[b]
    /\ \A k \in DOMAIN declared :
         \E r \in DOMAIN Tree.reports : Contains(Tree.reports[r].fields, k)

(* A variable field has its own usage and the page that goes with it, and   *)
(* no usage of an earlier item (parse_usage, and the memset of local_state). *)
(* Items with more usages than the list holds are set aside, the hazard of  *)
(* UsagesInBounds, and so are numbers that do not fit.                      *)
UsagesAsDeclared ==
  Registered /\ Parsed /\ NumbersFit =>
    LET declared == Declared IN
    \A k \in DOMAIN declared :
      declared[k].kind = "variable" /\ ListLimited(declared[k]) =>
        /\ Tree.fields[k].usage = UsageOf(declared[k].usages, declared[k].f).usage
        /\ Tree.fields[k].page = declared[k].page

(* A field is in the innermost collection open where it is declared, while  *)
(* indices fit an int8_t and counts what is kept of them.                   *)
CollectionsAsDeclared ==
  Registered /\ Parsed /\ NumbersFit /\ Len(Tree.collections) <= Counter \div 2 =>
    LET declared == Declared IN
    \A k \in DOMAIN declared : Tree.fields[k].collection = declared[k].collection

(* The keys found in a report are those it holds, at most PressedLen of     *)
(* them, whatever the report's other fields are: for numbers that fit,      *)
(* usages in the list, fields of up to 32 bits, and arrays that declare a   *)
(* range and number it from zero, as hid_keyboard_report_util.c:78 does     *)
(* without a look at the logical minimum.                                  *)
KeysAsHeld ==
  pressed # Null /\ pressed.protocol # "bootKeyboard" /\ Parsed /\ NumbersFit =>
    LET declared == Declared
        places == FieldsOfReport(declared, pressed.id, "input")
        held == HeldIn(declared, places, pressed.data)
        before(k) == Cardinality({j \in held : j < k})
    IN \/ \E k \in places :
            \/ KeyList(declared[k]) \/ ~ListLimited(declared[k]) \/ ~SizeLimited(declared[k])
            \/ ~FromZero(declared[k], ValueIn(declared, places, pressed.data, k))
       \/ /\ Len(pressed.keys) = Lesser(PressedLen, Cardinality(held))
          /\ \A k \in held : before(k) < PressedLen =>
               pressed.keys[before(k) + 1] = KeyIn(declared, places, pressed.data, k) % 256

(* A boot keyboard gives the same shortcuts in the boot protocol and in the *)
(* report protocol.                                                        *)
BootKeyboardAgrees ==
  pressed # Null /\ pressed.protocol = "bootKeyboard" /\ Len(pressed.data) = 8
    /\ descriptor = BootKeyboard /\ Parsed
    => pressed.keys = PressedKeys(Tree, pressed.data, 0)

(* doc/technical.md:53: "any keyboard report is then interpreted to detect  *)
(* if a shortcut has been pressed": an interface is taken for a keyboard    *)
(* when one of its input reports has a field of keys, but for the keys that *)
(* are declared as a list: hid_report_descriptor.c:532 keeps no usage page  *)
(* of those, and no shortcut is seen on such a keyboard.  Said where the    *)
(* numbers fit and the usages are in the list.                              *)
KeyboardsFound ==
  Registered /\ Parsed /\ NumbersFit =>
    LET declared == Declared
        keys == {k \in DOMAIN declared :
                   /\ declared[k].type = "input" /\ declared[k].page = Keyboard
                   /\ declared[k].kind # "constant" /\ ~KeyList(declared[k])}
    IN (\A k \in DOMAIN declared : ListLimited(declared[k]))
         => (hid.keyboard <=> keys # {})

(* test/shared/hid_report_descriptors/many_usages.hid.txt:3: "the bound     *)
(* check must not write one past the end of the usages[] array".  No prefix *)
(* of a descriptor the first pass accepts has more usages listed than that. *)
UsagesInBounds ==
  Registered /\ Count(descriptor).ok =>
    \A i \in 0..Len(descriptor) :
      Fill(SubSeq(descriptor, 1, i), Room(Count(descriptor))).local.n <= MAX_USAGES
=============================================================================
