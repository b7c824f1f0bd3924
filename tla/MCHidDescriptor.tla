-------------------------- MODULE MCHidDescriptor --------------------------
(* The items, the beginnings of descriptors and the reports of the checks.  *)
EXTENDS HidDescriptorReference

Item(tag, data) == [tag |-> tag, data |-> data]
Plain(usage) == [page |-> Null, usage |-> usage]

MCItems ==
  {Item("input", "constant"), Item("input", "variable"), Item("input", "array"),
   Item("output", "variable"), Item("collection", 1), Item("end", 0),
   Item("page", 7), Item("page", 1), Item("page", 65543), Item("size", 8), Item("count", 2),
   Item("count", 0), Item("count", 11), Item("count", 17), Item("id", 1),
   Item("push", 0), Item("pop", 0), Item("min", 1), Item("max", 3),
   Item("usage", Plain(5)), Item("usage", [page |-> 7, usage |-> 6]),
   Item("usageMin", Plain(4)), Item("usageMin", [page |-> 7, usage |-> 3]),
   Item("usageMax", Plain(5)), Item("string", 1), Item("unit", 1), Item("long", 0),
   Item("truncated", 0), Item("otherMain", 0), Item("otherGlobal", 0), Item("otherType", 0)}

(* What is read past the local items could be anything, a key for example.  *)
MCMemory == [i \in 0..15 |-> [page |-> 7, usage |-> 99]]

(* Usage page, report size and count for keys one bit each.                *)
KeyBits == <<Item("page", 7), Item("size", 1), Item("count", 2)>>
KeyBytes == <<Item("page", 7), Item("size", 8), Item("count", 1), Item("max", 101)>>
Input(data) == <<Item("input", data)>>
Range0(low, high) == <<Item("usageMin", Plain(low)), Item("usageMax", Plain(high))>>

(* The keyboard of the boot protocol: eight modifiers, a byte, six keys.    *)
MCBootKeyboard ==
  <<Item("page", 1), Item("usage", Plain(6)), Item("collection", 1), Item("page", 7)>>
  \o Range0(224, 231) \o <<Item("max", 1), Item("size", 1), Item("count", 8)>>
  \o Input("variable") \o <<Item("count", 1), Item("size", 8)>> \o Input("constant")
  \o <<Item("count", 6), Item("max", 101)>> \o Range0(0, 101) \o Input("array")
  \o <<Item("end", 0)>>

(* Empty collections, to bring the number of collections near its limits.   *)
Pairs(n) == FlattenSeq([i \in 1..n |-> <<Item("collection", 1), Item("end", 0)>>])

MCOpenings ==
  {<<>>,
   MCBootKeyboard,
   KeyBits,
   KeyBits \o Range0(4, 5) \o Input("variable"),
   KeyBits \o <<Item("id", 1), Item("push", 0), Item("size", 4), Item("id", 2)>>
           \o Input("constant"),
   KeyBytes \o Range0(0, 101) \o Input("array"),
   KeyBytes \o Range0(4, 104),
   <<Item("page", 7), Item("size", 8), Item("count", 1), Item("max", 1),
     Item("usage", Plain(4)), Item("usage", Plain(5))>>,
   KeyBits \o <<Item("collection", 1), Item("end", 0), Item("collection", 1),
                Item("collection", 2), Item("end", 0)>>,
   KeyBits \o [i \in 1..8 |-> Item("usage", Plain(i))],
   KeyBits \o Pairs(7), KeyBits \o Pairs(15)}

MCReports ==
  {<<1>>, <<2>>, <<1, 3>>, <<2, 1>>,
   <<130, 0, 4, 0, 5, 0, 0, 0>>, <<3, 9, 4, 5, 6, 7, 8, 9>>}
=============================================================================
