------------------------- MODULE HidLayout_proofs --------------------------
(***************************************************************************)
(* Proofs about HidDescriptor, for descriptors of any length: the parser    *)
(* finds the fields the descriptor declares, where it declares them, and    *)
(* the decoder finds the keys that are held.                                *)
(***************************************************************************)
EXTENDS HidDescriptor_proofs

-----------------------------------------------------------------------------
(* The filling pass over the descriptor, item by item.                      *)

(* g[i] is the tree after i items of a descriptor that is not refused, and  *)
(* whose numbers are kept as they are given.                                *)
Run(g) ==
  /\ descriptor \in Seq(AnyItem) /\ NumbersFit
  /\ \E room \in Rooms : TreesOf(g, descriptor, room)
  /\ g[Len(descriptor)].ok

LEMMA RunTrees ==
  ASSUME NEW g, Run(g)
  PROVE  /\ Len(descriptor) \in Nat
         /\ \A i \in 1..Len(descriptor) : descriptor[i] \in AnyItem
         /\ \E room \in Rooms : g[0] = Tree0(room)
         /\ \A i \in 1..Len(descriptor) : g[i] = FillItem(g[i - 1], descriptor[i])
         /\ \A i \in 0..Len(descriptor) : TreeOK(g[i]) /\ g[i].ok
<1>1. /\ descriptor \in Seq(AnyItem) /\ g[Len(descriptor)].ok
      /\ Len(descriptor) \in Nat
      /\ \A i \in 1..Len(descriptor) : descriptor[i] \in AnyItem
  BY DEF Run
<1>2. PICK room \in Rooms : TreesOf(g, descriptor, room)
  BY DEF Run
<1>3. PICK n \in Nat : n = Len(descriptor)
  BY <1>1
<1>4. g[0] = Tree0(room) /\ \A i \in 1..n : g[i] = FillItem(g[i - 1], descriptor[i])
  BY <1>2, <1>3 DEF TreesOf
<1>5. PICK f : SumsOf(f, descriptor)
  BY <1>1, CountIsLast
<1>6. \A i \in 0..n : TreeOK(g[i]) /\ InStep(f[i], g[i]) /\ SumOK(f[i], i)
  BY <1>1, <1>2, <1>3, <1>5, TreesInStep, SumsGrow
<1>7. ASSUME NEW i \in 1..n, g[i].ok PROVE g[i - 1].ok
  <2>1. i - 1 \in 0..n /\ i - 1 \in Nat /\ descriptor[i] \in AnyItem
    BY <1>1, <1>3
  <2>2. TreeOK(g[i - 1]) /\ InStep(f[i - 1], g[i - 1]) /\ SumOK(f[i - 1], i - 1)
    BY <1>6, <2>1
  <2>3. FillItem(g[i - 1], descriptor[i]).ok => g[i - 1].ok
    BY <2>1, <2>2, FillItemInStep
  <2>4. QED
    BY <1>4, <1>7, <2>3
<1> DEFINE T == {k \in Nat : k <= n => g[n - k].ok}
<1>8. 0 \in T
  <2>1. n - 0 = n
    OBVIOUS
  <2>2. QED
    BY <1>1, <1>3, <2>1
<1>9. ASSUME NEW k \in Nat, k \in T PROVE k + 1 \in T
  <2> SUFFICES ASSUME k + 1 <= n PROVE g[n - (k + 1)].ok
    OBVIOUS
  <2>1. n - k \in 1..n /\ n - k - 1 = n - (k + 1)
    OBVIOUS
  <2>2. g[n - k].ok
    BY <1>9
  <2>3. QED
    BY <1>7, <2>1, <2>2
<1>10. ASSUME NEW i \in 0..n PROVE g[i].ok
  <2>1. n - i \in T
    <3> HIDE DEF T
    <3>1. n - i \in Nat
      OBVIOUS
    <3>2. QED
      BY <1>8, <1>9, <3>1, NatSetInduction
  <2>2. n - i <= n /\ n - (n - i) = i
    OBVIOUS
  <2>3. QED
    BY <2>1, <2>2
<1>11. QED
  BY <1>1, <1>3, <1>4, <1>6, <1>10

(* What an item does to each part of the tree.                              *)
StackStep(old, new, item) ==
  GlobalAllowed(old.stack, item) /\ new.stack = GlobalStep(old.stack, item)

LocalItems(old, new, item) ==
  /\ new.local = IF item.tag \in MainTag THEN Locals0 ELSE LocalStep(old.local, item)
  /\ item.tag = "usage" => ~(old.local.n > MAX_USAGES)

CollectionStep(old, new, item) ==
  /\ item.tag = "collection" =>
       /\ new.open = Append(old.open, old.active)
       /\ new.active = Signed(Len(old.collections))
       /\ new.collections = Append(old.collections, [parent |-> old.active])
  /\ item.tag = "end" =>
       /\ old.open # <<>> /\ new.open = Front(old.open) /\ new.active = Last(old.open)
       /\ new.collections = old.collections
  /\ item.tag \notin {"collection", "end"} =>
       /\ new.open = old.open /\ new.active = old.active
       /\ new.collections = old.collections

FieldStep(old, new, item) ==
  /\ item.tag \in FieldItem =>
       LET filled == FillFields(old, item) IN
       filled.ok /\ new.fields = filled.fields /\ new.reports = filled.reports
  /\ item.tag \notin FieldItem => new.fields = old.fields /\ new.reports = old.reports

LEMMA GlobalOnly ==
  ASSUME NEW stack, NEW item,
         item.tag \notin {"push", "pop", "count", "page", "min", "max", "size", "id"}
  PROVE  GlobalStep(stack, item) = stack /\ GlobalAllowed(stack, item)
<1>1. DOMAIN Settings0 = {"page", "min", "max", "size", "count", "id"}
  BY DEF Settings0
<1>2. QED
  BY <1>1 DEF GlobalStep, GlobalAllowed

LEMMA ForgetOf ==
  ASSUME NEW tree, TreeOK(tree)
  PROVE  LET new == Forget(tree) IN
         /\ new.ok = tree.ok /\ new.stack = tree.stack /\ new.local = Locals0
         /\ new.open = tree.open /\ new.active = tree.active
         /\ new.fields = tree.fields /\ new.collections = tree.collections
         /\ new.reports = tree.reports
<1>1. Forget(tree) = [tree EXCEPT !.local = Locals0]
  BY DEF Forget
<1> DEFINE new == Forget(tree)
<1> HIDE DEF new
<1>2. new = [tree EXCEPT !.local = Locals0]
  BY <1>1 DEF new
<1>3. QED
  BY <1>2 DEF TreeOK, new

LEMMA ItemStep ==
  ASSUME NEW old, TreeOK(old), old.ok, NEW item, FillItem(old, item).ok
  PROVE  LET new == FillItem(old, item) IN
         /\ StackStep(old, new, item) /\ LocalItems(old, new, item)
         /\ CollectionStep(old, new, item) /\ FieldStep(old, new, item)
<1> DEFINE new == FillItem(old, item)
           refused == \/ item.tag \in UnknownTag \cup {"truncated"}
                      \/ ~GlobalAllowed(old.stack, item)
                      \/ item.tag = "usage" /\ old.local.n > MAX_USAGES
           Goal == /\ StackStep(old, new, item) /\ LocalItems(old, new, item)
                   /\ CollectionStep(old, new, item) /\ FieldStep(old, new, item)
<1> SUFFICES Goal
  OBVIOUS
<1>1. CASE item.tag = "long"
  <2>1. new = old
    BY <1>1 DEF FillItem, Skipped
  <2> HIDE DEF new
  <2>2. GlobalStep(old.stack, item) = old.stack /\ GlobalAllowed(old.stack, item)
    BY <1>1, GlobalOnly
  <2>3. LocalStep(old.local, item) = old.local
    BY <1>1 DEF LocalStep
  <2>4. item.tag \notin MainTag
    BY <1>1 DEF MainTag, FieldItem
  <2>5. QED
    BY <1>1, <2>1, <2>2, <2>3, <2>4
    DEF StackStep, LocalItems, CollectionStep, FieldStep, FieldItem
<1>2. CASE item.tag # "long"
  <2>1. new = IF refused THEN [old EXCEPT !.ok = FALSE]
              ELSE CASE item.tag \in FieldItem -> Forget(FillFields(old, item))
                     [] item.tag = "collection" -> Forget(OpenCollection(old))
                     [] item.tag = "end" -> Forget(CloseCollection(old))
                     [] item.tag \in LocalTag -> [old EXCEPT !.local = LocalStep(@, item)]
                     [] OTHER -> [old EXCEPT !.stack = GlobalStep(@, item)]
    BY <1>2 DEF FillItem, Skipped
  <2>2. ~refused
    <3> SUFFICES ASSUME refused PROVE FALSE
      OBVIOUS
    <3>1. new = [old EXCEPT !.ok = FALSE]
      BY <2>1
    <3> HIDE DEF new, refused
    <3>2. new.ok = FALSE
      BY <3>1 DEF TreeOK
    <3>3. QED
      BY <3>2 DEF new
  <2>3. /\ GlobalAllowed(old.stack, item) /\ item.tag \notin UnknownTag
        /\ item.tag # "truncated" /\ item.tag = "usage" => ~(old.local.n > MAX_USAGES)
    BY <2>2
  <2>4. new.ok
    OBVIOUS
  <2> HIDE DEF new, refused
  <2>5. CASE item.tag \in FieldItem
    <3>1. new = Forget(FillFields(old, item))
      BY <2>1, <2>2, <2>5 DEF FieldItem, LocalTag
    <3>2. TreeOK(FillFields(old, item)) /\ SameBut(FillFields(old, item), old)
      BY <2>5, FillFieldsOK
    <3> HIDE DEF new, refused
    <3>3. /\ new.ok = FillFields(old, item).ok /\ new.stack = old.stack /\ new.local = Locals0
          /\ new.open = old.open /\ new.active = old.active
          /\ new.fields = FillFields(old, item).fields /\ new.collections = old.collections
          /\ new.reports = FillFields(old, item).reports
      BY <3>1, <3>2, ForgetOf DEF SameBut
    <3>4. GlobalStep(old.stack, item) = old.stack
      BY <2>5, GlobalOnly DEF FieldItem
    <3>5. item.tag \in MainTag /\ item.tag \notin {"collection", "end", "usage"}
      BY <2>5 DEF MainTag, FieldItem
    <3>6. QED
      BY <2>3, <2>4, <2>5, <3>3, <3>4, <3>5
      DEF StackStep, LocalItems, CollectionStep, FieldStep
  <2>6. CASE item.tag = "collection"
    <3>1. new = Forget(OpenCollection(old))
      BY <2>1, <2>2, <2>6 DEF FieldItem, LocalTag
    <3> DEFINE opened == OpenCollection(old)
               full == \/ Len(old.open) >= COLLECTION_STACK_SIZE
                       \/ Len(old.collections) >= old.room.collections
               more == Append(old.collections, [parent |-> old.active])
    <3>2. new = [opened EXCEPT !.local = Locals0]
      BY <3>1 DEF Forget
    <3>3. opened = IF full THEN [old EXCEPT !.ok = FALSE]
                   ELSE [old EXCEPT !.collections = Append(@, [parent |-> old.active]),
                                    !.open = Append(@, old.active),
                                    !.active = Signed(Len(old.collections))]
      BY DEF OpenCollection
    <3>4. ~full
      <4> SUFFICES ASSUME full PROVE FALSE
        OBVIOUS
      <4>1. opened = [old EXCEPT !.ok = FALSE]
        BY <3>3
      <4> HIDE DEF opened, full, new
      <4>2. new.ok = FALSE
        BY <3>2, <4>1 DEF TreeOK
      <4>3. QED
        BY <2>4, <4>2
    <3>5. opened = [old EXCEPT !.collections = Append(@, [parent |-> old.active]),
                               !.open = Append(@, old.active),
                               !.active = Signed(Len(old.collections))]
      BY <3>3, <3>4
    <3> HIDE DEF new, refused, opened, full
    <3>6. /\ new.stack = old.stack /\ new.local = Locals0
          /\ new.open = Append(old.open, old.active) /\ new.active = Signed(Len(old.collections))
          /\ new.fields = old.fields /\ new.collections = more
          /\ new.reports = old.reports
      BY <3>2, <3>5 DEF TreeOK
    <3>7. GlobalStep(old.stack, item) = old.stack
      BY <2>6, GlobalOnly
    <3>8. item.tag \in MainTag /\ item.tag \notin FieldItem
      BY <2>6 DEF MainTag, FieldItem
    <3>9. QED
      BY <2>3, <2>6, <3>6, <3>7, <3>8 DEF StackStep, LocalItems, CollectionStep, FieldStep
  <2>7. CASE item.tag = "end"
    <3>1. new = Forget(CloseCollection(old))
      BY <2>1, <2>2, <2>7 DEF FieldItem, LocalTag
    <3> DEFINE closed == CloseCollection(old)
    <3>2. new = [closed EXCEPT !.local = Locals0]
      BY <3>1 DEF Forget
    <3>3. closed = IF old.open = <<>> THEN [old EXCEPT !.ok = FALSE]
                   ELSE [old EXCEPT !.active = Last(old.open), !.open = Front(@)]
      BY DEF CloseCollection
    <3> HIDE DEF new, refused, closed
    <3>4. old.open # <<>>
      <4> SUFFICES ASSUME old.open = <<>> PROVE FALSE
        OBVIOUS
      <4>1. new.ok = FALSE
        BY <3>2, <3>3 DEF TreeOK
      <4>2. QED
        BY <2>4, <4>1
    <3>6. /\ new.stack = old.stack /\ new.local = Locals0
          /\ new.open = Front(old.open) /\ new.active = Last(old.open)
          /\ new.fields = old.fields /\ new.collections = old.collections
          /\ new.reports = old.reports
      BY <3>2, <3>3, <3>4 DEF TreeOK
    <3>7. GlobalStep(old.stack, item) = old.stack
      BY <2>7, GlobalOnly
    <3>8. item.tag \in MainTag /\ item.tag \notin FieldItem
      BY <2>7 DEF MainTag, FieldItem
    <3>9. QED
      BY <2>3, <2>7, <3>4, <3>6, <3>7, <3>8 DEF StackStep, LocalItems, CollectionStep, FieldStep
  <2>8. CASE item.tag \in LocalTag
    <3>1. new = [old EXCEPT !.local = LocalStep(@, item)]
      BY <2>1, <2>2, <2>8 DEF LocalTag, FieldItem
    <3> HIDE DEF new, refused
    <3>6. /\ new.stack = old.stack /\ new.local = LocalStep(old.local, item)
          /\ new.open = old.open /\ new.active = old.active
          /\ new.fields = old.fields /\ new.collections = old.collections
          /\ new.reports = old.reports
      BY <3>1 DEF TreeOK
    <3>7. GlobalStep(old.stack, item) = old.stack
      BY <2>8, GlobalOnly DEF LocalTag
    <3>8. item.tag \notin MainTag /\ item.tag \notin FieldItem
      BY <2>8 DEF MainTag, FieldItem, LocalTag
    <3>9. item.tag \notin {"collection", "end"}
      BY <2>8 DEF LocalTag
    <3>10. QED
      BY <2>3, <3>6, <3>7, <3>8, <3>9 DEF StackStep, LocalItems, CollectionStep, FieldStep
  <2>9. CASE item.tag \notin FieldItem \cup {"collection", "end"} \cup LocalTag
    <3>1. new = [old EXCEPT !.stack = GlobalStep(@, item)]
      BY <2>1, <2>2, <2>9
    <3> HIDE DEF new, refused
    <3>6. /\ new.stack = GlobalStep(old.stack, item) /\ new.local = old.local
          /\ new.open = old.open /\ new.active = old.active
          /\ new.fields = old.fields /\ new.collections = old.collections
          /\ new.reports = old.reports
      BY <3>1 DEF TreeOK
    <3>7. LocalStep(old.local, item) = old.local
      BY <2>9 DEF LocalStep, LocalTag
    <3>8. item.tag \notin MainTag /\ item.tag \notin FieldItem
      BY <2>9 DEF MainTag
    <3>9. item.tag \notin {"collection", "end", "usage"}
      BY <2>9 DEF LocalTag
    <3>10. QED
      BY <2>3, <3>6, <3>7, <3>8, <3>9 DEF StackStep, LocalItems, CollectionStep, FieldStep
  <2>10. QED
    BY <2>5, <2>6, <2>7, <2>8, <2>9
<1>3. QED
  BY <1>1, <1>2

LEMMA RunSteps ==
  ASSUME NEW g, Run(g), NEW i \in 1..Len(descriptor)
  PROVE  /\ StackStep(g[i - 1], g[i], descriptor[i]) /\ LocalItems(g[i - 1], g[i], descriptor[i])
         /\ CollectionStep(g[i - 1], g[i], descriptor[i])
         /\ FieldStep(g[i - 1], g[i], descriptor[i])
         /\ i - 1 \in 0..Len(descriptor) /\ i \in 0..Len(descriptor)
<1>1. Len(descriptor) \in Nat
  BY RunTrees
<1>2. i - 1 \in 0..Len(descriptor) /\ i \in 0..Len(descriptor)
  BY <1>1
<1>3. /\ TreeOK(g[i - 1]) /\ g[i - 1].ok /\ g[i].ok /\ g[i] = FillItem(g[i - 1], descriptor[i])
  BY <1>2, RunTrees
<1>4. QED
  BY <1>2, <1>3, ItemStep

-----------------------------------------------------------------------------
(* Counting items.                                                          *)

One(b) == IF b THEN 1 ELSE 0

LEMMA CountTagStep ==
  ASSUME NEW tag, NEW j \in Nat \ {0}
  PROVE  /\ CountTag(tag, j, j - 1) = 0
         /\ \A k \in Nat : k >= j - 1 =>
              /\ CountTag(tag, j, k) \in Nat
              /\ CountTag(tag, j, k + 1) = CountTag(tag, j, k) + One(descriptor[k + 1].tag = tag)
<1> DEFINE Having(k) == {i \in j..k : descriptor[i].tag = tag}
<1>1. \A k : CountTag(tag, j, k) = Cardinality(Having(k))
  BY DEF CountTag
<1>2. Having(j - 1) = {}
  OBVIOUS
<1>3. ASSUME NEW k \in Nat, k >= j - 1
      PROVE  /\ Cardinality(Having(k)) \in Nat
             /\ Cardinality(Having(k + 1))
                  = Cardinality(Having(k)) + One(descriptor[k + 1].tag = tag)
  <2>1. IsFiniteSet(j..k)
    BY FS_Interval
  <2>2. Having(k) \in SUBSET (j..k) /\ k + 1 \notin Having(k)
    OBVIOUS
  <2>3. IsFiniteSet(Having(k))
    BY <2>1, <2>2, FS_Subset
  <2>4. CASE descriptor[k + 1].tag = tag
    <3>1. Having(k + 1) = Having(k) \cup {k + 1}
      BY <1>3, <2>4
    <3> HIDE DEF Having
    <3>2. QED
      BY <2>2, <2>3, <2>4, <3>1, FS_AddElement, FS_CardinalityType DEF One
  <2>5. CASE descriptor[k + 1].tag # tag
    <3>1. Having(k + 1) = Having(k)
      BY <1>3, <2>5
    <3> HIDE DEF Having
    <3>2. QED
      BY <2>3, <2>5, <3>1, FS_CardinalityType DEF One
  <2>6. QED
    BY <2>4, <2>5
<1> HIDE DEF Having
<1>4. Cardinality(Having(j - 1)) = 0
  BY <1>2, FS_EmptySet
<1>5. QED
  BY <1>1, <1>3, <1>4

(* A depth that two tags raise and lower.                                   *)
Depth(d, up, down) ==
  /\ \A i \in 0..Len(descriptor) : d[i] \in Nat
  /\ \A i \in 1..Len(descriptor) :
       d[i] + One(descriptor[i].tag = down) = d[i - 1] + One(descriptor[i].tag = up)

LEMMA DepthCounts ==
  ASSUME Len(descriptor) \in Nat, NEW d, NEW up, NEW down, Depth(d, up, down),
         NEW j \in 1..Len(descriptor)
  PROVE  \A k \in Nat : j - 1 <= k /\ k <= Len(descriptor) =>
           /\ d[k] + CountTag(down, j, k) = d[j - 1] + CountTag(up, j, k)
           /\ CountTag(down, j, k) \in Nat /\ CountTag(up, j, k) \in Nat
<1> DEFINE Done(k) == d[k] + CountTag(down, j, k) = d[j - 1] + CountTag(up, j, k)
           T == {m \in Nat : j - 1 + m <= Len(descriptor) => Done(j - 1 + m)}
<1>0. PICK n \in Nat : n = Len(descriptor)
  OBVIOUS
<1>1. (\A i \in 0..n : d[i] \in Nat) /\ j \in Nat \ {0} /\ j <= n
  BY <1>0 DEF Depth
<1>2. 0 \in T
  <2>1. CountTag(down, j, j - 1) = 0 /\ CountTag(up, j, j - 1) = 0
    BY CountTagStep
  <2>2. j - 1 + 0 = j - 1 /\ j - 1 \in 0..n
    BY <1>0
  <2>3. QED
    BY <1>1, <2>1, <2>2
<1>3. ASSUME NEW m \in Nat, m \in T PROVE m + 1 \in T
  <2> SUFFICES ASSUME j - 1 + (m + 1) <= n PROVE Done(j - 1 + (m + 1))
    BY <1>0
  <2>1. PICK k \in Nat : k = j - 1 + m
    OBVIOUS
  <2>2. /\ k + 1 = j - 1 + (m + 1) /\ k >= j - 1 /\ k + 1 \in 1..n /\ k \in 0..n
        /\ k + 1 - 1 = k
    BY <2>1
  <2>3. Done(k)
    BY <1>0, <1>3, <2>1, <2>2
  <2>4. d[k + 1] + One(descriptor[k + 1].tag = down) = d[k] + One(descriptor[k + 1].tag = up)
    BY <1>0, <2>2 DEF Depth
  <2>5. \A tag : /\ CountTag(tag, j, k) \in Nat
                 /\ CountTag(tag, j, k + 1) = CountTag(tag, j, k) + One(descriptor[k + 1].tag = tag)
    <3>1. TAKE tag
    <3>2. \A i \in Nat : i >= j - 1 =>
            /\ CountTag(tag, j, i) \in Nat
            /\ CountTag(tag, j, i + 1) = CountTag(tag, j, i) + One(descriptor[i + 1].tag = tag)
      BY <1>1, CountTagStep
    <3>3. QED
      BY <2>2, <3>2
  <2>6. d[k] \in Nat /\ d[k + 1] \in Nat /\ d[j - 1] \in Nat
    BY <1>0, <1>1, <2>2
  <2>7. One(descriptor[k + 1].tag = down) \in Nat /\ One(descriptor[k + 1].tag = up) \in Nat
    BY DEF One
  <2>8. Done(k + 1)
    <3>1. PICK a \in Nat, b \in Nat, c \in Nat, x \in Nat, y \in Nat :
            /\ a = d[k] /\ b = d[k + 1] /\ c = d[j - 1]
            /\ x = CountTag(down, j, k) /\ y = CountTag(up, j, k)
      BY <2>5, <2>6
    <3>2. PICK p \in Nat, q \in Nat :
            p = One(descriptor[k + 1].tag = down) /\ q = One(descriptor[k + 1].tag = up)
      BY <2>7
    <3>3. a + x = c + y /\ b + p = a + q
      BY <2>3, <2>4, <3>1, <3>2
    <3>4. b + (x + p) = c + (y + q)
      BY <3>3
    <3>5. QED
      BY <2>5, <3>1, <3>2, <3>4
  <2>9. QED
    BY <2>2, <2>8
<1>4. Nat \subseteq T
  <2> HIDE DEF T
  <2>1. QED
    BY <1>2, <1>3, NatSetInduction
<1>5. ASSUME NEW k \in Nat, j - 1 <= k, k <= n
      PROVE  Done(k) /\ CountTag(down, j, k) \in Nat /\ CountTag(up, j, k) \in Nat
  <2>1. k - (j - 1) \in Nat /\ j - 1 + (k - (j - 1)) = k
    BY <1>5
  <2>2. k - (j - 1) \in T
    BY <1>4, <2>1
  <2>3. Done(k)
    BY <1>0, <1>5, <2>1, <2>2
  <2>4. QED
    BY <1>1, <1>5, <2>3, CountTagStep
<1>6. QED
  BY <1>0, <1>5

-----------------------------------------------------------------------------
(* The global items.                                                        *)

SettingTag == {"page", "min", "max", "size", "count", "id"}

LEMMA StackChange ==
  ASSUME NEW old \in Seq(Settings), old # <<>>, NEW item \in AnyItem, GlobalAllowed(old, item),
         NEW new, new = GlobalStep(old, item)
  PROVE  /\ new \in Seq(Settings) /\ new # <<>> /\ Len(old) \in Nat \ {0} /\ Len(new) \in Nat \ {0}
         /\ Len(new) + One(item.tag = "pop") = Len(old) + One(item.tag = "push")
         /\ \A e \in 1..Len(old) : e < Len(new) \/ (item.tag = "pop" /\ e = Len(new))
                                      => new[e] = old[e]
         /\ \A tag \in SettingTag :
              item.tag # "pop" =>
                Last(new)[tag] = IF item.tag = tag THEN Stored(item) ELSE Last(old)[tag]
<1>1. new \in Seq(Settings) /\ new # <<>>
  BY GlobalStepOK
<1>2. Len(old) \in Nat \ {0} /\ Len(new) \in Nat \ {0}
  BY <1>1, EmptySeq
<1>3. Last(old) \in Settings /\ Last(old) = old[Len(old)] /\ Last(new) = new[Len(new)]
  BY <1>2 DEF Last
<1>4. DOMAIN Settings0 = SettingTag
  BY DEF Settings0, SettingTag
<1>5. CASE item.tag = "push"
  <2>1. new = Append(old, Last(old))
    BY <1>4, <1>5 DEF GlobalStep, SettingTag
  <2>2. /\ Len(new) = Len(old) + 1 /\ new[Len(old) + 1] = Last(old)
        /\ \A e \in 1..Len(old) : new[e] = old[e]
    BY <1>3, <2>1, AppendProperties
  <2>3. "push" \notin SettingTag
    BY DEF SettingTag
  <2>4. Last(new) = Last(old)
    BY <1>3, <2>2
  <2> HIDE DEF SettingTag
  <2>5. QED
    BY <1>1, <1>2, <1>5, <2>2, <2>3, <2>4 DEF One
<1>6. CASE item.tag = "pop"
  <2>1. new = SubSeq(old, 1, Len(old) - 1)
    BY <1>4, <1>6 DEF GlobalStep, SettingTag, Front
  <2>2. Len(old) > 1
    BY <1>6 DEF GlobalAllowed, CanPop
  <2>3. \A e \in 1..Len(old) - 1 : old[e] \in Settings
    BY <1>2
  <2>4. /\ Len(new) = Len(old) - 1
        /\ \A e \in 1..Len(old) - 1 : new[e] = old[e]
    <3>1. /\ Len(new) = IF 1 <= Len(old) - 1 THEN Len(old) - 1 - 1 + 1 ELSE 0
          /\ \A e \in 1..Len(old) - 1 - 1 + 1 : new[e] = old[1 + e - 1]
      BY <1>2, <2>1, <2>3, SubSeqProperties
    <3>2. PICK k \in Nat : k = Len(old)
      BY <1>2
    <3>3. k > 1 /\ k - 1 - 1 + 1 = k - 1 /\ 1 <= k - 1 /\ \A e \in 1..k - 1 : 1 + e - 1 = e
      BY <2>2, <3>2
    <3>4. QED
      BY <3>1, <3>2, <3>3
  <2>5. QED
    BY <1>1, <1>2, <1>6, <2>4 DEF One
<1>7. ASSUME NEW s \in Settings, new = ReplaceAt(old, Len(old), s),
             item.tag \notin {"push", "pop"},
             \A tag \in SettingTag : s[tag] = IF item.tag = tag THEN Stored(item) ELSE Last(old)[tag]
      PROVE  /\ Len(new) + One(item.tag = "pop") = Len(old) + One(item.tag = "push")
             /\ \A e \in 1..Len(old) : e < Len(new) => new[e] = old[e]
             /\ \A tag \in SettingTag :
                  Last(new)[tag] = IF item.tag = tag THEN Stored(item) ELSE Last(old)[tag]
  <2>1. new = [old EXCEPT ![Len(old)] = s]
    BY <1>7 DEF ReplaceAt
  <2>2. Len(old) \in 1..Len(old)
    BY <1>2
  <2>3. Len(new) = Len(old) /\ \A e \in 1..Len(old) : new[e] = IF e = Len(old) THEN s ELSE old[e]
    BY <1>7, <2>1, <2>2, ExceptSeq
  <2>4. Last(new) = s
    BY <1>3, <2>2, <2>3
  <2>5. \A e \in 1..Len(old) : e < Len(new) => new[e] = old[e]
    <3>1. PICK k \in Nat : k = Len(old)
      BY <1>2
    <3>2. \A e \in 1..k : e < k => e # k
      OBVIOUS
    <3>3. QED
      BY <2>3, <3>1, <3>2
  <2> HIDE DEF SettingTag
  <2>6. QED
    BY <1>7, <2>3, <2>4, <2>5 DEF One
<1>8. CASE item.tag \in SettingTag
  <2> DEFINE s == [Last(old) EXCEPT ![item.tag] = Stored(item)]
  <2>1. new = ReplaceAt(old, Len(old), s)
    BY <1>4, <1>8 DEF GlobalStep, SettingTag
  <2>2. \A tag \in SettingTag : s[tag] = IF item.tag = tag THEN Stored(item) ELSE Last(old)[tag]
    <3>1. Last(old) \in [SettingTag -> Data]
      BY <1>3 DEF Settings, SettingTag
    <3> HIDE DEF SettingTag
    <3>2. QED
      BY <1>8, <3>1
  <2>3. s \in Settings
    <3>1. Last(old) \in [SettingTag -> Data] /\ Last(old).count \in 0..Counter - 1
      BY <1>3 DEF Settings, SettingTag
    <3>2. Stored(item) \in Data /\ (item.tag = "count" => Stored(item) \in 0..Counter - 1)
      BY StoredOK
    <3>3. s \in [SettingTag -> Data]
      BY <1>8, <3>1, <3>2
    <3>4. s.count = IF item.tag = "count" THEN Stored(item) ELSE Last(old).count
      BY <2>2 DEF SettingTag
    <3>5. QED
      BY <3>1, <3>2, <3>3, <3>4 DEF Settings, SettingTag
  <2>4. item.tag \notin {"push", "pop"}
    BY <1>8 DEF SettingTag
  <2> HIDE DEF s, SettingTag
  <2>5. QED
    BY <1>1, <1>2, <1>7, <2>1, <2>2, <2>3, <2>4
<1>9. CASE item.tag \notin SettingTag \cup {"push", "pop"}
  <2>1. new = old
    BY <1>9, GlobalOnly DEF SettingTag
  <2> HIDE DEF SettingTag
  <2>2. QED
    BY <1>1, <1>2, <1>9, <2>1 DEF One
<1>10. QED
  BY <1>5, <1>6, <1>8, <1>9

StackDepth(g) == [i \in 0..Len(descriptor) |-> Len(g[i].stack)]

LEMMA RunStack ==
  ASSUME NEW g, Run(g)
  PROVE  /\ Depth(StackDepth(g), "push", "pop")
         /\ \A i \in 0..Len(descriptor) :
              g[i].stack \in Seq(Settings) /\ StackDepth(g)[i] = Len(g[i].stack)
              /\ StackDepth(g)[i] \in Nat \ {0} /\ Last(g[i].stack) = g[i].stack[StackDepth(g)[i]]
         /\ \A i \in 1..Len(descriptor) :
              /\ \A e \in Nat \ {0} :
                    e <= StackDepth(g)[i - 1] /\ e < StackDepth(g)[i] => g[i].stack[e] = g[i - 1].stack[e]
              /\ descriptor[i].tag = "pop" => g[i].stack[StackDepth(g)[i]] = g[i - 1].stack[StackDepth(g)[i]]
              /\ \A tag \in SettingTag :
                   descriptor[i].tag # "pop" =>
                     Last(g[i].stack)[tag] = IF descriptor[i].tag = tag THEN Stored(descriptor[i])
                                             ELSE Last(g[i - 1].stack)[tag]
<1> DEFINE d == StackDepth(g)
<1>1. \A i \in 0..Len(descriptor) :
        /\ g[i].stack \in Seq(Settings) /\ g[i].stack # <<>> /\ d[i] = Len(g[i].stack)
        /\ d[i] \in Nat \ {0} /\ Last(g[i].stack) = g[i].stack[d[i]]
  <2>1. TAKE i \in 0..Len(descriptor)
  <2>2. g[i].stack \in Seq(Settings) /\ g[i].stack # <<>> /\ d[i] = Len(g[i].stack)
    BY RunTrees DEF TreeOK, StackDepth
  <2> HIDE DEF d
  <2>3. d[i] \in Nat \ {0}
    BY <2>2, EmptySeq
  <2>4. QED
    BY <2>2, <2>3 DEF Last
<1> HIDE DEF d
<1>2. ASSUME NEW i \in 1..Len(descriptor)
      PROVE  /\ d[i] + One(descriptor[i].tag = "pop") = d[i - 1] + One(descriptor[i].tag = "push")
             /\ \A e \in Nat \ {0} :
                   e <= d[i - 1] /\ e < d[i] => g[i].stack[e] = g[i - 1].stack[e]
             /\ descriptor[i].tag = "pop" => g[i].stack[d[i]] = g[i - 1].stack[d[i]]
             /\ \A tag \in SettingTag :
                  descriptor[i].tag # "pop" =>
                    Last(g[i].stack)[tag] = IF descriptor[i].tag = tag THEN Stored(descriptor[i])
                                            ELSE Last(g[i - 1].stack)[tag]
  <2>1. i - 1 \in 0..Len(descriptor) /\ i \in 0..Len(descriptor) /\ descriptor[i] \in AnyItem
    BY RunSteps, RunTrees
  <2>2. /\ GlobalAllowed(g[i - 1].stack, descriptor[i])
        /\ g[i].stack = GlobalStep(g[i - 1].stack, descriptor[i])
    BY RunSteps DEF StackStep
  <2>3. /\ g[i - 1].stack \in Seq(Settings) /\ g[i - 1].stack # <<>>
        /\ d[i] = Len(g[i].stack) /\ d[i - 1] = Len(g[i - 1].stack) /\ d[i - 1] \in Nat
    BY <1>1, <2>1
  <2>4. /\ d[i] + One(descriptor[i].tag = "pop") = d[i - 1] + One(descriptor[i].tag = "push")
        /\ \A e \in 1..d[i - 1] : e < d[i] \/ (descriptor[i].tag = "pop" /\ e = d[i])
                                   => g[i].stack[e] = g[i - 1].stack[e]
        /\ \A tag \in SettingTag :
             descriptor[i].tag # "pop" =>
               Last(g[i].stack)[tag] = IF descriptor[i].tag = tag THEN Stored(descriptor[i])
                                       ELSE Last(g[i - 1].stack)[tag]
    BY <2>1, <2>2, <2>3, StackChange
  <2>5. \A e \in Nat \ {0} :
          e <= d[i - 1] /\ e < d[i] => g[i].stack[e] = g[i - 1].stack[e]
    <3>1. TAKE e \in Nat \ {0}
    <3>2. HAVE e <= d[i - 1] /\ e < d[i]
    <3>3. e \in 1..d[i - 1]
      BY <2>3, <3>2
    <3>4. QED
      BY <2>4, <3>2, <3>3
  <2>6. descriptor[i].tag = "pop" => g[i].stack[d[i]] = g[i - 1].stack[d[i]]
    <3>1. HAVE descriptor[i].tag = "pop"
    <3>2. d[i] \in Nat \ {0} /\ d[i - 1] \in Nat
      BY <1>1, <2>1
    <3>3. d[i] + 1 = d[i - 1]
      <4>1. One(descriptor[i].tag = "pop") = 1 /\ One(descriptor[i].tag = "push") = 0
        BY <3>1 DEF One
      <4>2. QED
        BY <2>4, <3>2, <4>1
    <3>4. d[i] \in 1..d[i - 1]
      BY <3>2, <3>3
    <3>5. QED
      BY <2>4, <3>1, <3>4
  <2>7. QED
    BY <2>4, <2>5, <2>6
<1>3. Depth(d, "push", "pop")
  BY <1>1, <1>2 DEF Depth
<1>4. QED
  BY <1>1, <1>2, <1>3 DEF d

(* Positions where a tag is given, and nothing is popped below since.       *)
GivenBy(d, tag, i) ==
  {j \in 1..i : descriptor[j].tag = tag /\ \A k \in j..i : d[k] >= d[j - 1]}

LEMMA GivenByDepth ==
  ASSUME NEW g, Run(g), NEW i \in 0..Len(descriptor), NEW tag
  PROVE  GivenAt(tag, i + 1) = GivenBy(StackDepth(g), tag, i)
<1> DEFINE d == StackDepth(g)
<1>1. Len(descriptor) \in Nat /\ Depth(d, "push", "pop")
  BY RunTrees, RunStack
<1> HIDE DEF d
<1>2. i + 1 - 1 = i
  BY <1>1
<1>3. ASSUME NEW j \in 1..i, NEW k \in j..i
      PROVE  CountTag("pop", j, k) <= CountTag("push", j, k) <=> d[k] >= d[j - 1]
  <2>1. /\ j \in 1..Len(descriptor) /\ k \in Nat /\ j - 1 <= k /\ k <= Len(descriptor)
        /\ k \in 0..Len(descriptor) /\ j - 1 \in 0..Len(descriptor)
    BY <1>1
  <2>2. \A m \in Nat : j - 1 <= m /\ m <= Len(descriptor) =>
          /\ d[m] + CountTag("pop", j, m) = d[j - 1] + CountTag("push", j, m)
          /\ CountTag("pop", j, m) \in Nat /\ CountTag("push", j, m) \in Nat
    BY <1>1, <2>1, DepthCounts
  <2>3. d[k] \in Nat /\ d[j - 1] \in Nat
    BY <1>1, <2>1 DEF Depth
  <2>4. PICK a \in Nat, b \in Nat, x \in Nat, y \in Nat :
          /\ a = d[k] /\ b = d[j - 1] /\ x = CountTag("pop", j, k) /\ y = CountTag("push", j, k)
    BY <2>1, <2>2, <2>3
  <2>5. a + x = b + y
    BY <2>1, <2>2, <2>4
  <2>6. x <= y <=> a >= b
    BY <2>5
  <2>7. QED
    BY <2>4, <2>6
<1>4. \A j \in 1..i : (\A k \in j..i : CountTag("pop", j, k) <= CountTag("push", j, k))
                        <=> (\A k \in j..i : d[k] >= d[j - 1])
  BY <1>3
<1>5. QED
  BY <1>2, <1>4 DEF GivenAt, GivenBy, d

(* What is below the top of the stack was the top when the stack was that   *)
(* deep, and has not been uncovered since.                                  *)
Below(g, d, i) ==
  \A e \in Nat \ {0} : e < d[i] =>
    \E m \in 0..i : /\ m < i /\ d[m] = e /\ g[i].stack[e] = Last(g[m].stack)
                    /\ \A k \in m + 1..i : d[k] > e

LEMMA StackBelow ==
  ASSUME NEW g, Run(g)
  PROVE  \A i \in 0..Len(descriptor) : Below(g, StackDepth(g), i)
<1> DEFINE d == StackDepth(g)
           T == {i \in Nat : i <= Len(descriptor) => Below(g, d, i)}
<1>1. PICK n \in Nat : n = Len(descriptor)
  BY RunTrees
<1>2. /\ Depth(d, "push", "pop")
      /\ \A i \in 0..n : d[i] \in Nat \ {0} /\ Last(g[i].stack) = g[i].stack[d[i]]
  BY <1>1, RunStack
<1>2a. ASSUME NEW i \in 1..n
       PROVE  \A e \in Nat \ {0} :
                e <= d[i - 1] /\ e < d[i] => g[i].stack[e] = g[i - 1].stack[e]
  BY <1>1, RunStack
<1>3. d[0] = 1
  <2>1. \E room \in Rooms : g[0] = Tree0(room)
    BY RunTrees
  <2>2. g[0].stack = <<Settings0>>
    BY <2>1 DEF Tree0
  <2>3. d[0] = Len(g[0].stack)
    BY <1>1 DEF StackDepth
  <2>4. QED
    BY <2>2, <2>3
<1> HIDE DEF d
<1>4. 0 \in T
  BY <1>3 DEF Below
<1>5. ASSUME NEW h \in Nat, h \in T PROVE h + 1 \in T
  <2> SUFFICES ASSUME h + 1 <= n PROVE Below(g, d, h + 1)
    BY <1>1
  <2>1. PICK i \in 1..n : i = h + 1 /\ i - 1 = h
    OBVIOUS
  <2>2. Below(g, d, h)
    BY <1>1, <1>5
  <2>3. d[i] \in Nat \ {0} /\ d[h] \in Nat \ {0} /\ Last(g[h].stack) = g[h].stack[d[h]]
    BY <1>2, <2>1
  <2>4. \/ d[i] = d[h] + 1
        \/ d[i] = d[h]
        \/ d[i] = d[h] - 1
    <3>1. d[i] + One(descriptor[i].tag = "pop") = d[h] + One(descriptor[i].tag = "push")
      BY <1>1, <1>2, <2>1 DEF Depth
    <3>2. QED
      BY <2>3, <3>1 DEF One
  <2>5. ASSUME NEW e \in Nat \ {0}, e < d[i]
        PROVE  \E m \in 0..i : /\ m < i /\ d[m] = e /\ g[i].stack[e] = Last(g[m].stack)
                               /\ \A k \in m + 1..i : d[k] > e
    <3>1. e <= d[h] /\ g[i].stack[e] = g[h].stack[e]
      <4>1. e <= d[h]
        BY <2>3, <2>4, <2>5
      <4>2. e <= d[i - 1]
        BY <2>1, <4>1
      <4>3. g[i].stack[e] = g[i - 1].stack[e]
        BY <1>2a, <2>5, <4>2
      <4>4. QED
        BY <2>1, <4>1, <4>3
    <3>2. CASE e < d[h]
      <4>1. PICK m \in 0..h : /\ m < h /\ d[m] = e /\ g[h].stack[e] = Last(g[m].stack)
                              /\ \A k \in m + 1..h : d[k] > e
        BY <2>2, <3>2 DEF Below
      <4>2. m \in 0..i /\ m < i
        BY <2>1
      <4>3. \A k \in m + 1..i : d[k] > e
        <5>1. TAKE k \in m + 1..i
        <5>2. k = i \/ k \in m + 1..h
          BY <2>1
        <5>3. QED
          BY <2>3, <2>5, <4>1, <5>2
      <4>4. QED
        BY <3>1, <4>1, <4>2, <4>3
    <3>3. CASE e = d[h]
      <4>1. h \in 0..i /\ h < i /\ g[i].stack[e] = Last(g[h].stack)
        BY <2>1, <2>3, <3>1, <3>3
      <4>2. \A k \in h + 1..i : d[k] > e
        <5>1. \A k \in h + 1..i : k = i
          BY <2>1
        <5>2. QED
          BY <2>3, <2>5, <5>1
      <4>3. QED
        BY <3>3, <4>1, <4>2
    <3>4. QED
      BY <2>3, <3>1, <3>2, <3>3
  <2>6. QED
    BY <2>1, <2>5 DEF Below
<1>6. Nat \subseteq T
  <2> HIDE DEF T
  <2>1. QED
    BY <1>4, <1>5, NatSetInduction
<1>7. QED
  BY <1>1, <1>6 DEF d

LEMMA MaxIs ==
  ASSUME NEW S \in SUBSET Int, NEW x \in S, \A y \in S : y <= x
  PROVE  Max(S) = x
<1>1. \A z \in S : (\A y \in S : z >= y) => z = x
  <2>1. TAKE z \in S
  <2>2. HAVE \A y \in S : z >= y
  <2>3. z >= x /\ z <= x /\ z \in Int /\ x \in Int
    BY <2>2
  <2>4. QED
    BY <2>3
<1>2. \A y \in S : x >= y
  <2>1. TAKE y \in S
  <2>2. y \in Int /\ x \in Int /\ y <= x
    OBVIOUS
  <2>3. QED
    BY <2>2
<1>3. QED
  BY <1>1, <1>2 DEF Max

(* A number that fits is kept as it is.                                    *)
LEMMA StoredFits ==
  ASSUME NEW g, Run(g), NEW i \in 1..Len(descriptor)
  PROVE  Stored(descriptor[i]) = descriptor[i].data
<1>1. PICK item \in AnyItem : item = descriptor[i]
  BY RunTrees
<1>2. /\ item.tag \in {"count", "id"} => item.data < Counter
      /\ item.tag = "page" => item.data < SizeLimit
  <2>1. i \in DOMAIN descriptor
    BY DEF Run
  <2>2. QED
    BY <1>1, <2>1 DEF Run, NumbersFit
<1>3. /\ Counter \in Nat \ {0} /\ SizeLimit \in Nat \ {0}
      /\ item.tag \in {"count", "id", "page"} => item.data \in Nat
  BY HidDescriptorAssumption
<1>4. CASE item.tag \in {"count", "id"}
  <2>1. item.data % Counter = item.data
    BY <1>2, <1>3, <1>4, Remainders
  <2>2. QED
    BY <1>1, <1>4, <2>1 DEF Stored
<1>5. CASE item.tag = "page"
  <2>1. item.data % SizeLimit = item.data
    BY <1>2, <1>3, <1>5, Remainders
  <2>2. QED
    BY <1>1, <1>5, <2>1 DEF Stored
<1>6. CASE item.tag \notin {"count", "id", "page"}
  BY <1>1, <1>6 DEF Stored
<1>7. QED
  BY <1>4, <1>5, <1>6

(* The current settings are those the items give, through every push and    *)
(* pop.                                                                     *)
LEMMA SettingsGiven ==
  ASSUME NEW g, Run(g)
  PROVE  \A i \in 0..Len(descriptor) : \A tag \in SettingTag :
           Last(g[i].stack)[tag] = SettingAt(tag, i + 1)
<1> DEFINE d == StackDepth(g)
           Given(i) == \A tag \in SettingTag : Last(g[i].stack)[tag] = SettingAt(tag, i + 1)
           T == {h \in Nat : \A i \in 0..Len(descriptor) : i <= h => Given(i)}
<1>1. PICK n \in Nat : n = Len(descriptor)
  BY RunTrees
<1>2. /\ Depth(d, "push", "pop")
      /\ \A i \in 0..n : d[i] \in Nat \ {0} /\ Last(g[i].stack) = g[i].stack[d[i]]
      /\ \A i \in 1..n :
           /\ \A e \in Nat \ {0} :
                   e <= d[i - 1] /\ e < d[i] => g[i].stack[e] = g[i - 1].stack[e]
           /\ descriptor[i].tag = "pop" => g[i].stack[d[i]] = g[i - 1].stack[d[i]]
           /\ \A tag \in SettingTag :
                descriptor[i].tag # "pop" =>
                  Last(g[i].stack)[tag] = IF descriptor[i].tag = tag THEN Stored(descriptor[i])
                                          ELSE Last(g[i - 1].stack)[tag]
  BY <1>1, RunStack
<1>3. \A i \in 0..n : \A tag : GivenAt(tag, i + 1) = GivenBy(d, tag, i)
  BY <1>1, GivenByDepth
<1>4. \A i \in 0..n : Below(g, d, i)
  BY <1>1, StackBelow
<1>5. Given(0)
  <2>1. \E room \in Rooms : g[0] = Tree0(room)
    BY RunTrees
  <2>2. Last(g[0].stack) = Settings0
    BY <2>1 DEF Tree0, Last
  <2>3. \A tag \in SettingTag : Settings0[tag] = 0
    BY DEF SettingTag, Settings0
  <2>4. \A tag : GivenAt(tag, 0 + 1) = {}
    <3>1. 1..0 = {}
      OBVIOUS
    <3>2. \A tag : GivenBy(d, tag, 0) = {}
      BY <3>1 DEF GivenBy
    <3>3. QED
      BY <1>1, <1>3, <3>2
  <2> HIDE DEF SettingTag
  <2>5. QED
    BY <2>2, <2>3, <2>4 DEF SettingAt
<1> HIDE DEF d
<1>6. ASSUME NEW i \in 1..n, \A m \in 0..n : m < i => Given(m) PROVE Given(i)
  <2>1. PICK h \in 0..n : h = i - 1 /\ i = h + 1
    OBVIOUS
  <2>2. d[i] \in Nat \ {0} /\ d[h] \in Nat \ {0} /\ i \in 0..n
    BY <1>2, <2>1
  <2>3. d[i] + One(descriptor[i].tag = "pop") = d[h] + One(descriptor[i].tag = "push")
    BY <1>1, <1>2, <2>1 DEF Depth
  <2>4. Given(h)
    BY <1>6, <2>1
  <2>5. CASE descriptor[i].tag = "pop"
    <3>1. d[i] = d[h] - 1 /\ d[i] < d[h]
      BY <2>2, <2>3, <2>5 DEF One
    <3>2. PICK m \in 0..h : /\ m < h /\ d[m] = d[i] /\ g[h].stack[d[i]] = Last(g[m].stack)
                            /\ \A k \in m + 1..h : d[k] > d[i]
      BY <1>4, <2>2, <3>1 DEF Below
    <3>3. m \in 0..n /\ m < i
      BY <2>1, <3>2
    <3>4. Last(g[i].stack) = Last(g[m].stack)
      <4>1. d[i] <= d[i - 1]
        BY <2>1, <2>2, <3>1
      <4>2. g[i].stack[d[i]] = g[i - 1].stack[d[i]]
        BY <1>2, <2>2, <2>5, <4>1
      <4>3. QED
        BY <1>2, <2>1, <2>2, <3>2, <4>2
    <3>5. ASSUME NEW tag \in SettingTag PROVE GivenBy(d, tag, i) = GivenBy(d, tag, m)
      <4>1. ASSUME NEW j \in GivenBy(d, tag, i) PROVE j \in GivenBy(d, tag, m)
        <5>1. j \in 1..i /\ descriptor[j].tag = tag /\ \A k \in j..i : d[k] >= d[j - 1]
          BY DEF GivenBy
        <5>2. j \notin m + 1..i
          <6> SUFFICES ASSUME j \in m + 1..i PROVE FALSE
            OBVIOUS
          <6>1. j # i
            BY <2>5, <5>1 DEF SettingTag
          <6>2. j \in m + 1..h /\ j \in 1..n /\ j - 1 \in 0..n /\ j \in 0..n
            BY <2>1, <6>1
          <6>3. d[j] > d[i]
            BY <3>2, <6>2
          <6>4. d[j - 1] = d[j]
            <7>1. d[j] + One(descriptor[j].tag = "pop") = d[j - 1] + One(descriptor[j].tag = "push")
              BY <1>1, <1>2, <6>2 DEF Depth
            <7>2. descriptor[j].tag \notin {"push", "pop"}
              BY <5>1 DEF SettingTag
            <7>3. d[j] \in Nat /\ d[j - 1] \in Nat
              BY <1>2, <6>2
            <7>4. QED
              BY <7>1, <7>2, <7>3 DEF One
          <6>5. d[i] >= d[j - 1]
            BY <5>1
          <6>6. d[j] \in Nat
            BY <1>2, <6>2
          <6>7. QED
            BY <2>2, <6>3, <6>4, <6>5, <6>6
        <5>3. j \in 1..m /\ \A k \in j..m : k \in j..i
          BY <3>3, <5>1, <5>2
        <5>4. QED
          BY <5>1, <5>3 DEF GivenBy
      <4>2. ASSUME NEW j \in GivenBy(d, tag, m) PROVE j \in GivenBy(d, tag, i)
        <5>1. j \in 1..m /\ descriptor[j].tag = tag /\ \A k \in j..m : d[k] >= d[j - 1]
          BY DEF GivenBy
        <5>2. j - 1 \in 0..n /\ m \in j..m /\ j \in 1..i
          BY <3>3, <5>1
        <5>3. d[m] >= d[j - 1] /\ d[j - 1] \in Nat
          BY <1>2, <5>1, <5>2
        <5>4. ASSUME NEW k \in j..i PROVE d[k] >= d[j - 1]
          <6>1. k \in 0..n
            BY <3>3, <5>1
          <6>2. d[k] \in Nat
            BY <1>2, <6>1
          <6>3. k \in j..m \/ k \in m + 1..h \/ k = i
            BY <2>1, <3>3
          <6>4. QED
            BY <2>2, <3>2, <5>1, <5>3, <6>2, <6>3
        <5>5. QED
          BY <5>1, <5>2, <5>4 DEF GivenBy
      <4>3. QED
        BY <4>1, <4>2
    <3>6. Given(m)
      BY <1>6, <3>3
    <3>7. \A tag \in SettingTag : SettingAt(tag, i + 1) = SettingAt(tag, m + 1)
      <4>1. TAKE tag \in SettingTag
      <4>2. GivenAt(tag, i + 1) = GivenAt(tag, m + 1)
        BY <1>3, <2>2, <3>3, <3>5
      <4>3. QED
        BY <4>2 DEF SettingAt
    <3>8. QED
      BY <3>4, <3>6, <3>7
  <2>6. CASE descriptor[i].tag # "pop"
    <3>1. d[i] >= d[h]
      BY <2>2, <2>3, <2>6 DEF One
    <3>2. ASSUME NEW tag \in SettingTag PROVE Last(g[i].stack)[tag] = SettingAt(tag, i + 1)
      <4>1. Last(g[i].stack)[tag] = IF descriptor[i].tag = tag THEN descriptor[i].data
                                    ELSE Last(g[h].stack)[tag]
        <5>1. Stored(descriptor[i]) = descriptor[i].data
          BY <1>1, StoredFits
        <5>2. QED
          BY <1>2, <2>1, <2>6, <5>1
      <4>2. CASE descriptor[i].tag = tag
        <5>1. i \in GivenBy(d, tag, i)
          <6>1. \A k \in i..i : k = i
            OBVIOUS
          <6>2. QED
            BY <2>1, <3>1, <4>2, <6>1 DEF GivenBy
        <5>2. GivenBy(d, tag, i) \in SUBSET Int /\ \A j \in GivenBy(d, tag, i) : j <= i
          BY DEF GivenBy
        <5>3. Max(GivenBy(d, tag, i)) = i
          BY <5>1, <5>2, MaxIs
        <5>4. SettingAt(tag, i + 1) = descriptor[i].data
          BY <1>3, <2>2, <5>1, <5>3 DEF SettingAt
        <5>5. QED
          BY <4>1, <4>2, <5>4
      <4>3. CASE descriptor[i].tag # tag
        <5>1. ASSUME NEW j \in GivenBy(d, tag, i) PROVE j \in GivenBy(d, tag, h)
          <6>1. j \in 1..i /\ descriptor[j].tag = tag /\ \A k \in j..i : d[k] >= d[j - 1]
            BY DEF GivenBy
          <6>2. j \in 1..h /\ \A k \in j..h : k \in j..i
            BY <2>1, <4>3, <6>1
          <6>3. QED
            BY <6>1, <6>2 DEF GivenBy
        <5>2. ASSUME NEW j \in GivenBy(d, tag, h) PROVE j \in GivenBy(d, tag, i)
          <6>1. j \in 1..h /\ descriptor[j].tag = tag /\ \A k \in j..h : d[k] >= d[j - 1]
            BY DEF GivenBy
          <6>2. j - 1 \in 0..n /\ h \in j..h /\ j \in 1..i
            BY <2>1, <6>1
          <6>3. d[j - 1] \in Nat /\ d[h] >= d[j - 1]
            BY <1>2, <6>1, <6>2
          <6>4. \A k \in j..i : k \in j..h \/ k = i
            BY <2>1
          <6>5. d[i] >= d[j - 1]
            BY <2>2, <3>1, <6>3
          <6>6. QED
            BY <6>1, <6>2, <6>4, <6>5 DEF GivenBy
        <5>3. GivenAt(tag, i + 1) = GivenAt(tag, h + 1)
          <6>1. GivenBy(d, tag, i) = GivenBy(d, tag, h)
            BY <5>1, <5>2
          <6>2. QED
            BY <1>3, <2>2, <6>1
        <5>4. SettingAt(tag, i + 1) = SettingAt(tag, h + 1)
          BY <5>3 DEF SettingAt
        <5>5. QED
          BY <2>4, <4>1, <4>3, <5>4
      <4>4. QED
        BY <4>2, <4>3
    <3>3. QED
      BY <3>2
  <2>7. QED
    BY <2>5, <2>6
<1> HIDE DEF Given
<1>7. 0 \in T
  BY <1>5
<1>8. ASSUME NEW h \in Nat, h \in T PROVE h + 1 \in T
  <2>1. ASSUME NEW i \in 0..n, i <= h + 1 PROVE Given(i)
    <3>1. CASE i <= h
      BY <1>1, <1>8, <3>1
    <3>2. CASE i = h + 1
      <4>1. \A m \in 0..n : m < i => Given(m)
        BY <1>1, <1>8, <3>2
      <4>2. i \in 1..n
        BY <3>2
      <4>3. QED
        BY <1>6, <4>1, <4>2
    <3>3. QED
      BY <2>1, <3>1, <3>2
  <2>2. QED
    BY <1>1, <2>1
<1>9. ASSUME NEW i \in 0..n PROVE Given(i)
  <2>1. i \in T
    <3> HIDE DEF T
    <3>1. i \in Nat
      OBVIOUS
    <3>2. QED
      BY <1>7, <1>8, <3>1, NatSetInduction
  <2>2. QED
    BY <1>1, <2>1
<1>10. QED
  BY <1>1, <1>9 DEF Given

-----------------------------------------------------------------------------
(* The collections.                                                         *)

OpenDepth(g) == [i \in 0..Len(descriptor) |-> Len(g[i].open)]

(* How an item changes the collections that are open.                       *)
OpenStep(g, o, i) ==
  /\ descriptor[i].tag = "collection" =>
       /\ \A e \in 1..o[i - 1] : g[i].open[e] = g[i - 1].open[e]
       /\ g[i].open[o[i]] = g[i - 1].active
       /\ g[i].active = Signed(Len(g[i - 1].collections))
  /\ descriptor[i].tag = "end" =>
       /\ \A e \in 1..o[i] : g[i].open[e] = g[i - 1].open[e]
       /\ g[i].active = g[i - 1].open[o[i - 1]]
  /\ descriptor[i].tag \notin {"collection", "end"} =>
       g[i].open = g[i - 1].open /\ g[i].active = g[i - 1].active

LEMMA RunOpen ==
  ASSUME NEW g, Run(g)
  PROVE  /\ Depth(OpenDepth(g), "collection", "end")
         /\ OpenDepth(g)[0] = 0 /\ g[0].active = -1 /\ Len(g[0].collections) = 0
         /\ \A i \in 0..Len(descriptor) : Len(g[i].collections) \in Nat
         /\ \A i \in 1..Len(descriptor) :
              /\ OpenStep(g, OpenDepth(g), i)
              /\ Len(g[i].collections)
                   = Len(g[i - 1].collections) + One(descriptor[i].tag = "collection")
<1> DEFINE o == OpenDepth(g)
<1>1. \A i \in 0..Len(descriptor) :
        /\ g[i].open \in Seq(Int) /\ o[i] = Len(g[i].open) /\ o[i] \in Nat
        /\ g[i].collections \in Seq([parent : Int]) /\ Len(g[i].collections) \in Nat
        /\ g[i].active \in Int
  <2>1. TAKE i \in 0..Len(descriptor)
  <2>2. /\ g[i].open \in Seq(Int) /\ o[i] = Len(g[i].open) /\ g[i].active \in Int
        /\ g[i].collections \in Seq([parent : Int])
    BY RunTrees DEF TreeOK, OpenDepth
  <2> HIDE DEF o
  <2>3. QED
    BY <2>2
<1>2. o[0] = 0 /\ g[0].active = -1 /\ Len(g[0].collections) = 0
  <2>1. \E room \in Rooms : g[0] = Tree0(room)
    BY RunTrees
  <2>2. g[0].open = <<>> /\ g[0].active = -1 /\ g[0].collections = <<>>
    BY <2>1 DEF Tree0
  <2>3. 0 \in 0..Len(descriptor)
    BY RunTrees
  <2>4. o[0] = Len(g[0].open)
    BY <1>1, <2>3
  <2> HIDE DEF o
  <2>5. QED
    BY <2>2, <2>4
<1> HIDE DEF o
<1>3. ASSUME NEW i \in 1..Len(descriptor)
      PROVE  /\ OpenStep(g, o, i)
             /\ o[i] + One(descriptor[i].tag = "end") = o[i - 1] + One(descriptor[i].tag = "collection")
             /\ Len(g[i].collections)
                  = Len(g[i - 1].collections) + One(descriptor[i].tag = "collection")
  <2>1. i - 1 \in 0..Len(descriptor) /\ i \in 0..Len(descriptor)
    BY RunSteps
  <2>2. CollectionStep(g[i - 1], g[i], descriptor[i])
    BY RunSteps
  <2>3. PICK old, new, a, c : /\ old = g[i - 1].open /\ new = g[i].open /\ a = g[i - 1].active
                              /\ c = g[i - 1].collections
    OBVIOUS
  <2>4. /\ old \in Seq(Int) /\ new \in Seq(Int) /\ a \in Int /\ o[i] = Len(new)
        /\ o[i - 1] = Len(old) /\ c \in Seq([parent : Int])
    BY <1>1, <2>1, <2>3
  <2>5. CASE descriptor[i].tag = "collection"
    <3>1. /\ new = Append(old, a) /\ g[i].active = Signed(Len(c))
          /\ g[i].collections = Append(c, [parent |-> a])
      BY <2>2, <2>3, <2>5 DEF CollectionStep
    <3>2. /\ Len(new) = Len(old) + 1 /\ new[Len(old) + 1] = a
          /\ \A e \in 1..Len(old) : new[e] = old[e]
      BY <2>4, <3>1, AppendProperties
    <3>3. Len(g[i].collections) = Len(c) + 1
      <4>1. [parent |-> a] \in [parent : Int]
        BY <2>4
      <4>2. QED
        BY <2>4, <3>1, <4>1, AppendProperties
    <3>4. OpenStep(g, o, i)
      BY <2>3, <2>4, <2>5, <3>1, <3>2 DEF OpenStep
    <3>5. QED
      BY <2>3, <2>4, <2>5, <3>2, <3>3, <3>4 DEF One
  <2>6. CASE descriptor[i].tag = "end"
    <3>1. /\ old # <<>> /\ new = Front(old) /\ g[i].active = Last(old)
          /\ g[i].collections = c
      BY <2>2, <2>3, <2>6 DEF CollectionStep
    <3>2. Len(old) \in Nat \ {0}
      BY <2>4, <3>1, EmptySeq
    <3>3. Len(new) = Len(old) - 1 /\ \A e \in 1..Len(old) - 1 : new[e] = old[e]
      <4>1. new = SubSeq(old, 1, Len(old) - 1)
        BY <3>1 DEF Front
      <4>2. \A e \in 1..Len(old) - 1 : old[e] \in Int
        BY <2>4, <3>2
      <4>3. /\ Len(new) = IF 1 <= Len(old) - 1 THEN Len(old) - 1 - 1 + 1 ELSE 0
            /\ \A e \in 1..Len(old) - 1 - 1 + 1 : new[e] = old[1 + e - 1]
        BY <3>2, <4>1, <4>2, SubSeqProperties
      <4>4. PICK k \in Nat \ {0} : k = Len(old)
        BY <3>2
      <4>5. k - 1 - 1 + 1 = k - 1 /\ (~(1 <= k - 1) => k - 1 = 0) /\ \A e \in 1..k - 1 : 1 + e - 1 = e
        OBVIOUS
      <4>6. QED
        BY <4>3, <4>4, <4>5
    <3>4. Last(old) = old[Len(old)]
      BY DEF Last
    <3>5. OpenStep(g, o, i)
      BY <2>3, <2>4, <2>6, <3>1, <3>3, <3>4 DEF OpenStep
    <3>6. QED
      BY <1>1, <2>1, <2>3, <2>4, <2>6, <3>1, <3>2, <3>3, <3>5 DEF One
  <2>7. CASE descriptor[i].tag \notin {"collection", "end"}
    <3>1. new = old /\ g[i].active = a /\ g[i].collections = c
      BY <2>2, <2>3, <2>7 DEF CollectionStep
    <3>2. OpenStep(g, o, i)
      BY <2>3, <2>7, <3>1 DEF OpenStep
    <3>3. o[i] = o[i - 1] /\ o[i] \in Nat /\ Len(c) \in Nat
      BY <1>1, <2>1, <2>3, <2>4, <3>1
    <3>4. One(descriptor[i].tag = "end") = 0 /\ One(descriptor[i].tag = "collection") = 0
      BY <2>7 DEF One
    <3>5. QED
      BY <2>3, <3>1, <3>2, <3>3, <3>4
  <2>8. QED
    BY <2>5, <2>6, <2>7
<1>4. Depth(o, "collection", "end")
  BY <1>1, <1>3 DEF Depth
<1>5. QED
  BY <1>1, <1>2, <1>3, <1>4 DEF o

OpenBy(o, i) == {j \in 1..i : descriptor[j].tag = "collection" /\ \A k \in j..i : o[k] > o[j - 1]}

LEMMA OpenByDepth ==
  ASSUME NEW g, Run(g), NEW i \in 0..Len(descriptor)
  PROVE  OpenAt(i + 1) = OpenBy(OpenDepth(g), i)
<1> DEFINE d == OpenDepth(g)
<1>1. Len(descriptor) \in Nat /\ Depth(d, "collection", "end")
  BY RunTrees, RunOpen
<1> HIDE DEF d
<1>2. i + 1 - 1 = i
  BY <1>1
<1>3. ASSUME NEW j \in 1..i, NEW k \in j..i
      PROVE  CountTag("end", j, k) < CountTag("collection", j, k) <=> d[k] > d[j - 1]
  <2>1. /\ j \in 1..Len(descriptor) /\ k \in Nat /\ j - 1 <= k /\ k <= Len(descriptor)
        /\ k \in 0..Len(descriptor) /\ j - 1 \in 0..Len(descriptor)
    BY <1>1
  <2>2. \A m \in Nat : j - 1 <= m /\ m <= Len(descriptor) =>
          /\ d[m] + CountTag("end", j, m) = d[j - 1] + CountTag("collection", j, m)
          /\ CountTag("end", j, m) \in Nat /\ CountTag("collection", j, m) \in Nat
    BY <1>1, <2>1, DepthCounts
  <2>3. d[k] \in Nat /\ d[j - 1] \in Nat
    BY <1>1, <2>1 DEF Depth
  <2>4. PICK a \in Nat, b \in Nat, x \in Nat, y \in Nat :
          /\ a = d[k] /\ b = d[j - 1] /\ x = CountTag("end", j, k) /\ y = CountTag("collection", j, k)
    BY <2>1, <2>2, <2>3
  <2>5. a + x = b + y
    BY <2>1, <2>2, <2>4
  <2>6. x < y <=> a > b
    BY <2>5
  <2>7. QED
    BY <2>4, <2>6
<1>4. \A j \in 1..i : (\A k \in j..i : CountTag("end", j, k) < CountTag("collection", j, k))
                        <=> (\A k \in j..i : d[k] > d[j - 1])
  BY <1>3
<1>5. QED
  BY <1>2, <1>4 DEF OpenAt, OpenBy, d

(* What is kept for a collection that is open is what was active when it    *)
(* was opened.                                                              *)
Enclosing(g, o, i) ==
  \A e \in 1..o[i] :
    \E m \in 0..i : /\ m < i /\ o[m] = e - 1 /\ g[i].open[e] = g[m].active
                    /\ \A k \in m + 1..i : o[k] >= e

LEMMA OpenEnclosing ==
  ASSUME NEW g, Run(g)
  PROVE  \A i \in 0..Len(descriptor) : Enclosing(g, OpenDepth(g), i)
<1> DEFINE o == OpenDepth(g)
           T == {i \in Nat : i <= Len(descriptor) => Enclosing(g, o, i)}
<1>1. PICK n \in Nat : n = Len(descriptor)
  BY RunTrees
<1>2. /\ Depth(o, "collection", "end") /\ o[0] = 0
      /\ \A i \in 1..n : OpenStep(g, o, i)
  BY <1>1, RunOpen
<1>3. \A i \in 0..n : o[i] \in Nat
  BY <1>1, <1>2 DEF Depth
<1> HIDE DEF o
<1>4. 0 \in T
  <2>1. 1..o[0] = {}
    BY <1>2
  <2>2. QED
    BY <2>1 DEF Enclosing
<1>5. ASSUME NEW h \in Nat, h \in T PROVE h + 1 \in T
  <2> SUFFICES ASSUME h + 1 <= n PROVE Enclosing(g, o, h + 1)
    BY <1>1
  <2>1. PICK i \in 1..n : i = h + 1 /\ i - 1 = h
    OBVIOUS
  <2>2. Enclosing(g, o, h)
    BY <1>1, <1>5
  <2>3. o[i] \in Nat /\ o[h] \in Nat
    BY <1>3, <2>1
  <2>4. OpenStep(g, o, i)
    BY <1>2
  <2>5. o[i] + One(descriptor[i].tag = "end") = o[h] + One(descriptor[i].tag = "collection")
    BY <1>1, <1>2, <2>1 DEF Depth
  <2>6. ASSUME NEW e \in 1..o[i], e \in 1..o[h], g[i].open[e] = g[h].open[e]
        PROVE  \E m \in 0..i : /\ m < i /\ o[m] = e - 1 /\ g[i].open[e] = g[m].active
                               /\ \A k \in m + 1..i : o[k] >= e
    <3>1. PICK m \in 0..h : /\ m < h /\ o[m] = e - 1 /\ g[h].open[e] = g[m].active
                            /\ \A k \in m + 1..h : o[k] >= e
      BY <2>2, <2>6 DEF Enclosing
    <3>2. m \in 0..i /\ m < i
      BY <2>1, <3>1
    <3>3. \A k \in m + 1..i : o[k] >= e
      <4>1. TAKE k \in m + 1..i
      <4>2. k = i \/ k \in m + 1..h
        BY <2>1
      <4>3. o[i] >= e
        BY <2>3
      <4>4. QED
        BY <3>1, <4>2, <4>3
    <3>4. QED
      BY <2>6, <3>1, <3>2, <3>3
  <2>7. ASSUME NEW e \in 1..o[i]
        PROVE  \E m \in 0..i : /\ m < i /\ o[m] = e - 1 /\ g[i].open[e] = g[m].active
                               /\ \A k \in m + 1..i : o[k] >= e
    <3>1. CASE descriptor[i].tag = "collection"
      <4>1. /\ \A x \in 1..o[h] : g[i].open[x] = g[h].open[x]
            /\ g[i].open[o[i]] = g[h].active
        BY <2>1, <2>4, <3>1 DEF OpenStep
      <4>2. o[i] = o[h] + 1
        BY <2>3, <2>5, <3>1 DEF One
      <4>3. CASE e \in 1..o[h]
        BY <2>6, <4>1, <4>3
      <4>4. CASE e = o[i]
        <5>1. h \in 0..i /\ h < i /\ o[h] = e - 1 /\ g[i].open[e] = g[h].active
          BY <2>1, <2>3, <4>1, <4>2, <4>4
        <5>2. \A k \in h + 1..i : o[k] >= e
          <6>1. \A k \in h + 1..i : k = i
            BY <2>1
          <6>2. QED
            BY <2>3, <4>4, <6>1
        <5>3. QED
          BY <5>1, <5>2
      <4>5. QED
        BY <2>3, <4>2, <4>3, <4>4
    <3>2. CASE descriptor[i].tag = "end"
      <4>1. \A x \in 1..o[i] : g[i].open[x] = g[h].open[x]
        BY <2>1, <2>4, <3>2 DEF OpenStep
      <4>2. o[i] + 1 = o[h]
        BY <2>3, <2>5, <3>2 DEF One
      <4>3. e \in 1..o[h]
        BY <2>3, <4>2
      <4>4. QED
        BY <2>6, <4>1, <4>3
    <3>3. CASE descriptor[i].tag \notin {"collection", "end"}
      <4>1. g[i].open = g[h].open
        BY <2>1, <2>4, <3>3 DEF OpenStep
      <4>2. o[i] = o[h]
        BY <2>3, <2>5, <3>3 DEF One
      <4>3. QED
        BY <2>6, <4>1, <4>2
    <3>4. QED
      BY <3>1, <3>2, <3>3
  <2>8. QED
    BY <2>1, <2>7 DEF Enclosing
<1>6. Nat \subseteq T
  <2> HIDE DEF T
  <2>1. QED
    BY <1>4, <1>5, NatSetInduction
<1>7. QED
  BY <1>1, <1>6 DEF o

(* As many collections as collection items.                                 *)
LEMMA CollectionsCounted ==
  ASSUME NEW g, Run(g)
  PROVE  \A i \in 0..Len(descriptor) :
           /\ Len(g[i].collections) = CountTag("collection", 1, i)
           /\ Len(g[i].collections) <= Len(g[Len(descriptor)].collections)
<1> DEFINE c(i) == Len(g[i].collections)
           T == {i \in Nat : i <= Len(descriptor) => c(i) = CountTag("collection", 1, i)}
<1>1. PICK n \in Nat : n = Len(descriptor)
  BY RunTrees
<1>2. /\ c(0) = 0 /\ \A i \in 0..n : c(i) \in Nat
      /\ \A i \in 1..n : c(i) = c(i - 1) + One(descriptor[i].tag = "collection")
  BY <1>1, RunOpen
<1> HIDE DEF c
<1>3. /\ CountTag("collection", 1, 0) = 0
      /\ \A k \in Nat : CountTag("collection", 1, k + 1)
                          = CountTag("collection", 1, k) + One(descriptor[k + 1].tag = "collection")
  <2>0. PICK j \in Nat \ {0} : j = 1
    OBVIOUS
  <2>1. PICK tag : j = 1 /\ tag = "collection"
    BY <2>0
  <2>2. /\ CountTag(tag, j, j - 1) = 0
        /\ \A k \in Nat : k >= j - 1 =>
             CountTag(tag, j, k + 1) = CountTag(tag, j, k) + One(descriptor[k + 1].tag = tag)
    BY CountTagStep
  <2>3. j - 1 = 0 /\ \A k \in Nat : k >= 0
    BY <2>1
  <2>4. QED
    BY <2>1, <2>2, <2>3
<1>4. 0 \in T
  BY <1>2, <1>3
<1>5. ASSUME NEW k \in Nat, k \in T PROVE k + 1 \in T
  <2> SUFFICES ASSUME k + 1 <= n PROVE c(k + 1) = CountTag("collection", 1, k + 1)
    BY <1>1
  <2>1. k + 1 \in 1..n /\ k + 1 - 1 = k /\ k <= n
    OBVIOUS
  <2>2. c(k + 1) = c(k) + One(descriptor[k + 1].tag = "collection")
    BY <1>2, <2>1
  <2>3. c(k) = CountTag("collection", 1, k)
    BY <1>1, <1>5, <2>1
  <2>4. QED
    BY <1>3, <2>2, <2>3
<1>6. \A i \in 0..n : c(i) = CountTag("collection", 1, i)
  <2> HIDE DEF T
  <2>1. Nat \subseteq T
    BY <1>4, <1>5, NatSetInduction
  <2>2. QED
    BY <1>1, <2>1 DEF T
<1> DEFINE U == {k \in Nat : k <= n => c(n - k) <= c(n)}
<1>7. 0 \in U
  BY <1>2
<1>8. ASSUME NEW k \in Nat, k \in U PROVE k + 1 \in U
  <2> SUFFICES ASSUME k + 1 <= n PROVE c(n - (k + 1)) <= c(n)
    OBVIOUS
  <2>1. PICK i \in 1..n : i = n - k /\ i - 1 = n - (k + 1)
    OBVIOUS
  <2>2. c(i) = c(i - 1) + One(descriptor[i].tag = "collection") /\ c(i) <= c(n)
    BY <1>2, <1>8, <2>1
  <2>3. c(i) \in Nat /\ c(i - 1) \in Nat /\ c(n) \in Nat
    BY <1>2
  <2>4. c(i - 1) <= c(i)
    BY <2>2, <2>3 DEF One
  <2>5. QED
    BY <2>1, <2>2, <2>3, <2>4
<1>9. ASSUME NEW i \in 0..n PROVE c(i) <= c(n)
  <2>1. n - i \in U
    <3> HIDE DEF U
    <3>1. n - i \in Nat
      OBVIOUS
    <3>2. QED
      BY <1>7, <1>8, <3>1, NatSetInduction
  <2>2. n - i <= n /\ n - (n - i) = i
    OBVIOUS
  <2>3. QED
    BY <2>1, <2>2
<1>10. QED
  BY <1>1, <1>6, <1>9 DEF c

(* The active collection is the innermost that is open.                     *)
LEMMA CollectionsGiven ==
  ASSUME NEW g, Run(g), Len(g[Len(descriptor)].collections) <= Counter \div 2
  PROVE  \A i \in 0..Len(descriptor) : g[i].active = CollectionAt(i + 1)
<1> DEFINE o == OpenDepth(g)
           Given(i) == g[i].active = CollectionAt(i + 1)
           T == {h \in Nat : \A i \in 0..Len(descriptor) : i <= h => Given(i)}
<1>1. PICK n \in Nat : n = Len(descriptor)
  BY RunTrees
<1>2. /\ Depth(o, "collection", "end")
      /\ \A i \in 1..n :
           /\ OpenStep(g, o, i)
           /\ Len(g[i].collections) = Len(g[i - 1].collections) + One(descriptor[i].tag = "collection")
  BY <1>1, RunOpen
<1>3. \A i \in 0..n : o[i] \in Nat /\ Len(g[i].collections) \in Nat
  BY <1>1, <1>2, RunOpen DEF Depth
<1>4. \A i \in 0..n : OpenAt(i + 1) = OpenBy(o, i)
  BY <1>1, OpenByDepth
<1>5. \A i \in 0..n : Enclosing(g, o, i)
  BY <1>1, OpenEnclosing
<1>6. \A i \in 0..n : /\ Len(g[i].collections) = CountTag("collection", 1, i)
                      /\ Len(g[i].collections) <= Counter \div 2
  <2>1. TAKE i \in 0..n
  <2>2. /\ Len(g[i].collections) = CountTag("collection", 1, i)
        /\ Len(g[i].collections) <= Len(g[n].collections)
    BY <1>1, CollectionsCounted
  <2>3. Counter \div 2 \in Int
    BY HidDescriptorAssumption
  <2>4. QED
    BY <1>1, <1>3, <2>2, <2>3
<1>7. Given(0)
  <2>1. g[0].active = -1
    BY RunOpen
  <2>2. OpenAt(0 + 1) = {}
    <3>1. 1..0 = {}
      OBVIOUS
    <3>2. OpenBy(o, 0) = {}
      BY <3>1 DEF OpenBy
    <3>3. QED
      BY <1>4, <3>2
  <2>3. QED
    BY <2>1, <2>2 DEF CollectionAt
<1> HIDE DEF o
<1>8. ASSUME NEW i \in 1..n, \A m \in 0..n : m < i => Given(m) PROVE Given(i)
  <2>1. PICK h \in 0..n : h = i - 1 /\ i = h + 1
    OBVIOUS
  <2>2. o[i] \in Nat /\ o[h] \in Nat /\ i \in 0..n
    BY <1>3, <2>1
  <2>3. o[i] + One(descriptor[i].tag = "end") = o[h] + One(descriptor[i].tag = "collection")
    BY <1>1, <1>2, <2>1 DEF Depth
  <2>4. OpenStep(g, o, i)
    BY <1>2
  <2>5. CASE descriptor[i].tag = "collection"
    <3>1. o[i] = o[h] + 1
      BY <2>2, <2>3, <2>5 DEF One
    <3>2. i \in OpenBy(o, i)
      <4>1. \A k \in i..i : k = i
        OBVIOUS
      <4>2. o[i] > o[i - 1]
        BY <2>1, <2>2, <3>1
      <4>3. QED
        BY <2>5, <4>1, <4>2 DEF OpenBy
    <3>3. OpenBy(o, i) \in SUBSET Int /\ \A j \in OpenBy(o, i) : j <= i
      BY DEF OpenBy
    <3>4. Max(OpenBy(o, i)) = i
      BY <3>2, <3>3, MaxIs
    <3>5. CollectionAt(i + 1) = CountTag("collection", 1, i) - 1
      BY <1>4, <2>2, <3>2, <3>4 DEF CollectionAt
    <3>6. PICK c \in Nat : c = Len(g[h].collections)
      BY <1>3
    <3>7. Len(g[i].collections) = c + 1 /\ c + 1 <= Counter \div 2
      BY <1>2, <1>6, <2>1, <2>2, <2>5, <3>6 DEF One
    <3>8. Signed(c) = c
      <4>1. Counter \div 2 \in Int
        BY HidDescriptorAssumption
      <4>2. c < Counter \div 2
        BY <3>7, <4>1
      <4>3. QED
        BY <4>2 DEF Signed
    <3>9. g[i].active = c
      BY <2>1, <2>4, <2>5, <3>6, <3>8 DEF OpenStep
    <3>10. CountTag("collection", 1, i) = c + 1
      BY <1>6, <2>2, <3>7
    <3>11. c + 1 - 1 = c
      OBVIOUS
    <3>12. QED
      BY <3>5, <3>9, <3>10, <3>11
  <2>6. CASE descriptor[i].tag = "end"
    <3>1. o[i] = o[h] - 1 /\ o[h] \in 1..o[h]
      BY <2>2, <2>3, <2>6 DEF One
    <3>2. PICK m \in 0..h : /\ m < h /\ o[m] = o[h] - 1 /\ g[h].open[o[h]] = g[m].active
                            /\ \A k \in m + 1..h : o[k] >= o[h]
      BY <1>5, <2>2, <3>1 DEF Enclosing
    <3>3. m \in 0..n /\ m < i
      BY <2>1, <3>2
    <3>4. g[i].active = g[m].active
      BY <2>1, <2>4, <2>6, <3>2 DEF OpenStep
    <3>5. ASSUME NEW j \in OpenBy(o, i) PROVE j \in OpenBy(o, m)
      <4>1. j \in 1..i /\ descriptor[j].tag = "collection" /\ \A k \in j..i : o[k] > o[j - 1]
        BY DEF OpenBy
      <4>2. o[i] > o[j - 1]
        BY <4>1
      <4>3. j \notin m + 1..i
        <5> SUFFICES ASSUME j \in m + 1..i PROVE FALSE
          OBVIOUS
        <5>1. j # i
          BY <2>6, <4>1
        <5>2. j - 1 = m \/ j - 1 \in m + 1..h
          BY <2>1, <5>1
        <5>3. j - 1 \in 0..n
          BY <4>1
        <5>4. o[j - 1] >= o[h] - 1 /\ o[j - 1] \in Nat
          <6>1. o[j - 1] \in Nat /\ o[h] \in Nat
            BY <1>3, <2>2, <5>3
          <6>2. CASE j - 1 = m
            <7>1. o[j - 1] = o[h] - 1
              BY <3>2, <6>2
            <7>2. QED
              BY <6>1, <7>1
          <6>3. CASE j - 1 \in m + 1..h
            <7>1. o[j - 1] >= o[h]
              BY <3>2, <6>3
            <7>2. QED
              BY <6>1, <7>1
          <6>4. QED
            BY <5>2, <6>2, <6>3
        <5>5. QED
          BY <2>2, <3>1, <4>2, <5>4
      <4>4. j \in 1..m /\ \A k \in j..m : k \in j..i
        BY <3>3, <4>1, <4>3
      <4>5. QED
        BY <4>1, <4>4 DEF OpenBy
    <3>6. ASSUME NEW j \in OpenBy(o, m) PROVE j \in OpenBy(o, i)
      <4>1. j \in 1..m /\ descriptor[j].tag = "collection" /\ \A k \in j..m : o[k] > o[j - 1]
        BY DEF OpenBy
      <4>2. j - 1 \in 0..n /\ m \in j..m /\ j \in 1..i
        BY <3>3, <4>1
      <4>3. o[m] > o[j - 1] /\ o[j - 1] \in Nat /\ o[m] \in Nat
        BY <1>3, <3>3, <4>1, <4>2
      <4>4. ASSUME NEW k \in j..i PROVE o[k] > o[j - 1]
        <5>1. k \in 0..n
          BY <3>3, <4>1
        <5>2. o[k] \in Nat
          BY <1>3, <5>1
        <5>3. k \in j..m \/ k \in m + 1..h \/ k = i
          BY <2>1, <3>3
        <5>4. CASE k \in j..m
          BY <4>1, <5>4
        <5>5. CASE k \in m + 1..h
          <6>1. o[k] >= o[h]
            BY <3>2, <5>5
          <6>2. QED
            BY <2>2, <3>2, <4>3, <5>2, <6>1
        <5>6. CASE k = i
          BY <2>2, <3>1, <3>2, <4>3, <5>6
        <5>7. QED
          BY <5>3, <5>4, <5>5, <5>6
      <4>5. QED
        BY <4>1, <4>2, <4>4 DEF OpenBy
    <3>7. OpenAt(i + 1) = OpenAt(m + 1)
      <4>1. OpenBy(o, i) = OpenBy(o, m)
        BY <3>5, <3>6
      <4>2. QED
        BY <1>4, <2>2, <3>3, <4>1
    <3>8. CollectionAt(i + 1) = CollectionAt(m + 1)
      BY <3>7 DEF CollectionAt
    <3>9. QED
      BY <1>8, <3>3, <3>4, <3>8
  <2>7. CASE descriptor[i].tag \notin {"collection", "end"}
    <3>1. o[i] = o[h]
      <4>1. One(descriptor[i].tag = "end") = 0 /\ One(descriptor[i].tag = "collection") = 0
        BY <2>7 DEF One
      <4>2. QED
        BY <2>2, <2>3, <4>1
    <3>2. g[i].active = g[h].active
      BY <2>1, <2>4, <2>7 DEF OpenStep
    <3>3. ASSUME NEW j \in OpenBy(o, i) PROVE j \in OpenBy(o, h)
      <4>1. j \in 1..i /\ descriptor[j].tag = "collection" /\ \A k \in j..i : o[k] > o[j - 1]
        BY DEF OpenBy
      <4>2. j \in 1..h /\ \A k \in j..h : k \in j..i
        BY <2>1, <2>7, <4>1
      <4>3. QED
        BY <4>1, <4>2 DEF OpenBy
    <3>4. ASSUME NEW j \in OpenBy(o, h) PROVE j \in OpenBy(o, i)
      <4>1. j \in 1..h /\ descriptor[j].tag = "collection" /\ \A k \in j..h : o[k] > o[j - 1]
        BY DEF OpenBy
      <4>2. h \in j..h /\ j \in 1..i
        BY <2>1, <4>1
      <4>3. \A k \in j..i : k \in j..h \/ k = i
        BY <2>1
      <4>4. \A k \in j..i : o[k] > o[j - 1]
        BY <3>1, <4>1, <4>2, <4>3
      <4>5. QED
        BY <4>1, <4>2, <4>4 DEF OpenBy
    <3>5. OpenAt(i + 1) = OpenAt(h + 1)
      <4>1. OpenBy(o, i) = OpenBy(o, h)
        BY <3>3, <3>4
      <4>2. QED
        BY <1>4, <2>2, <4>1
    <3>6. CollectionAt(i + 1) = CollectionAt(h + 1)
      BY <3>5 DEF CollectionAt
    <3>7. h < i
      BY <2>1
    <3>8. QED
      BY <1>8, <3>2, <3>6, <3>7
  <2>8. QED
    BY <2>5, <2>6, <2>7
<1> HIDE DEF Given
<1>9. 0 \in T
  BY <1>7
<1>10. ASSUME NEW h \in Nat, h \in T PROVE h + 1 \in T
  <2>1. ASSUME NEW i \in 0..n, i <= h + 1 PROVE Given(i)
    <3>1. CASE i <= h
      BY <1>1, <1>10, <3>1
    <3>2. CASE i = h + 1
      <4>1. \A m \in 0..n : m < i => Given(m)
        BY <1>1, <1>10, <3>2
      <4>2. i \in 1..n
        BY <3>2
      <4>3. QED
        BY <1>8, <4>1, <4>2
    <3>3. QED
      BY <2>1, <3>1, <3>2
  <2>2. QED
    BY <1>1, <2>1
<1>11. ASSUME NEW i \in 0..n PROVE Given(i)
  <2>1. i \in T
    <3> HIDE DEF T
    <3>1. i \in Nat
      OBVIOUS
    <3>2. QED
      BY <1>9, <1>10, <3>1, NatSetInduction
  <2>2. QED
    BY <1>1, <2>1
<1>12. QED
  BY <1>1, <1>11 DEF Given

-----------------------------------------------------------------------------
(* The usages.                                                              *)

UsageTag == {"usage", "usageMin", "usageMax"}

(* The usages are forgotten at a main item, and collected in between.       *)
LEMMA UsagesStep ==
  ASSUME Len(descriptor) \in Nat, NEW i \in 1..Len(descriptor)
  PROVE  /\ UsagesAt(i) \in SUBSET (1..i - 1)
         /\ UsagesAt(i + 1) = IF descriptor[i].tag \in MainTag THEN {}
                              ELSE IF descriptor[i].tag \in UsageTag THEN UsagesAt(i) \cup {i}
                              ELSE UsagesAt(i)
<1>0. PICK h \in Nat : h = i - 1 /\ i = h + 1 /\ i + 1 - 1 = i
  OBVIOUS
<1> DEFINE U == {j \in 1..h : /\ descriptor[j].tag \in UsageTag
                              /\ \A k \in j..h : descriptor[k].tag \notin MainTag}
           V == {j \in 1..i : /\ descriptor[j].tag \in UsageTag
                              /\ \A k \in j..i : descriptor[k].tag \notin MainTag}
<1>1. UsagesAt(i) = U /\ UsagesAt(i + 1) = V
  BY <1>0 DEF UsagesAt, UsageTag
<1>2. U \in SUBSET (1..h)
  OBVIOUS
<1>3. CASE descriptor[i].tag \in MainTag
  <2>1. \A j \in 1..i : i \in j..i
    BY <1>0
  <2>2. V = {}
    BY <1>3, <2>1
  <2>3. QED
    BY <1>0, <1>1, <1>2, <1>3, <2>2
<1>4. CASE descriptor[i].tag \notin MainTag
  <2>1. ASSUME NEW j \in V PROVE j = i \/ j \in U
    <3>1. j \in 1..i /\ descriptor[j].tag \in UsageTag
          /\ \A k \in j..i : descriptor[k].tag \notin MainTag
      OBVIOUS
    <3> HIDE DEF V
    <3>2. CASE j # i
      <4>1. j \in 1..h /\ \A k \in j..h : k \in j..i
        BY <1>0, <3>1, <3>2
      <4>2. QED
        BY <3>1, <4>1
    <3>3. QED
      BY <3>2
  <2>2. ASSUME NEW j \in U PROVE j \in V
    <3>1. j \in 1..h /\ descriptor[j].tag \in UsageTag
          /\ \A k \in j..h : descriptor[k].tag \notin MainTag
      OBVIOUS
    <3> HIDE DEF U
    <3>2. j \in 1..i /\ \A k \in j..i : k \in j..h \/ k = i
      BY <1>0, <3>1
    <3>3. QED
      BY <1>4, <3>1, <3>2
  <2>3. i \in V <=> descriptor[i].tag \in UsageTag
    <3>1. i \in 1..i /\ \A k \in i..i : k = i
      BY <1>0
    <3>2. QED
      BY <1>4, <3>1
  <2> HIDE DEF U, V
  <2>4. V = IF descriptor[i].tag \in UsageTag THEN U \cup {i} ELSE U
    <3>1. CASE descriptor[i].tag \in UsageTag
      <4>1. \A j : j \in V <=> j = i \/ j \in U
        BY <2>1, <2>2, <2>3, <3>1
      <4>2. V = U \cup {i}
        BY <4>1
      <4>3. QED
        BY <3>1, <4>2
    <3>2. CASE descriptor[i].tag \notin UsageTag
      <4>1. \A j : j \in V <=> j \in U
        BY <2>1, <2>2, <2>3, <3>2
      <4>2. V = U
        BY <4>1
      <4>3. QED
        BY <3>2, <4>2
    <3>3. QED
      BY <3>1, <3>2
  <2>5. QED
    BY <1>0, <1>1, <1>2, <1>4, <2>4
<1>5. QED
  BY <1>3, <1>4

(* The how-manieth of a set of positions one is.                            *)
Rank(places, j) == Cardinality({k \in places : k <= j})

LEMMA NthIs ==
  ASSUME NEW n \in Nat, NEW places \in SUBSET (1..n), NEW j \in places
  PROVE  Nth(places, Rank(places, j)) = j
<1> DEFINE Upto(i) == {k \in places : k <= i}
<1>1. IsFiniteSet(places)
  <2>1. IsFiniteSet(1..n)
    BY FS_Interval
  <2>2. QED
    BY <2>1, FS_Subset
<1>2. \A i \in places : i \in Nat /\ i \in Upto(i) /\ IsFiniteSet(Upto(i))
  <2>1. TAKE i \in places
  <2>2. i \in Nat /\ Upto(i) \in SUBSET places
    OBVIOUS
  <2>3. QED
    BY <1>1, <2>2, FS_Subset
<1>3. ASSUME NEW a \in places, NEW b \in places, a < b
      PROVE  Cardinality(Upto(a)) # Cardinality(Upto(b))
  <2>1. a \in Nat /\ b \in Nat
    BY <1>2
  <2>2. Upto(a) \in SUBSET Upto(b)
    <3>1. \A k \in Upto(a) : k \in Nat /\ k <= a
      BY <1>2
    <3>2. \A k \in Upto(a) : k <= b
      BY <1>3, <2>1, <3>1
    <3>3. QED
      BY <3>2
  <2>3. b \in Upto(b) /\ b \notin Upto(a)
    BY <1>3, <2>1
  <2> HIDE DEF Upto
  <2>4. QED
    BY <1>2, <2>2, <2>3, FS_Subset
<1>4. ASSUME NEW a \in places, Rank(places, a) = Rank(places, j) PROVE a = j
  <2>1. a \in Nat /\ j \in Nat /\ Cardinality(Upto(a)) = Cardinality(Upto(j))
    BY <1>2, <1>4 DEF Rank
  <2> HIDE DEF Upto
  <2>2. a = j \/ a < j \/ j < a
    BY <2>1
  <2>3. QED
    BY <1>3, <2>1, <2>2
<1>5. QED
  BY <1>4 DEF Nth, Rank

LEMMA RankWithLater ==
  ASSUME NEW i \in Nat \ {0}, NEW places \in SUBSET (1..i - 1)
  PROVE  /\ i \notin places /\ Cardinality(places) \in Nat
         /\ Cardinality(places \cup {i}) = Cardinality(places) + 1
         /\ Rank(places \cup {i}, i) = Cardinality(places) + 1
         /\ \A j \in places : Rank(places \cup {i}, j) = Rank(places, j)
<1>1. i \notin places /\ i <= i /\ \A k \in places : k \in Nat /\ k < i /\ k <= i
  OBVIOUS
<1>2. IsFiniteSet(places)
  <2>1. IsFiniteSet(1..i - 1)
    BY FS_Interval
  <2>2. QED
    BY <2>1, FS_Subset
<1>3. Cardinality(places) \in Nat /\ Cardinality(places \cup {i}) = Cardinality(places) + 1
  BY <1>1, <1>2, FS_AddElement, FS_CardinalityType
<1>4. {k \in places \cup {i} : k <= i} = places \cup {i}
  BY <1>1
<1>5. \A j \in places : {k \in places \cup {i} : k <= j} = {k \in places : k <= j}
  <2>1. \A j \in places : ~(i <= j)
    BY <1>1
  <2>2. QED
    BY <2>1
<1>6. QED
  BY <1>1, <1>3, <1>4, <1>5 DEF Rank

(* The local items the parser keeps are those given since the main item     *)
(* before.                                                                  *)
Remembers(local, U) ==
  /\ local = [range |-> local.range, n |-> local.n, list |-> local.list, last |-> local.last]
  /\ local.list = [f \in 0..MAX_USAGES |-> local.list[f]]
  /\ Ranged(U) => local.range = TRUE
  /\ ~Ranged(U) => local.range = FALSE
  /\ local.n = Cardinality(Listed(U))
  /\ local.last = LastOf(U, "usageMax")
  /\ local.n <= MAX_USAGES =>
       /\ local.list[MAX_USAGES] = LastOf(U, "usageMin")
       /\ \A f \in 0..MAX_USAGES - 1 :
            /\ f < local.n => \E j \in Listed(U) : /\ Rank(Listed(U), j) = f + 1
                                                   /\ local.list[f] = descriptor[j].data
            /\ f >= local.n => local.list[f] = Usage0

LEMMA NothingRemembered == Remembers(Locals0, {})
<1>1. Listed({}) = {} /\ \A tag : Tagged({}, tag) = {}
  BY DEF Listed, Tagged
<1>2. Cardinality({}) = 0
  BY FS_EmptySet
<1>3. /\ \A tag : LastOf({}, tag) = Usage0
      /\ ~Ranged({})
  BY <1>1 DEF LastOf, Ranged
<1>4. MAX_USAGES \in Nat \ {0}
  BY HidDescriptorAssumption
<1>5. /\ Locals0.range = FALSE /\ Locals0.n = 0 /\ Locals0.last = Usage0
      /\ Locals0.list = [f \in 0..MAX_USAGES |-> Usage0]
      /\ Locals0 = [range |-> Locals0.range, n |-> Locals0.n, list |-> Locals0.list,
                    last |-> Locals0.last]
  BY DEF Locals0
<1>6. /\ \A f \in 0..MAX_USAGES - 1 : f \in 0..MAX_USAGES /\ ~(f < 0)
      /\ MAX_USAGES \in 0..MAX_USAGES
  BY <1>4
<1>7. QED
  BY <1>1, <1>2, <1>3, <1>5, <1>6 DEF Remembers

LEMMA RemembersMore ==
  ASSUME NEW i \in Nat \ {0}, NEW U \in SUBSET (1..i - 1), NEW local, Remembers(local, U),
         descriptor[i].tag \in UsageTag,
         descriptor[i].tag = "usage" => ~(local.n > MAX_USAGES)
  PROVE  Remembers(LocalStep(local, descriptor[i]), U \cup {i})
<1> DEFINE V == U \cup {i}
           new == LocalStep(local, descriptor[i])
           data == descriptor[i].data
<1>0. /\ i \in Int /\ i <= i
      /\ \A y \in U : y \in Int /\ y <= i
  OBVIOUS
<1>1. /\ i \notin U /\ MAX_USAGES \in Nat \ {0}
      /\ MAX_USAGES \in 0..MAX_USAGES
      /\ \A f \in 0..MAX_USAGES - 1 : f \in 0..MAX_USAGES /\ f # MAX_USAGES
  BY HidDescriptorAssumption
<1>2. Max(V) = i
  <2>1. V \in SUBSET Int /\ i \in V /\ \A y \in V : y <= i
    BY <1>0
  <2>2. QED
    BY <2>1, MaxIs
<1>3. Ranged(V) <=> descriptor[i].tag # "usage"
  BY <1>2 DEF Ranged
<1>4. \A tag : Tagged(V, tag) = IF descriptor[i].tag = tag THEN Tagged(U, tag) \cup {i}
                                ELSE Tagged(U, tag)
  BY DEF Tagged
<1>5. \A tag : LastOf(V, tag) = IF descriptor[i].tag = tag THEN data ELSE LastOf(U, tag)
  <2>1. TAKE tag
  <2>2. CASE descriptor[i].tag = tag
    <3>1. /\ Tagged(V, tag) \in SUBSET Int /\ i \in Tagged(V, tag)
          /\ \A y \in Tagged(V, tag) : y <= i
      BY <1>0, <2>2 DEF Tagged
    <3>2. Max(Tagged(V, tag)) = i
      BY <3>1, MaxIs
    <3>3. QED
      BY <2>2, <3>1, <3>2 DEF LastOf
  <2>3. CASE descriptor[i].tag # tag
    <3>1. Tagged(V, tag) = Tagged(U, tag)
      BY <1>4, <2>3
    <3>2. QED
      BY <2>3, <3>1 DEF LastOf
  <2>4. QED
    BY <2>2, <2>3
<1>6. Listed(U) \in SUBSET (1..i - 1)
  BY DEF Listed, Tagged
<1> HIDE DEF V, new
<1>7. CASE descriptor[i].tag = "usage"
  <2>1. new = [local EXCEPT !.range = FALSE, !.n = @ + 1, !.list[local.n] = data]
    BY <1>7 DEF LocalStep, new
  <2>2. Listed(V) = Listed(U) \cup {i}
    BY <1>4, <1>7 DEF Listed
  <2>3. PICK P, n : P = Listed(U) /\ n = local.n
    OBVIOUS
  <2>4. /\ n = Cardinality(P) /\ n \in Nat /\ Cardinality(P \cup {i}) = n + 1
        /\ Rank(P \cup {i}, i) = n + 1
        /\ \A j \in P : Rank(P \cup {i}, j) = Rank(P, j)
    <3>1. n = Cardinality(P) /\ P \in SUBSET (1..i - 1)
      BY <1>6, <2>3 DEF Remembers
    <3>2. QED
      BY <3>1, RankWithLater
  <2>5. n <= MAX_USAGES /\ n \in 0..MAX_USAGES
    BY <1>1, <1>7, <2>3, <2>4
  <2>6. /\ new.range = FALSE /\ new.n = n + 1 /\ new.last = local.last
        /\ new.list = [local.list EXCEPT ![n] = data]
        /\ new = [range |-> new.range, n |-> new.n, list |-> new.list, last |-> new.last]
    <3>1. local = [range |-> local.range, n |-> local.n, list |-> local.list, last |-> local.last]
      BY DEF Remembers
    <3>2. QED
      BY <2>1, <2>3, <3>1
  <2>7. /\ \A f \in 0..MAX_USAGES : new.list[f] = IF f = n THEN data ELSE local.list[f]
        /\ new.list = [f \in 0..MAX_USAGES |-> new.list[f]]
    <3>1. local.list = [f \in 0..MAX_USAGES |-> local.list[f]]
      BY DEF Remembers
    <3>2. QED
      BY <2>5, <2>6, <3>1
  <2>8. ASSUME new.n <= MAX_USAGES
        PROVE  /\ new.list[MAX_USAGES] = LastOf(V, "usageMin")
               /\ \A f \in 0..MAX_USAGES - 1 :
                    /\ f < new.n => \E j \in Listed(V) : /\ Rank(Listed(V), j) = f + 1
                                                         /\ new.list[f] = descriptor[j].data
                    /\ f >= new.n => new.list[f] = Usage0
    <3>1. /\ local.list[MAX_USAGES] = LastOf(U, "usageMin")
          /\ \A f \in 0..MAX_USAGES - 1 :
               /\ f < n => \E j \in P : Rank(P, j) = f + 1 /\ local.list[f] = descriptor[j].data
               /\ f >= n => local.list[f] = Usage0
      BY <2>3, <2>5 DEF Remembers
    <3>2. MAX_USAGES # n
      BY <1>1, <2>4, <2>6, <2>8
    <3>3. new.list[MAX_USAGES] = LastOf(V, "usageMin")
      BY <1>1, <1>5, <1>7, <2>7, <3>1, <3>2
    <3>4. ASSUME NEW f \in 0..MAX_USAGES - 1
          PROVE  /\ f < new.n => \E j \in Listed(V) : /\ Rank(Listed(V), j) = f + 1
                                                      /\ new.list[f] = descriptor[j].data
                 /\ f >= new.n => new.list[f] = Usage0
      <4>0. f \in 0..MAX_USAGES
        BY <1>1
      <4>1. CASE f < n
        <5>1. PICK j \in P : Rank(P, j) = f + 1 /\ local.list[f] = descriptor[j].data
          BY <3>1, <4>1
        <5>2. new.list[f] = descriptor[j].data
          BY <2>4, <2>7, <4>0, <4>1, <5>1
        <5>3. j \in Listed(V) /\ Rank(Listed(V), j) = f + 1
          BY <2>2, <2>3, <2>4, <5>1
        <5>4. ~(f >= new.n)
          BY <2>4, <2>6, <4>1
        <5>5. QED
          BY <5>2, <5>3, <5>4
      <4>2. CASE f = n
        <5>1. i \in Listed(V) /\ Rank(Listed(V), i) = f + 1
          BY <2>2, <2>3, <2>4, <4>2
        <5>2. new.list[f] = descriptor[i].data
          BY <2>7, <4>0, <4>2
        <5>3. ~(f >= new.n)
          BY <2>4, <2>6, <4>2
        <5>4. QED
          BY <5>1, <5>2, <5>3
      <4>3. CASE f > n
        <5>1. new.list[f] = local.list[f] /\ f >= n /\ ~(f < new.n)
          BY <2>4, <2>6, <2>7, <4>0, <4>3
        <5>2. QED
          BY <3>1, <5>1
      <4>4. QED
        BY <2>4, <4>1, <4>2, <4>3
    <3>5. QED
      BY <3>3, <3>4
  <2>9. new.last = LastOf(V, "usageMax")
    BY <1>5, <1>7, <2>6 DEF Remembers
  <2>10. new.n = Cardinality(Listed(V))
    BY <2>2, <2>3, <2>4, <2>6
  <2>11. ~Ranged(V)
    BY <1>3, <1>7
  <2>12. Remembers(new, V)
    BY <2>6, <2>7, <2>8, <2>9, <2>10, <2>11 DEF Remembers
  <2>13. QED
    BY <2>12 DEF V, new
<1>8. ASSUME descriptor[i].tag # "usage", new.range = TRUE, new.n = local.n,
             new.last = LastOf(V, "usageMax"),
             new = [range |-> new.range, n |-> new.n, list |-> new.list, last |-> new.last],
             new.list = [f \in 0..MAX_USAGES |-> new.list[f]],
             local.n <= MAX_USAGES => new.list[MAX_USAGES] = LastOf(V, "usageMin"),
             \A f \in 0..MAX_USAGES - 1 : new.list[f] = local.list[f]
      PROVE  Remembers(new, V)
  <2>1. Listed(V) = Listed(U)
    BY <1>4, <1>8 DEF Listed
  <2>2. \A f \in 0..MAX_USAGES - 1 : local.n <= MAX_USAGES =>
          /\ f < local.n => \E j \in Listed(U) : /\ Rank(Listed(U), j) = f + 1
                                                 /\ local.list[f] = descriptor[j].data
          /\ f >= local.n => local.list[f] = Usage0
    BY DEF Remembers
  <2>3. local.n = Cardinality(Listed(U))
    BY DEF Remembers
  <2>4. Ranged(V)
    BY <1>3, <1>8
  <2>5. new.n <= MAX_USAGES =>
          \A f \in 0..MAX_USAGES - 1 :
            /\ f < new.n => \E j \in Listed(V) : /\ Rank(Listed(V), j) = f + 1
                                                 /\ new.list[f] = descriptor[j].data
            /\ f >= new.n => new.list[f] = Usage0
    BY <1>8, <2>1, <2>2
  <2>6. QED
    BY <1>8, <2>1, <2>3, <2>4, <2>5 DEF Remembers
<1>9. CASE descriptor[i].tag = "usageMin"
  <2>1. new = [local EXCEPT !.range = TRUE, !.list[MAX_USAGES] = data]
    BY <1>9 DEF LocalStep, new
  <2>2. /\ new.range = TRUE /\ new.n = local.n /\ new.last = local.last
        /\ new.list = [local.list EXCEPT ![MAX_USAGES] = data]
        /\ new = [range |-> new.range, n |-> new.n, list |-> new.list, last |-> new.last]
    <3>1. local = [range |-> local.range, n |-> local.n, list |-> local.list, last |-> local.last]
      BY DEF Remembers
    <3>2. QED
      BY <2>1, <3>1
  <2>3. /\ \A f \in 0..MAX_USAGES : new.list[f] = IF f = MAX_USAGES THEN data ELSE local.list[f]
        /\ new.list = [f \in 0..MAX_USAGES |-> new.list[f]]
    <3>1. local.list = [f \in 0..MAX_USAGES |-> local.list[f]]
      BY DEF Remembers
    <3>2. QED
      BY <1>1, <2>2, <3>1
  <2>4. new.list[MAX_USAGES] = LastOf(V, "usageMin") /\ new.last = LastOf(V, "usageMax")
    BY <1>1, <1>5, <1>9, <2>2, <2>3 DEF Remembers
  <2>5. \A f \in 0..MAX_USAGES - 1 : new.list[f] = local.list[f]
    BY <1>1, <2>3
  <2>6. QED
    BY <1>8, <1>9, <2>2, <2>3, <2>4, <2>5 DEF V, new
<1>10. CASE descriptor[i].tag = "usageMax"
  <2>1. new = [local EXCEPT !.range = TRUE, !.last = data]
    BY <1>10 DEF LocalStep, new
  <2>2. /\ new.range = TRUE /\ new.n = local.n /\ new.last = data /\ new.list = local.list
        /\ new = [range |-> new.range, n |-> new.n, list |-> new.list, last |-> new.last]
    <3>1. local = [range |-> local.range, n |-> local.n, list |-> local.list, last |-> local.last]
      BY DEF Remembers
    <3>2. QED
      BY <2>1, <3>1
  <2>3. new.last = LastOf(V, "usageMax")
    BY <1>5, <1>10, <2>2
  <2>4. local.n <= MAX_USAGES => new.list[MAX_USAGES] = LastOf(V, "usageMin")
    BY <1>5, <1>10, <2>2 DEF Remembers
  <2>5. new.list = [f \in 0..MAX_USAGES |-> new.list[f]]
    BY <2>2 DEF Remembers
  <2>6. QED
    BY <1>8, <1>10, <2>2, <2>3, <2>4, <2>5 DEF V, new
<1>11. QED
  BY <1>7, <1>9, <1>10 DEF UsageTag, V, new

LEMMA UsagesGiven ==
  ASSUME NEW g, Run(g)
  PROVE  \A i \in 0..Len(descriptor) : Remembers(g[i].local, UsagesAt(i + 1))
<1> DEFINE T == {i \in Nat : i <= Len(descriptor) => Remembers(g[i].local, UsagesAt(i + 1))}
<1>1. PICK n \in Nat : n = Len(descriptor)
  BY RunTrees
<1>2. 0 \in T
  <2>1. \E room \in Rooms : g[0] = Tree0(room)
    BY RunTrees
  <2>2. g[0].local = Locals0
    BY <2>1 DEF Tree0
  <2>3. 1..0 + 1 - 1 = {}
    OBVIOUS
  <2>4. UsagesAt(0 + 1) = {}
    BY <2>3 DEF UsagesAt
  <2>5. QED
    BY <2>2, <2>4, NothingRemembered
<1>3. ASSUME NEW h \in Nat, h \in T PROVE h + 1 \in T
  <2> SUFFICES ASSUME h + 1 <= n PROVE Remembers(g[h + 1].local, UsagesAt(h + 1 + 1))
    BY <1>1
  <2>1. PICK i \in 1..n : i = h + 1 /\ i - 1 = h /\ i \in Nat \ {0}
    OBVIOUS
  <2>2. LocalItems(g[h], g[i], descriptor[i])
    BY <1>1, <2>1, RunSteps
  <2>3. Remembers(g[h].local, UsagesAt(i))
    BY <1>1, <1>3, <2>1
  <2>4. /\ UsagesAt(i) \in SUBSET (1..i - 1)
        /\ UsagesAt(i + 1) = IF descriptor[i].tag \in MainTag THEN {}
                             ELSE IF descriptor[i].tag \in UsageTag THEN UsagesAt(i) \cup {i}
                             ELSE UsagesAt(i)
    BY <1>1, UsagesStep
  <2>5. CASE descriptor[i].tag \in MainTag
    BY <2>1, <2>2, <2>4, <2>5, NothingRemembered DEF LocalItems
  <2>6. CASE descriptor[i].tag \in UsageTag
    <3>1. descriptor[i].tag \notin MainTag
      BY <2>6 DEF UsageTag, MainTag, FieldItem
    <3>2. Remembers(LocalStep(g[h].local, descriptor[i]), UsagesAt(i) \cup {i})
      BY <2>1, <2>2, <2>3, <2>4, <2>6, RemembersMore DEF LocalItems
    <3>3. QED
      BY <2>1, <2>2, <2>4, <2>6, <3>1, <3>2 DEF LocalItems
  <2>7. CASE descriptor[i].tag \notin MainTag \cup UsageTag
    <3>1. LocalStep(g[h].local, descriptor[i]) = g[h].local
      BY <2>7 DEF LocalStep, UsageTag
    <3>2. QED
      BY <2>1, <2>2, <2>3, <2>4, <2>7, <3>1 DEF LocalItems
  <2>8. QED
    BY <2>5, <2>6, <2>7
<1>4. Nat \subseteq T
  <2> HIDE DEF T
  <2>1. QED
    BY <1>2, <1>3, NatSetInduction
<1>5. QED
  BY <1>1, <1>4

(* The usage the parser gives field f, while the list is not overrun.       *)
LEMMA UsageFound ==
  ASSUME NEW n \in Nat, NEW U \in SUBSET (1..n), NEW local, Remembers(local, U),
         Cardinality(Listed(U)) <= MAX_USAGES, NEW f \in Nat,
         ~Ranged(U) /\ Listed(U) = {} => f <= MAX_USAGES + 1
  PROVE  VariableUsage(local, f) = UsageOf(U, f)
<1>0. MAX_USAGES \in Nat \ {0}
  BY HidDescriptorAssumption
<1>1. PICK P, c : P = Listed(U) /\ c = local.n
  OBVIOUS
<1>2. P \in SUBSET (1..n) /\ c = Cardinality(P) /\ c <= MAX_USAGES /\ c \in Nat
  <2>1. P \in SUBSET (1..n)
    BY <1>1 DEF Listed, Tagged
  <2>2. IsFiniteSet(1..n)
    BY FS_Interval
  <2>3. QED
    BY <1>1, <2>1, <2>2, FS_Subset, FS_CardinalityType DEF Remembers
<1>3. /\ local.list[MAX_USAGES] = LastOf(U, "usageMin") /\ local.last = LastOf(U, "usageMax")
      /\ \A m \in 0..MAX_USAGES - 1 :
           /\ m < c => \E j \in P : Rank(P, j) = m + 1 /\ local.list[m] = descriptor[j].data
           /\ m >= c => local.list[m] = Usage0
  BY <1>1, <1>2 DEF Remembers
<1>4. CASE Ranged(U)
  <2>0. local.range = TRUE
    BY <1>4 DEF Remembers
  <2>1. VariableUsage(local, f) = [page |-> local.list[MAX_USAGES].page,
                                   usage |-> Lesser(local.list[MAX_USAGES].usage + f,
                                                    local.last.usage)]
    BY <2>0 DEF VariableUsage
  <2>2. UsageOf(U, f) = [page |-> LastOf(U, "usageMin").page,
                         usage |-> Lesser(LastOf(U, "usageMin").usage + f,
                                          LastOf(U, "usageMax").usage)]
    BY <1>4 DEF UsageOf
  <2>3. QED
    BY <1>3, <2>1, <2>2
<1>5. CASE ~Ranged(U)
  <2>0. local.range = FALSE
    BY <1>5 DEF Remembers
  <2>1. PICK at : at = IF c = 0 THEN f ELSE Lesser(f, c - 1)
    OBVIOUS
  <2>1a. DOMAIN local.list = 0..MAX_USAGES
    BY DEF Remembers
  <2>1b. /\ at \in 0..MAX_USAGES => VariableUsage(local, f) = local.list[at]
         /\ at = MAX_USAGES + 1 => VariableUsage(local, f) = local.last
    <3>1. VariableUsage(local, f) = CASE at \in 0..MAX_USAGES -> local.list[at]
                                      [] at = MAX_USAGES + 1 -> local.last
                                      [] OTHER -> Memory[at]
      BY <1>1, <2>0, <2>1, <2>1a DEF VariableUsage, ListedUsage
    <3>2. at \in 0..MAX_USAGES => at # MAX_USAGES + 1
      BY <1>0
    <3>3. QED
      BY <3>1, <3>2
  <2>2. UsageOf(U, f) = IF P = {} THEN Usage0 ELSE descriptor[Nth(P, Lesser(f + 1, c))].data
    BY <1>1, <1>2, <1>5 DEF UsageOf
  <2>3. P = {} <=> c = 0
    <3>1. IsFiniteSet(1..n)
      BY FS_Interval
    <3>2. IsFiniteSet(P)
      BY <1>2, <3>1, FS_Subset
    <3>3. QED
      BY <1>2, <3>2, FS_EmptySet
  <2>4. CASE c = 0
    <3>1. at = f /\ f <= MAX_USAGES + 1 /\ Listed(U) = {}
      BY <1>1, <1>5, <2>1, <2>3, <2>4
    <3>2. U = {}
      <4> SUFFICES ASSUME U # {} PROVE FALSE
        OBVIOUS
      <4>1. Max(U) \in U
        BY FirstAndLast
      <4>2. descriptor[Max(U)].tag = "usage"
        BY <1>5 DEF Ranged
      <4>3. Max(U) \in Listed(U)
        BY <4>1, <4>2 DEF Listed, Tagged
      <4>4. QED
        BY <3>1, <4>3
    <3>3. \A tag : LastOf(U, tag) = Usage0
      BY <3>2 DEF LastOf, Tagged
    <3>4. /\ \A m \in 0..MAX_USAGES - 1 : local.list[m] = Usage0
          /\ local.list[MAX_USAGES] = Usage0 /\ local.last = Usage0
      <4>1. \A m \in 0..MAX_USAGES - 1 : m >= c
        BY <2>4
      <4>2. QED
        BY <1>3, <3>3, <4>1
    <3>5. /\ f \in 0..MAX_USAGES - 1 \/ f = MAX_USAGES \/ f = MAX_USAGES + 1
          /\ f \in 0..MAX_USAGES <=> f # MAX_USAGES + 1
      BY <1>0, <3>1
    <3>6. CASE f \in 0..MAX_USAGES
      <4>1. VariableUsage(local, f) = local.list[f]
        BY <2>1b, <3>1, <3>6
      <4>2. local.list[f] = Usage0
        BY <3>4, <3>5, <3>6
      <4>3. QED
        BY <2>2, <2>3, <2>4, <4>1, <4>2
    <3>7. CASE f \notin 0..MAX_USAGES
      <4>1. VariableUsage(local, f) = local.last
        BY <2>1b, <3>1, <3>5, <3>7
      <4>2. QED
        BY <2>2, <2>3, <2>4, <3>4, <4>1
    <3>8. QED
      BY <3>6, <3>7
  <2>5. CASE c # 0
    <3>1. PICK m \in 0..MAX_USAGES - 1 : /\ m = Lesser(f, c - 1) /\ m < c
                                         /\ m + 1 = Lesser(f + 1, c)
      <4>1. CASE f < c - 1
        <5>1. Lesser(f, c - 1) = f /\ Lesser(f + 1, c) = f + 1 /\ f < c
          BY <1>2, <4>1 DEF Lesser
        <5>2. f \in 0..MAX_USAGES - 1
          BY <1>0, <1>2, <5>1
        <5>3. QED
          BY <5>1, <5>2
      <4>2. CASE ~(f < c - 1)
        <5>1. Lesser(f, c - 1) = c - 1 /\ Lesser(f + 1, c) = c
          BY <1>2, <4>2 DEF Lesser
        <5>2. c - 1 \in 0..MAX_USAGES - 1 /\ c - 1 < c /\ c - 1 + 1 = c
          BY <1>0, <1>2, <2>5
        <5>3. QED
          BY <5>1, <5>2
      <4>3. QED
        BY <4>1, <4>2
    <3>2. PICK j \in P : Rank(P, j) = m + 1 /\ local.list[m] = descriptor[j].data
      BY <1>3, <3>1
    <3>3. Nth(P, m + 1) = j
      BY <1>2, <3>2, NthIs
    <3>4. at = m /\ m \in 0..MAX_USAGES
      BY <1>0, <2>1, <2>5, <3>1
    <3>5. VariableUsage(local, f) = local.list[m]
      BY <2>1b, <3>4
    <3>6. QED
      BY <2>2, <2>3, <2>5, <3>1, <3>2, <3>3, <3>5
  <2>6. QED
    BY <2>4, <2>5
<1>6. QED
  BY <1>4, <1>5

-----------------------------------------------------------------------------
(* The declared fields, item by item.                                       *)

(* h[i] is the first i parts, one after the other.                          *)
Joins(h, parts) ==
  /\ h[0] = <<>>
  /\ \A i \in 1..Len(parts) : h[i] = h[i - 1] \o parts[i]

LEMMA FlattenJoins ==
  ASSUME NEW S, NEW parts \in Seq(Seq(S))
  PROVE  \E h : /\ Joins(h, parts) /\ FlattenSeq(parts) = h[Len(parts)]
                /\ \A i \in 0..Len(parts) : h[i] \in Seq(S)
<1>0. PICK n \in Nat : n = Len(parts)
  OBVIOUS
<1>1. \A i \in 1..n : parts[i] \in Seq(S)
  BY <1>0
<1> DEFINE Solves(f, m) == f = [i \in 1..m |-> IF i = 1 THEN parts[i] ELSE f[i - 1] \o parts[i]]
           T == {m \in Nat : \E f : Solves(f, m)}
<1>2. 0 \in T
  <2>1. Solves([i \in 1..0 |-> <<>>], 0)
    OBVIOUS
  <2>2. QED
    BY <2>1
<1>3. ASSUME NEW m \in Nat, m \in T PROVE m + 1 \in T
  <2>1. PICK g : Solves(g, m)
    BY <1>3
  <2> DEFINE last == IF m = 0 THEN parts[1] ELSE g[m] \o parts[m + 1]
             h == [i \in 1..m + 1 |-> IF i = m + 1 THEN last ELSE g[i]]
  <2>2. ASSUME NEW i \in 1..m + 1
        PROVE  h[i] = IF i = 1 THEN parts[i] ELSE h[i - 1] \o parts[i]
    <3>1. CASE i = m + 1
      <4>1. h[i] = last
        BY <3>1
      <4>2. CASE i = 1
        <5>1. m = 0
          BY <3>1, <4>2
        <5>2. QED
          BY <4>1, <4>2, <5>1
      <4>3. CASE i # 1
        <5>1. m # 0 /\ m \in 1..m + 1 /\ m # m + 1 /\ i - 1 = m
          BY <3>1, <4>3
        <5>2. h[m] = g[m]
          BY <5>1
        <5>3. QED
          BY <3>1, <4>1, <4>3, <5>1, <5>2
      <4>4. QED
        BY <4>2, <4>3
    <3>2. CASE i # m + 1
      <4>1. i \in 1..m /\ h[i] = g[i] /\ (i # 1 => h[i - 1] = g[i - 1])
        BY <3>2
      <4>2. g[i] = IF i = 1 THEN parts[i] ELSE g[i - 1] \o parts[i]
        BY <2>1, <4>1
      <4>3. QED
        BY <4>1, <4>2
    <3>3. QED
      BY <3>1, <3>2
  <2>3. Solves(h, m + 1)
    <3> HIDE DEF h
    <3>1. h = [i \in 1..m + 1 |-> h[i]]
      BY DEF h
    <3>2. QED
      BY <2>2, <3>1
  <2> HIDE DEF h, Solves
  <2>4. QED
    BY <2>3
<1>4. n \in T
  <2> HIDE DEF T
  <2>1. QED
    BY <1>2, <1>3, NatSetInduction
<1> DEFINE f == CHOOSE f : Solves(f, n)
<1>5. Solves(f, n)
  BY <1>4
<1>6. FlattenSeq(parts) = IF n = 0 THEN parts ELSE f[n]
  BY <1>0 DEF FlattenSeq
<1>7. \A i \in 1..n : f[i] = IF i = 1 THEN parts[i] ELSE f[i - 1] \o parts[i]
  <2> HIDE DEF f
  <2>1. QED
    BY <1>5
<1> HIDE DEF f
<1>8. PICK h : h = [i \in 0..n |-> IF i = 0 THEN <<>> ELSE f[i]]
  OBVIOUS
<1>9. h[0] = <<>> /\ \A i \in 1..n : h[i] = f[i]
  BY <1>8
<1>10. ASSUME NEW i \in 1..n PROVE h[i] = h[i - 1] \o parts[i]
  <2>1. CASE i = 1
    <3>1. h[i] = parts[i] /\ h[i - 1] = <<>>
      BY <1>7, <1>9, <2>1
    <3>2. QED
      BY <1>1, <3>1, ConcatEmptySeq
  <2>2. CASE i # 1
    <3>1. h[i] = f[i] /\ h[i - 1] = f[i - 1]
      BY <1>9, <2>2
    <3>2. QED
      BY <1>7, <2>2, <3>1
  <2>3. QED
    BY <2>1, <2>2
<1>11. FlattenSeq(parts) = h[n]
  <2>1. CASE n = 0
    <3>1. parts = <<>>
      BY <1>0, <2>1, EmptySeq
    <3>2. QED
      BY <1>6, <1>9, <2>1, <3>1
  <2>2. CASE n # 0
    BY <1>6, <1>9, <2>2
  <2>3. QED
    BY <2>1, <2>2
<1> DEFINE U == {i \in Nat : i <= n => h[i] \in Seq(S)}
<1>12. 0 \in U
  <2>1. <<>> \in Seq(S)
    OBVIOUS
  <2>2. QED
    BY <1>9, <2>1
<1>13. ASSUME NEW i \in Nat, i \in U PROVE i + 1 \in U
  <2> SUFFICES ASSUME i + 1 <= n PROVE h[i + 1] \in Seq(S)
    OBVIOUS
  <2>1. PICK j \in 1..n : j = i + 1 /\ j - 1 = i /\ i <= n
    OBVIOUS
  <2>2. h[j] = h[j - 1] \o parts[j]
    BY <1>10
  <2>3. h[i] \in Seq(S) /\ parts[j] \in Seq(S)
    BY <1>1, <1>13, <2>1
  <2>4. h[j - 1] \o parts[j] \in Seq(S)
    BY <2>1, <2>3, ConcatProperties
  <2>5. QED
    BY <2>1, <2>2, <2>4
<1>14. Nat \subseteq U
  <2> HIDE DEF U
  <2>1. QED
    BY <1>12, <1>13, NatSetInduction
<1>15. Joins(h, parts)
  BY <1>0, <1>9, <1>10 DEF Joins
<1>16. QED
  BY <1>0, <1>11, <1>14, <1>15

-----------------------------------------------------------------------------
(* The fields of the tree are the declared ones.                            *)

(* What must hold of a field and of its declaration; collections are right  *)
(* only while their indices fit.                                            *)
FieldMatches(field, d, fit) ==
  /\ field.size = d.size % SizeLimit /\ d.size \in Nat
  /\ fit => field.collection = d.collection
  /\ d.kind \in {"constant", "variable", "array"}
  /\ LastOf(d.usages, "usageMin").usage \in Nat
  /\ d.kind = "constant" => field.kind = "value" /\ field.page = 0 /\ d.page = 0
  /\ d.kind = "variable" =>
       /\ field.kind = "value"
       /\ ListLimited(d) => /\ field.usage = UsageOf(d.usages, d.f).usage
                            /\ field.page = d.page
  /\ d.kind = "array" /\ Ranged(d.usages) =>
       /\ field.kind = "range"
       /\ ListLimited(d) => /\ field.usage = LastOf(d.usages, "usageMin").usage
                            /\ field.page = d.page
  /\ d.kind = "array" /\ ~Ranged(d.usages) => field.kind = "array" /\ field.page = 0

(* The definitions of reports share the declared fields out.                *)
Shared(reports, declared) ==
  /\ \A r \in 1..Len(reports) :
       /\ \A a \in 1..Len(reports[r].fields) :
            /\ reports[r].fields[a] \in 1..Len(declared)
            /\ SameKey(declared[reports[r].fields[a]], reports[r])
       /\ \A a, b \in 1..Len(reports[r].fields) :
            a < b => reports[r].fields[a] < reports[r].fields[b]
  /\ \A k \in 1..Len(declared) :
       \E r \in 1..Len(reports) : SameKey(declared[k], reports[r]) /\ Contains(reports[r].fields, k)

Layout(tree, declared, fit) ==
  /\ Len(tree.fields) = Len(declared)
  /\ \A k \in 1..Len(declared) : FieldMatches(tree.fields[k], declared[k], fit)
  /\ Shared(tree.reports, declared)

LEMMA OneMoreShared ==
  ASSUME NEW S, NEW declared \in Seq(S), NEW d \in S,
         NEW reports \in Seq(Filled), Distinct(reports), Shared(reports, declared),
         d.id \in Data, d.type \in FieldItem
  PROVE  Shared(WithField(Known(reports, d.id, d.type), Place(reports, d.id, d.type),
                          Len(declared) + 1),
                Append(declared, d))
<1>1. PICK known, at, new, n : /\ known = Known(reports, d.id, d.type)
                               /\ at = Place(reports, d.id, d.type)
                               /\ n = Len(declared)
                               /\ new = WithField(known, at, n + 1)
  OBVIOUS
<1>2. n \in Nat /\ n + 1 \in Nat
  BY <1>1
<1>3. PICK more : more = Append(declared, d)
  OBVIOUS
<1>4. Len(more) = n + 1 /\ more[n + 1] = d /\ \A k \in 1..n : more[k] = declared[k]
  BY <1>1, <1>3, AppendProperties
<1>5. /\ known \in Seq(Filled) /\ Distinct(known) /\ at \in 1..Len(known)
      /\ known[at].id = d.id /\ known[at].type = d.type
      /\ \/ Len(known) = Len(reports)
         \/ Len(known) = Len(reports) + 1 /\ at = Len(reports) + 1 /\ known[at].fields = <<>>
      /\ \A r \in 1..Len(reports) : known[r] = reports[r]
  BY <1>1, KnownFacts
<1>6. /\ new \in Seq(Filled) /\ Len(new) = Len(known)
      /\ \A r \in 1..Len(known) : r # at => new[r] = known[r]
      /\ SameKey(new[at], known[at])
  BY <1>1, <1>2, <1>5, OneMoreField
<1>7. /\ known[at].fields \in Seq(Nat) /\ new[at].fields = Append(known[at].fields, n + 1)
      /\ Len(new[at].fields) = Len(known[at].fields) + 1
      /\ new[at].fields[Len(known[at].fields) + 1] = n + 1
      /\ \A a \in 1..Len(known[at].fields) : new[at].fields[a] = known[at].fields[a]
  <2>1. known[at] \in Filled
    BY <1>5
  <2>2. known[at].fields \in Seq(Nat)
    BY <2>1 DEF Filled
  <2>3. new = [known EXCEPT ![at].fields = Append(@, n + 1)]
    BY <1>1 DEF WithField
  <2>4. new[at].fields = Append(known[at].fields, n + 1)
    <3>1. known \in [1..Len(known) -> Filled]
      BY <1>5
    <3>2. new[at] = [known[at] EXCEPT !.fields = Append(@, n + 1)]
      BY <1>5, <2>3, <3>1
    <3>3. QED
      BY <2>1, <3>2 DEF Filled
  <2>5. QED
    BY <1>2, <2>2, <2>4, AppendProperties
<1>8. Len(reports) \in Nat /\ Len(known) \in Nat /\ Len(known[at].fields) \in Nat
  BY <1>5, <1>7
<1> DEFINE Good(s, key) == /\ \A a \in 1..Len(s) : s[a] \in 1..n /\ SameKey(declared[s[a]], key)
                           /\ \A a, b \in 1..Len(s) : a < b => s[a] < s[b]
<1>9. ASSUME NEW r \in 1..Len(known) PROVE Good(known[r].fields, known[r])
  <2>1. CASE r \in 1..Len(reports)
    BY <1>1, <1>5, <2>1 DEF Shared
  <2>2. CASE r \notin 1..Len(reports)
    <3>1. r = at /\ known[at].fields = <<>>
      BY <1>5, <1>8, <2>2
    <3>2. QED
      BY <3>1
  <2>3. QED
    BY <2>1, <2>2
<1>10. ASSUME NEW r \in 1..Len(new)
       PROVE  /\ \A a \in 1..Len(new[r].fields) :
                   /\ new[r].fields[a] \in 1..Len(more)
                   /\ SameKey(more[new[r].fields[a]], new[r])
              /\ \A a, b \in 1..Len(new[r].fields) :
                   a < b => new[r].fields[a] < new[r].fields[b]
  <2>1. CASE r # at
    <3>1. new[r] = known[r] /\ Good(known[r].fields, known[r])
      BY <1>6, <1>9, <2>1
    <3>2. PICK s : s = known[r].fields
      OBVIOUS
    <3>3. \A a \in 1..Len(s) : s[a] \in 1..n /\ SameKey(declared[s[a]], new[r])
      BY <3>1, <3>2
    <3>4. \A x \in 1..n : x \in 1..n + 1 /\ more[x] = declared[x]
      BY <1>2, <1>4
    <3>5. \A a \in 1..Len(s) : s[a] \in 1..n + 1 /\ SameKey(more[s[a]], new[r])
      BY <3>3, <3>4
    <3>6. QED
      BY <1>4, <3>1, <3>2, <3>5
  <2>2. CASE r = at
    <3>1. PICK s, t, m : s = known[at].fields /\ t = new[at].fields /\ m = Len(s)
      OBVIOUS
    <3>2. /\ m \in Nat /\ Len(t) = m + 1 /\ t[m + 1] = n + 1 /\ \A a \in 1..m : t[a] = s[a]
      BY <1>7, <1>8, <3>1
    <3>3. Good(s, known[at])
      BY <1>5, <1>9, <3>1
    <3>4. \A x \in 1..n : x \in 1..n + 1 /\ x < n + 1 /\ more[x] = declared[x]
      BY <1>2, <1>4
    <3>5. n + 1 \in 1..n + 1
      BY <1>2
    <3>6. SameKey(d, new[at])
      BY <1>5, <1>6 DEF SameKey
    <3>7. ASSUME NEW a \in 1..m
          PROVE  t[a] \in 1..n + 1 /\ SameKey(more[t[a]], new[at]) /\ t[a] < n + 1
      <4>1. t[a] = s[a] /\ s[a] \in 1..n /\ SameKey(declared[s[a]], known[at])
        BY <3>1, <3>2, <3>3
      <4>2. SameKey(declared[s[a]], new[at])
        BY <1>6, <4>1 DEF SameKey
      <4>3. QED
        BY <3>4, <4>1, <4>2
    <3>8. \A a \in 1..m + 1 : a \in 1..m \/ a = m + 1
      BY <3>2
    <3>9. \A a \in 1..Len(t) : t[a] \in 1..n + 1 /\ SameKey(more[t[a]], new[at])
      BY <1>4, <3>2, <3>5, <3>6, <3>7, <3>8
    <3>10. ASSUME NEW a \in 1..m + 1, NEW b \in 1..m + 1, a < b PROVE t[a] < t[b]
      <4>1. a \in 1..m
        BY <3>2, <3>10
      <4>2. CASE b \in 1..m
        <5>1. s[a] < s[b]
          BY <3>1, <3>3, <3>10, <4>1, <4>2
        <5>2. QED
          BY <3>2, <4>1, <4>2, <5>1
      <4>3. CASE b = m + 1
        BY <3>2, <3>7, <4>1, <4>3
      <4>4. QED
        BY <3>8, <4>2, <4>3
    <3>11. QED
      BY <1>4, <2>2, <3>1, <3>2, <3>9, <3>10
  <2>3. QED
    BY <2>1, <2>2
<1>11. ASSUME NEW k \in 1..n + 1
       PROVE  \E r \in 1..Len(new) : SameKey(more[k], new[r]) /\ Contains(new[r].fields, k)
  <2>1. CASE k \in 1..n
    <3>1. PICK r \in 1..Len(reports) : /\ SameKey(declared[k], reports[r])
                                       /\ Contains(reports[r].fields, k)
      BY <1>1, <2>1 DEF Shared
    <3>2. r \in 1..Len(known) /\ r \in 1..Len(new) /\ known[r] = reports[r]
      BY <1>5, <1>6, <1>8
    <3>3. SameKey(new[r], known[r])
      <4>1. CASE r = at
        BY <1>6, <4>1
      <4>2. CASE r # at
        BY <1>6, <3>2, <4>2 DEF SameKey
      <4>3. QED
        BY <4>1, <4>2
    <3>4. Contains(new[r].fields, k)
      <4>1. CASE r # at
        BY <1>6, <3>1, <3>2, <4>1
      <4>2. CASE r = at
        <5>1. PICK a \in 1..Len(known[at].fields) : known[at].fields[a] = k
          BY <3>1, <3>2, <4>2 DEF Contains
        <5>2. a \in 1..Len(new[at].fields) /\ new[at].fields[a] = k
          BY <1>7, <1>8, <5>1
        <5>3. QED
          BY <4>2, <5>2 DEF Contains
      <4>3. QED
        BY <4>1, <4>2
    <3>5. SameKey(more[k], new[r])
      BY <1>4, <2>1, <3>1, <3>2, <3>3 DEF SameKey
    <3>6. QED
      BY <3>2, <3>4, <3>5
  <2>2. CASE k = n + 1
    <3>1. at \in 1..Len(new) /\ SameKey(more[k], new[at])
      BY <1>4, <1>5, <1>6, <2>2 DEF SameKey
    <3>2. Contains(new[at].fields, k)
      <4>1. Len(known[at].fields) + 1 \in 1..Len(new[at].fields)
        BY <1>7, <1>8
      <4>2. QED
        BY <1>7, <2>2, <4>1 DEF Contains
    <3>3. QED
      BY <3>1, <3>2
  <2>3. QED
    BY <1>2, <2>1, <2>2
<1>12. Shared(new, more)
  BY <1>4, <1>10, <1>11 DEF Shared
<1>13. QED
  BY <1>1, <1>3, <1>12

(* A field that is reserved is one more of those declared.                  *)
LEMMA ReserveLayout ==
  ASSUME NEW S, NEW declared \in Seq(S), NEW d \in S, d.id \in Data, d.type \in FieldItem,
         NEW tree, TreeOK(tree), NEW fit, Layout(tree, declared, fit),
         NEW field, FieldMatches(field, d, fit),
         ReserveField(tree, d.id, d.type, field).ok
  PROVE  Layout(ReserveField(tree, d.id, d.type, field), Append(declared, d), fit)
<1>1. PICK new, known, at, n : /\ new = ReserveField(tree, d.id, d.type, field)
                               /\ known = Known(tree.reports, d.id, d.type)
                               /\ at = Place(tree.reports, d.id, d.type)
                               /\ n = Len(declared)
  OBVIOUS
<1> DEFINE full == \/ ~tree.ok
                   \/ Len(tree.fields) >= tree.room.fields
                   \/ Len(known) > tree.room.reports
                   \/ Len(known[at].fields) >= tree.room.perReport
<1>2. new = IF full THEN [tree EXCEPT !.ok = FALSE]
            ELSE [tree EXCEPT !.fields = Append(@, field),
                              !.reports = WithField(known, at, Len(tree.fields) + 1)]
  BY <1>1, ReserveFits
<1>3. ~full
  <2> SUFFICES ASSUME full PROVE FALSE
    OBVIOUS
  <2>1. new = [tree EXCEPT !.ok = FALSE]
    BY <1>2
  <2> HIDE DEF full
  <2>2. new.ok = FALSE
    BY <2>1 DEF TreeOK
  <2>3. QED
    BY <1>1, <2>2
<1> HIDE DEF full
<1>4. /\ new.fields = Append(tree.fields, field)
      /\ new.reports = WithField(known, at, Len(tree.fields) + 1)
  BY <1>2, <1>3 DEF TreeOK
<1>5. /\ n \in Nat /\ Len(tree.fields) = n
      /\ \A k \in 1..n : FieldMatches(tree.fields[k], declared[k], fit)
      /\ Shared(tree.reports, declared)
  BY <1>1 DEF Layout
<1>6. /\ Len(new.fields) = n + 1 /\ new.fields[n + 1] = field
      /\ \A k \in 1..n : new.fields[k] = tree.fields[k]
  <2>1. PICK R : R = Range(tree.fields) \cup {field}
    OBVIOUS
  <2>2. tree.fields \in Seq(R) /\ field \in R
    BY <2>1, SeqMonotonic DEF TreeOK
  <2>3. QED
    BY <1>4, <1>5, <2>2, AppendProperties
<1>7. PICK more : more = Append(declared, d)
  OBVIOUS
<1>8. Len(more) = n + 1 /\ more[n + 1] = d /\ \A k \in 1..n : more[k] = declared[k]
  BY <1>1, <1>7, AppendProperties
<1>9. ASSUME NEW k \in 1..n + 1 PROVE FieldMatches(new.fields[k], more[k], fit)
  <2>1. k \in 1..n \/ k = n + 1
    BY <1>5
  <2>2. QED
    BY <1>5, <1>6, <1>8, <2>1
<1>10. Shared(new.reports, more)
  <2>1. tree.reports \in Seq(Filled) /\ Distinct(tree.reports)
    BY DEF TreeOK
  <2>2. Shared(WithField(known, at, n + 1), more)
    BY <1>1, <1>5, <1>7, <2>1, OneMoreShared
  <2>3. QED
    BY <1>4, <1>5, <2>2
<1>11. Layout(new, more, fit)
  BY <1>6, <1>8, <1>9, <1>10 DEF Layout
<1>12. QED
  BY <1>1, <1>7, <1>11

(* So are those of a whole item.                                            *)
LEMMA FillLayout ==
  ASSUME NEW S, NEW declared \in Seq(S), NEW ds \in Seq(S),
         NEW tree, TreeOK(tree), NEW item, item.tag \in FieldItem, FillFields(tree, item).ok,
         NEW fit, Layout(tree, declared, fit),
         Len(ds) = FieldsOf(item, Last(tree.stack)),
         \A f \in 1..Len(ds) :
           /\ ds[f].id = Last(tree.stack).id /\ ds[f].type = item.tag
           /\ FieldMatches(Field(Last(tree.stack), tree.local, tree.active, item, f - 1), ds[f], fit)
  PROVE  Layout(FillFields(tree, item), declared \o ds, fit)
<1>1. PICK n, c, new : n = Len(ds) /\ c = Len(declared) /\ new = FillFields(tree, item)
  OBVIOUS
<1>2. n \in Nat /\ c \in Nat /\ n = FieldsOf(item, Last(tree.stack)) /\ Last(tree.stack).id \in Data
  BY <1>1, FieldsOfFacts DEF TreeOK
<1>3. ~TooManyUsages(tree, item)
  <2> SUFFICES ASSUME TooManyUsages(tree, item) PROVE FALSE
    OBVIOUS
  <2>1. new = [tree EXCEPT !.ok = FALSE]
    BY <1>1 DEF FillFields
  <2>2. new.ok = FALSE
    BY <2>1 DEF TreeOK
  <2>3. QED
    BY <1>1, <2>2
<1>4. PICK g : FieldsSolves(g, tree, item, n) /\ new = g[n]
  BY <1>1, <1>2, <1>3, FillFieldsIsLast
<1> DEFINE field(f) == Field(Last(tree.stack), tree.local, tree.active, item, f)
           Longer(s, m) == /\ s \in Seq(S) /\ Len(s) = c + m
                           /\ \A k \in 1..c : s[k] = declared[k]
                           /\ \A f \in 1..m : s[c + f] = ds[f]
           Done(m) == /\ TreeOK(g[m])
                      /\ g[m].ok => \E s : Longer(s, m) /\ Layout(g[m], s, fit)
           T == {m \in Nat : m <= n => Done(m)}
<1>5. /\ g[0] = tree
      /\ \A f \in 1..n : g[f] = ReserveField(g[f - 1], Last(tree.stack).id, item.tag, field(f - 1))
  BY <1>2, <1>4 DEF FieldsSolves
<1>6. \A f \in 1..n : /\ ds[f] \in S /\ ds[f].id = Last(tree.stack).id /\ ds[f].type = item.tag
                      /\ FieldMatches(field(f - 1), ds[f], fit)
  BY <1>1
<1> HIDE DEF field
<1>7. 0 \in T
  <2>1. Longer(declared, 0)
    BY <1>1
  <2>2. QED
    BY <1>5, <2>1
<1>8. ASSUME NEW m \in Nat, m \in T PROVE m + 1 \in T
  <2> HIDE DEF Done
  <2> SUFFICES ASSUME m + 1 <= n PROVE Done(m + 1)
    OBVIOUS
  <2>1. Done(m)
    BY <1>2, <1>8
  <2>2. PICK f \in 1..n : f = m + 1 /\ f - 1 = m
    BY <1>2
  <2>3. g[f] = ReserveField(g[m], ds[f].id, ds[f].type, field(m))
    BY <1>5, <1>6, <2>2
  <2>4. TreeOK(g[m])
    BY <2>1 DEF Done
  <2>5. TreeOK(g[f]) /\ (g[f].ok => g[m].ok)
    BY <1>2, <1>6, <2>3, <2>4, ReserveFieldOK
  <2>6. ASSUME g[f].ok PROVE \E s : Longer(s, f) /\ Layout(g[f], s, fit)
    <3>1. PICK s : Longer(s, m) /\ Layout(g[m], s, fit)
      BY <2>1, <2>5, <2>6 DEF Done
    <3>2. PICK t : t = Append(s, ds[f])
      OBVIOUS
    <3>3. Layout(g[f], t, fit)
      <4>1. FieldMatches(field(m), ds[f], fit) /\ ds[f] \in S /\ ds[f].id \in Data
            /\ ds[f].type \in FieldItem
        BY <1>2, <1>6, <2>2
      <4>2. s \in Seq(S) /\ Layout(g[m], s, fit)
        BY <3>1
      <4> HIDE DEF Longer
      <4>3. QED
        BY <2>3, <2>4, <2>6, <3>2, <4>1, <4>2, ReserveLayout
    <3>4. Longer(t, f)
      <4>1. s \in Seq(S) /\ Len(s) = c + m /\ ds[f] \in S
        BY <1>6, <3>1
      <4>2. /\ t \in Seq(S) /\ Len(t) = c + m + 1 /\ t[c + m + 1] = ds[f]
            /\ \A k \in 1..c + m : t[k] = s[k]
        BY <3>2, <4>1, AppendProperties
      <4>3. c + m + 1 = c + f /\ (\A k \in 1..c : k \in 1..c + m)
            /\ \A j \in 1..f : j = f \/ (j \in 1..m /\ c + j \in 1..c + m)
        BY <1>2, <2>2
      <4>4. \A k \in 1..c : t[k] = declared[k]
        BY <3>1, <4>2, <4>3
      <4>5. \A j \in 1..f : t[c + j] = ds[j]
        <5>1. TAKE j \in 1..f
        <5>2. CASE j = f
          BY <4>2, <4>3, <5>2
        <5>3. CASE j \in 1..m /\ c + j \in 1..c + m
          BY <3>1, <4>2, <5>3
        <5>4. QED
          BY <4>3, <5>2, <5>3
      <4>6. QED
        BY <4>2, <4>3, <4>4, <4>5
    <3>5. QED
      BY <3>3, <3>4
  <2>7. QED
    BY <2>2, <2>5, <2>6 DEF Done
<1>9. n \in T
  <2> HIDE DEF T
  <2>1. QED
    BY <1>2, <1>7, <1>8, NatSetInduction
<1>10. PICK s : Longer(s, n) /\ Layout(new, s, fit)
  BY <1>1, <1>2, <1>4, <1>9
<1>11. s = declared \o ds
  <2>1. PICK t : t = declared \o ds
    OBVIOUS
  <2>2. /\ t \in Seq(S) /\ Len(t) = c + n
        /\ \A i \in 1..c + n : t[i] = IF i <= c THEN declared[i] ELSE ds[i - c]
    BY <1>1, <2>1, ConcatProperties
  <2>3. ASSUME NEW i \in 1..c + n PROVE s[i] = t[i]
    <3>1. CASE i <= c
      <4>1. i \in 1..c
        BY <3>1
      <4>2. QED
        BY <1>10, <2>2, <3>1, <4>1
    <3>2. CASE ~(i <= c)
      <4>1. i - c \in 1..n /\ c + (i - c) = i
        BY <1>2, <3>2
      <4>2. QED
        BY <1>10, <2>2, <3>2, <4>1
    <3>3. QED
      BY <3>1, <3>2
  <2>4. s \in Seq(S) /\ Len(s) = c + n
    BY <1>10
  <2> HIDE DEF Longer
  <2>5. s = t
    BY <2>2, <2>3, <2>4, SeqEqual
  <2>6. QED
    BY <2>1, <2>5
<1>12. QED
  BY <1>1, <1>10, <1>11

(* The settings an item has, and how many fields they give it.              *)
LEMMA SettingsAtItem ==
  ASSUME NEW g, Run(g), NEW i \in 1..Len(descriptor), descriptor[i].tag \in FieldItem
  PROVE  LET settings == Last(g[i - 1].stack)
             n == FieldsOf(descriptor[i], settings)
         IN  /\ settings \in Settings
             /\ \A tag \in SettingTag : settings[tag] = SettingAt(tag, i)
             /\ settings.count \in Nat /\ settings.size \in Nat
             /\ n \in Nat /\ n = (IF descriptor[i].data = "constant" THEN 1 ELSE settings.count)
             /\ FieldsAt(i) = [f \in 1..n |-> FieldAt(i, f - 1)]
             /\ descriptor[i].data \in {"constant", "variable", "array"}
<1>0. /\ Len(descriptor) \in Nat /\ i - 1 \in 0..Len(descriptor)
      /\ \A j \in 1..Len(descriptor) : descriptor[j] \in AnyItem
  BY RunTrees, RunSteps
<1>1. PICK settings : settings = Last(g[i - 1].stack)
  OBVIOUS
<1>2. settings \in Settings
  <2>1. g[i - 1].stack \in Seq(Settings) /\ g[i - 1].stack # <<>>
    BY <1>0, RunTrees DEF TreeOK
  <2>2. QED
    BY <1>1, <2>1, EmptySeq DEF Last
<1>3. \A tag \in SettingTag : settings[tag] = SettingAt(tag, i)
  <2>1. PICK h \in 0..Len(descriptor) : h = i - 1 /\ h + 1 = i
    BY <1>0
  <2>2. \A tag \in SettingTag : Last(g[h].stack)[tag] = SettingAt(tag, h + 1)
    BY SettingsGiven
  <2>3. QED
    BY <1>1, <2>1, <2>2
<1>4. settings.count = SettingAt("count", i)
  BY <1>3 DEF SettingTag
<1>5. settings.count \in Nat
  <2>1. settings.count \in 0..Counter - 1 /\ Counter \in Nat
    BY <1>2, HidDescriptorAssumption DEF Settings
  <2>2. QED
    BY <2>1
<1>6. settings.size = SettingAt("size", i)
  BY <1>3 DEF SettingTag
<1>7. settings.size \in Nat
  <2>1. CASE GivenAt("size", i) = {}
    BY <1>6, <2>1 DEF SettingAt
  <2>2. CASE GivenAt("size", i) # {}
    <3>1. GivenAt("size", i) \in SUBSET (1..i - 1) /\ i - 1 \in Nat
      BY <1>0 DEF GivenAt
    <3>2. PICK j : j = Max(GivenAt("size", i)) /\ j \in GivenAt("size", i)
      BY <2>2, <3>1, FirstAndLast
    <3>3. descriptor[j].tag = "size" /\ descriptor[j] \in AnyItem
      BY <1>0, <3>2 DEF GivenAt
    <3>4. descriptor[j].data \in Nat
      BY <3>3, HidDescriptorAssumption
    <3>5. QED
      BY <1>6, <2>2, <3>2, <3>4 DEF SettingAt
  <2>3. QED
    BY <2>1, <2>2
<1>8. PICK n : n = FieldsOf(descriptor[i], settings)
  OBVIOUS
<1>9. n = IF descriptor[i].data = "constant" THEN 1 ELSE settings.count
  BY <1>8 DEF FieldsOf
<1>10. n \in Nat
  BY <1>5, <1>9
<1>11. FieldsAt(i) = [f \in 1..n |-> FieldAt(i, f - 1)]
  BY <1>4, <1>9 DEF FieldsAt
<1>12. descriptor[i].data \in {"constant", "variable", "array"}
  BY <1>0, HidDescriptorAssumption DEF FieldItem
<1>13. QED
  BY <1>1, <1>2, <1>3, <1>5, <1>8, <1>9, <1>10, <1>11, <1>12, <1>7

(* Each field the parser makes of an item is as declared.                   *)
LEMMA FieldGiven ==
  ASSUME NEW g, Run(g), NEW i \in 1..Len(descriptor), descriptor[i].tag \in FieldItem,
         NEW f \in 1..FieldsOf(descriptor[i], Last(g[i - 1].stack))
  PROVE  FieldMatches(Field(Last(g[i - 1].stack), g[i - 1].local, g[i - 1].active,
                            descriptor[i], f - 1),
                      FieldAt(i, f - 1),
                      Len(g[Len(descriptor)].collections) <= Counter \div 2)
<1>1. PICK settings, local, active, item, fit, field, d, U, n :
        /\ settings = Last(g[i - 1].stack) /\ local = g[i - 1].local /\ active = g[i - 1].active
        /\ item = descriptor[i] /\ field = Field(settings, local, active, item, f - 1)
        /\ d = FieldAt(i, f - 1) /\ U = UsagesAt(i) /\ n = Len(descriptor)
        /\ fit = (Len(g[Len(descriptor)].collections) <= Counter \div 2)
  OBVIOUS
<1>2. /\ settings \in Settings /\ \A tag \in SettingTag : settings[tag] = SettingAt(tag, i)
      /\ settings.count \in Nat /\ settings.size \in Nat
      /\ FieldsOf(item, settings) = IF item.data = "constant" THEN 1 ELSE settings.count
      /\ item.data \in {"constant", "variable", "array"}
  BY <1>1, SettingsAtItem
<1>3. PICK h \in 0..Len(descriptor) : h = i - 1 /\ h + 1 = i
  BY RunSteps
<1>4. n \in Nat /\ U \in SUBSET (1..n) /\ Remembers(local, U)
  <2>1. n \in Nat
    BY <1>1, RunTrees
  <2>2. UsagesAt(i) \in SUBSET (1..i - 1)
    BY <1>1, <2>1, UsagesStep
  <2>3. Remembers(g[h].local, UsagesAt(h + 1))
    BY UsagesGiven
  <2>4. QED
    BY <1>1, <1>3, <2>1, <2>2, <2>3
<1>5. /\ settings.page = SettingAt("page", i) /\ settings.size = SettingAt("size", i)
      /\ settings.count = SettingAt("count", i)
  BY <1>2 DEF SettingTag
<1>6. fit => active = CollectionAt(i)
  <2>1. HAVE fit
  <2>2. g[h].active = CollectionAt(h + 1)
    BY <1>1, <2>1, CollectionsGiven
  <2>3. QED
    BY <1>1, <1>3, <2>2
<1>7. /\ d.f = f - 1 /\ d.kind = item.data /\ d.usages = U /\ d.collection = CollectionAt(i)
      /\ d.size = (IF item.data = "constant" THEN settings.size * settings.count
                   ELSE settings.size)
      /\ d.page = IF item.data = "constant" THEN 0 ELSE PageAt(i, f - 1)
  BY <1>1, <1>5 DEF FieldAt
<1>8. d.size \in Nat
  <2>1. settings.size \in Nat /\ settings.size * settings.count \in Nat
    BY <1>2
  <2>2. QED
    BY <1>7, <2>1
<1> DEFINE usage == VariableUsage(local, f - 1)
           first == local.list[MAX_USAGES]
<1>9. ListLimited(d) => first = LastOf(U, "usageMin")
  <2>1. HAVE ListLimited(d)
  <2>2. Cardinality(Listed(U)) <= MAX_USAGES
    BY <1>7, <2>1 DEF ListLimited
  <2>3. local.n <= MAX_USAGES
    BY <1>4, <2>2 DEF Remembers
  <2>4. QED
    BY <1>4, <2>3 DEF Remembers
<1>9a. ListLimited(d) /\ item.data = "variable" => usage = UsageOf(U, f - 1)
  <2>1. HAVE ListLimited(d) /\ item.data = "variable"
  <2>2. /\ Cardinality(Listed(U)) <= MAX_USAGES
        /\ ~Ranged(U) /\ Listed(U) = {} => f - 1 <= MAX_USAGES + 1
    BY <1>7, <2>1 DEF ListLimited
  <2>3. f - 1 \in Nat
    BY <1>1, <1>2, <2>1
  <2>4. QED
    BY <1>4, <2>2, <2>3, UsageFound
<1>9b. LastOf(d.usages, "usageMin").usage \in Nat
  <2>1. CASE Tagged(U, "usageMin") = {}
    BY <1>7, <2>1 DEF LastOf, Usage0
  <2>2. CASE Tagged(U, "usageMin") # {}
    <3>1. Tagged(U, "usageMin") \in SUBSET (1..n)
      BY <1>4 DEF Tagged
    <3>2. PICK j : j = Max(Tagged(U, "usageMin")) /\ j \in Tagged(U, "usageMin")
      BY <1>4, <2>2, <3>1, FirstAndLast
    <3>3. j \in 1..n /\ descriptor[j].tag = "usageMin"
      BY <3>1, <3>2 DEF Tagged
    <3>4. descriptor[j] \in AnyItem
      BY <1>1, <3>3, RunTrees
    <3>5. descriptor[j].data.usage \in Nat
      BY <3>3, <3>4, HidDescriptorAssumption
    <3>6. QED
      BY <1>7, <2>2, <3>2, <3>5 DEF LastOf
  <2>3. QED
    BY <2>1, <2>2
<1>10. PageAt(i, f - 1) = LET own == IF item.data = "variable" THEN UsageOf(U, f - 1).page
                                    ELSE LastOf(U, "usageMin").page
                         IN IF own = Null THEN settings.page ELSE own
  BY <1>1, <1>5 DEF PageAt
<1>11. (Ranged(U) => local.range = TRUE) /\ (~Ranged(U) => local.range = FALSE)
  BY <1>4 DEF Remembers
<1> HIDE DEF usage, first
<1>12. CASE item.data = "constant"
  <2>1. field = [collection |-> active, size |-> (settings.size * settings.count) % SizeLimit, min |-> 0,
                 kind |-> "value", usage |-> 0, page |-> 0]
    BY <1>1, <1>12 DEF Field
  <2>2. /\ field.collection = active /\ field.size = (settings.size * settings.count) % SizeLimit
        /\ field.kind = "value" /\ field.page = 0
    BY <2>1
  <2>3. FieldMatches(field, d, fit)
    BY <1>9b, <1>6, <1>7, <1>12, <1>8, <2>2 DEF FieldMatches
  <2>4. QED
    BY <1>1, <2>3
<1>13. CASE item.data = "variable"
  <2>1. field = [collection |-> active, size |-> settings.size % SizeLimit, min |-> settings.min,
                 kind |-> "value", usage |-> usage.usage, page |-> PageOr(usage.page, settings)]
    BY <1>1, <1>13 DEF Field, usage
  <2>2. /\ field.collection = active /\ field.size = settings.size % SizeLimit /\ field.kind = "value"
        /\ field.usage = usage.usage /\ field.page = PageOr(usage.page, settings)
    BY <2>1
  <2>3. ListLimited(d) => /\ field.usage = UsageOf(d.usages, d.f).usage
                          /\ field.page = d.page
    BY <1>7, <1>9a, <1>10, <1>13, <2>2 DEF PageOr
  <2>4. FieldMatches(field, d, fit)
    BY <1>9b, <1>6, <1>7, <1>13, <1>8, <2>2, <2>3 DEF FieldMatches
  <2>5. QED
    BY <1>1, <2>4
<1>14. CASE item.data = "array" /\ Ranged(U)
  <2>1. field = [collection |-> active, size |-> settings.size % SizeLimit, min |-> settings.min,
                 kind |-> "range", usage |-> first.usage, page |-> PageOr(first.page, settings)]
    BY <1>1, <1>11, <1>14 DEF Field, first
  <2>2. /\ field.collection = active /\ field.size = settings.size % SizeLimit /\ field.kind = "range"
        /\ field.usage = first.usage /\ field.page = PageOr(first.page, settings)
    BY <2>1
  <2>3. ListLimited(d) => /\ field.usage = LastOf(d.usages, "usageMin").usage
                          /\ field.page = d.page
    BY <1>7, <1>9, <1>10, <1>14, <2>2 DEF PageOr
  <2>4. FieldMatches(field, d, fit)
    BY <1>9b, <1>6, <1>7, <1>14, <1>8, <2>2, <2>3 DEF FieldMatches
  <2>5. QED
    BY <1>1, <2>4
<1>15. CASE item.data = "array" /\ ~Ranged(U)
  <2>1. PICK value : field = [collection |-> active, size |-> settings.size % SizeLimit, min |-> settings.min,
                              kind |-> "array", usage |-> value, page |-> 0]
    BY <1>1, <1>11, <1>15 DEF Field
  <2>2. /\ field.collection = active /\ field.size = settings.size % SizeLimit /\ field.kind = "array"
        /\ field.page = 0
    BY <2>1
  <2>3. FieldMatches(field, d, fit)
    BY <1>9b, <1>6, <1>7, <1>15, <1>8, <2>2 DEF FieldMatches
  <2>4. QED
    BY <1>1, <2>3
<1>16. QED
  BY <1>2, <1>12, <1>13, <1>14, <1>15

(* Everything that is declared, as the run of the parser has it.            *)
LEMMA LayoutGiven ==
  ASSUME NEW g, Run(g)
  PROVE  /\ \E S : Declared \in Seq(S)
         /\ Layout(g[Len(descriptor)], Declared,
                   Len(g[Len(descriptor)].collections) <= Counter \div 2)
<1>1. PICK n, fit : /\ n = Len(descriptor)
                    /\ fit = (Len(g[Len(descriptor)].collections) <= Counter \div 2)
  OBVIOUS
<1>2. n \in Nat /\ \A i \in 0..n : TreeOK(g[i])
  BY <1>1, RunTrees
<1> DEFINE S == {FieldAt(i, f) : i \in 1..n, f \in Int}
           parts == [i \in 1..n |-> FieldsAt(i)]
<1>3. ASSUME NEW i \in 1..n PROVE FieldsAt(i) \in Seq(S)
  <2>1. CASE descriptor[i].tag \in FieldItem
    <3>1. PICK m \in Nat : FieldsAt(i) = [f \in 1..m |-> FieldAt(i, f - 1)]
      BY <1>1, <2>1, SettingsAtItem
    <3>2. \A f \in 1..m : FieldAt(i, f - 1) \in S
      OBVIOUS
    <3> HIDE DEF S
    <3>3. FieldsAt(i) \in [1..m -> S]
      BY <3>1, <3>2
    <3>4. QED
      BY <3>3, SeqDef
  <2>2. CASE descriptor[i].tag \notin FieldItem
    <3>1. FieldsAt(i) = <<>>
      BY <2>2 DEF FieldsAt
    <3> HIDE DEF S
    <3>2. QED
      BY <3>1
  <2>3. QED
    BY <2>1, <2>2
<1> HIDE DEF S
<1>4. parts \in Seq(Seq(S)) /\ Len(parts) = n /\ \A i \in 1..n : parts[i] = FieldsAt(i)
  <2>1. parts \in [1..n -> Seq(S)]
    BY <1>3
  <2>2. \A i \in 1..n : parts[i] = FieldsAt(i)
    OBVIOUS
  <2>3. DOMAIN parts = 1..n
    OBVIOUS
  <2> HIDE DEF parts
  <2>4. parts \in Seq(Seq(S))
    BY <1>2, <2>1, SeqDef
  <2>5. Len(parts) = n
    <3>1. Len(parts) \in Nat /\ DOMAIN parts = 1..Len(parts)
      BY <2>4, LenProperties
    <3>2. QED
      BY <1>2, <2>3, <3>1
  <2>6. QED
    BY <2>2, <2>4, <2>5
<1>5. Declared = FlattenSeq(parts)
  BY <1>1 DEF Declared
<1> HIDE DEF parts
<1>6. PICK h : /\ h[0] = <<>> /\ \A i \in 1..n : h[i] = h[i - 1] \o FieldsAt(i)
               /\ Declared = h[n] /\ \A i \in 0..n : h[i] \in Seq(S)
  <2>1. PICK h : /\ Joins(h, parts) /\ FlattenSeq(parts) = h[Len(parts)]
                 /\ \A i \in 0..Len(parts) : h[i] \in Seq(S)
    BY <1>4, FlattenJoins
  <2>2. h[0] = <<>> /\ \A i \in 1..n : h[i] = h[i - 1] \o parts[i]
    BY <1>4, <2>1 DEF Joins
  <2>3. \A i \in 1..n : h[i] = h[i - 1] \o FieldsAt(i)
    <3>1. TAKE i \in 1..n
    <3>2. h[i] = h[i - 1] \o parts[i]
      BY <2>2
    <3>3. QED
      BY <1>4, <3>2
  <2>4. QED
    BY <1>4, <1>5, <2>1, <2>2, <2>3
<1> DEFINE Done(i) == Layout(g[i], h[i], fit)
           T == {i \in Nat : i <= n => Done(i)}
<1>7. 0 \in T
  <2>1. \E room \in Rooms : g[0] = Tree0(room)
    BY RunTrees
  <2>2. g[0].fields = <<>> /\ g[0].reports = <<>>
    BY <2>1 DEF Tree0
  <2>3. Len(g[0].fields) = 0 /\ Len(g[0].reports) = 0 /\ Len(h[0]) = 0
    BY <1>6, <2>2
  <2>4. QED
    BY <2>3 DEF Layout, Shared
<1>8. ASSUME NEW m \in Nat, m \in T PROVE m + 1 \in T
  <2> HIDE DEF Done
  <2> SUFFICES ASSUME m + 1 <= n PROVE Done(m + 1)
    OBVIOUS
  <2>1. PICK i \in 1..n : i = m + 1 /\ i - 1 = m /\ m <= n /\ m \in 0..n
    BY <1>2
  <2>2. Layout(g[m], h[m], fit)
    <3>1. Done(m)
      BY <1>8, <2>1
    <3>2. QED
      BY <3>1 DEF Done
  <2>3. FieldStep(g[m], g[i], descriptor[i])
    BY <1>1, <2>1, RunSteps
  <2>4. h[i] = h[m] \o FieldsAt(i) /\ h[m] \in Seq(S) /\ TreeOK(g[m])
    <3>1. h[i] = h[i - 1] \o FieldsAt(i)
      BY <1>6
    <3>2. h[i] = h[m] \o FieldsAt(i)
      BY <2>1, <3>1
    <3>3. QED
      BY <1>2, <1>6, <2>1, <3>2
  <2>5. CASE descriptor[i].tag \in FieldItem
    <3>1. PICK ds : ds = FieldsAt(i) /\ ds \in Seq(S)
      BY <1>3
    <3>2. PICK k : k = FieldsOf(descriptor[i], Last(g[m].stack))
      OBVIOUS
    <3>3. /\ k \in Nat /\ ds = [f \in 1..k |-> FieldAt(i, f - 1)]
          /\ Last(g[m].stack)["id"] = SettingAt("id", i)
      <4>1. "id" \in SettingTag
        BY DEF SettingTag
      <4>2. QED
        BY <1>1, <2>1, <2>5, <3>1, <3>2, <4>1, SettingsAtItem
    <3>4. Len(ds) = k
      <4>1. Len(ds) \in Nat /\ DOMAIN ds = 1..Len(ds)
        BY <3>1, LenProperties
      <4>2. DOMAIN ds = 1..k
        BY <3>3
      <4>3. QED
        BY <3>3, <4>1, <4>2
    <3>5. ASSUME NEW f \in 1..Len(ds)
          PROVE  /\ ds[f].id = Last(g[m].stack).id /\ ds[f].type = descriptor[i].tag
                 /\ FieldMatches(Field(Last(g[m].stack), g[m].local, g[m].active,
                                       descriptor[i], f - 1), ds[f], fit)
      <4>1. f \in 1..k /\ ds[f] = FieldAt(i, f - 1)
        BY <3>3, <3>4
      <4>2. FieldAt(i, f - 1).id = SettingAt("id", i) /\ FieldAt(i, f - 1).type = descriptor[i].tag
        BY DEF FieldAt
      <4>3. FieldMatches(Field(Last(g[m].stack), g[m].local, g[m].active,
                               descriptor[i], f - 1), FieldAt(i, f - 1), fit)
        BY <1>1, <2>1, <2>5, <3>2, <4>1, FieldGiven
      <4>4. QED
        BY <3>3, <4>1, <4>2, <4>3
    <3>6. PICK filled : filled = FillFields(g[m], descriptor[i])
      OBVIOUS
    <3>7. filled.ok /\ g[i].fields = filled.fields /\ g[i].reports = filled.reports
      BY <2>3, <2>5, <3>6 DEF FieldStep
    <3>8. Layout(filled, h[m] \o ds, fit)
      BY <2>2, <2>4, <2>5, <3>1, <3>2, <3>4, <3>5, <3>6, <3>7, FillLayout
    <3>9. Layout(filled, h[i], fit)
      BY <2>4, <3>1, <3>8
    <3>10. QED
      BY <2>1, <3>7, <3>9 DEF Done, Layout
  <2>6. CASE descriptor[i].tag \notin FieldItem
    <3>1. FieldsAt(i) = <<>>
      BY <2>6 DEF FieldsAt
    <3>2. h[i] = h[m]
      BY <2>4, <3>1, ConcatEmptySeq
    <3>3. g[i].fields = g[m].fields /\ g[i].reports = g[m].reports
      BY <2>3, <2>6 DEF FieldStep
    <3>4. QED
      BY <2>1, <2>2, <3>2, <3>3 DEF Done, Layout
  <2>7. QED
    BY <2>5, <2>6
<1>9. n \in T
  <2> HIDE DEF T
  <2>1. QED
    BY <1>2, <1>7, <1>8, NatSetInduction
<1>10. Declared \in Seq(S) /\ Layout(g[n], Declared, fit)
  BY <1>2, <1>6, <1>9
<1>11. QED
  BY <1>1, <1>10

-----------------------------------------------------------------------------
(* What is kept of a descriptor that is not refused.                        *)

LEMMA ParsedRun ==
  ASSUME ParsedInv, hid # Null, Parsed, NumbersFit
  PROVE  \E g : Run(g) /\ hid.tree = g[Len(descriptor)]
<1>1. descriptor \in Seq(AnyItem) /\ hid.tree = Parse(descriptor) /\ hid.tree.ok
  BY DEF ParsedInv, Parsed
<1>2. PICK sum, room, tree : /\ sum = Count(descriptor) /\ room = Room(sum)
                             /\ tree = Fill(descriptor, room)
  OBVIOUS
<1>3. Parse(descriptor) = IF sum.ok /\ tree.ok THEN tree ELSE NoTree
  BY <1>2 DEF Parse
<1>4. ~NoTree.ok
  BY DEF NoTree
<1>5. hid.tree = tree /\ tree.ok
  BY <1>1, <1>3, <1>4
<1>6. PICK g : TreesOf(g, descriptor, room) /\ tree = g[Len(descriptor)]
  BY <1>1, <1>2, FillIsLast
<1>7. room \in Rooms
  <2>1. PICK f : SumsOf(f, descriptor) /\ Count(descriptor) = f[Len(descriptor)]
    BY <1>1, CountIsLast
  <2>2. Len(descriptor) \in 0..Len(descriptor) /\ Len(descriptor) \in Nat
    BY <1>1
  <2>3. SumOK(sum, Len(descriptor))
    BY <1>1, <1>2, <2>1, <2>2, SumsGrow
  <2>4. QED
    BY <1>2, <2>2, <2>3, RoomFits
<1>8. QED
  BY <1>1, <1>5, <1>6, <1>7 DEF Run

LEMMA TreeLaidOut ==
  ASSUME ParsedInv, hid # Null, Parsed, NumbersFit
  PROVE  /\ Len(Declared) \in Nat /\ DOMAIN Declared = 1..Len(Declared)
         /\ TreeOK(Tree)
         /\ Layout(Tree, Declared, Len(Tree.collections) <= Counter \div 2)
<1>1. PICK g : Run(g) /\ Tree = g[Len(descriptor)]
  BY ParsedRun DEF Tree
<1>2. PICK S : Declared \in Seq(S)
  BY <1>1, LayoutGiven
<1>3. Len(Declared) \in Nat /\ DOMAIN Declared = 1..Len(Declared)
  BY <1>2, LenProperties
<1>4. Len(descriptor) \in 0..Len(descriptor)
  BY <1>1, RunTrees
<1>5. TreeOK(Tree)
  BY <1>1, <1>4, RunTrees
<1>6. Layout(Tree, Declared, Len(Tree.collections) <= Counter \div 2)
  BY <1>1, LayoutGiven
<1>7. QED
  BY <1>3, <1>5, <1>6

(* Each definition of a report has exactly the fields of that report.       *)
LEMMA ReportsLaidOut ==
  ASSUME ParsedInv, hid # Null, Parsed, NumbersFit
  PROVE  /\ Tree.reports \in Seq(Filled) /\ DOMAIN Tree.reports = 1..Len(Tree.reports)
         /\ \A r \in 1..Len(Tree.reports) :
              LET report == Tree.reports[r] IN
              /\ report.fields \in Seq(Nat)
              /\ DOMAIN report.fields = 1..Len(report.fields)
              /\ Range(report.fields) = FieldsOfReport(Declared, report.id, report.type)
              /\ \A a, b \in 1..Len(report.fields) :
                   a < b => report.fields[a] < report.fields[b]
         /\ \A k \in 1..Len(Declared) :
              \E r \in 1..Len(Tree.reports) : /\ SameKey(Declared[k], Tree.reports[r])
                                              /\ Contains(Tree.reports[r].fields, k)
<1>1. /\ Len(Declared) \in Nat /\ DOMAIN Declared = 1..Len(Declared)
      /\ TreeOK(Tree) /\ Layout(Tree, Declared, Len(Tree.collections) <= Counter \div 2)
  BY TreeLaidOut
<1>2. PICK reports, n : reports = Tree.reports /\ n = Len(Declared)
  OBVIOUS
<1>3. reports \in Seq(Filled) /\ Distinct(reports) /\ Shared(reports, Declared)
  BY <1>1, <1>2 DEF TreeOK, Layout
<1>4. DOMAIN reports = 1..Len(reports)
  BY <1>3, LenProperties
<1>5. ASSUME NEW r \in 1..Len(reports)
      PROVE  /\ reports[r].fields \in Seq(Nat)
             /\ DOMAIN reports[r].fields = 1..Len(reports[r].fields)
             /\ Range(reports[r].fields) = FieldsOfReport(Declared, reports[r].id, reports[r].type)
             /\ \A a, b \in 1..Len(reports[r].fields) :
                  a < b => reports[r].fields[a] < reports[r].fields[b]
  <2>1. reports[r] \in Filled
    BY <1>3
  <2>2. PICK fields : fields = reports[r].fields
    OBVIOUS
  <2>3. fields \in Seq(Nat)
    BY <2>1, <2>2 DEF Filled
  <2>4. DOMAIN fields = 1..Len(fields)
    BY <2>3, LenProperties
  <2>5. /\ \A a \in 1..Len(fields) : fields[a] \in 1..n /\ SameKey(Declared[fields[a]], reports[r])
        /\ \A a, b \in 1..Len(fields) : a < b => fields[a] < fields[b]
    BY <1>2, <1>3, <2>2 DEF Shared
  <2>6. ASSUME NEW k \in Range(fields) PROVE k \in FieldsOfReport(Declared, reports[r].id, reports[r].type)
    <3>1. PICK a \in 1..Len(fields) : k = fields[a]
      BY <2>4 DEF Range
    <3>2. QED
      BY <1>1, <1>2, <2>5, <3>1 DEF FieldsOfReport, SameKey
  <2>7. ASSUME NEW k \in FieldsOfReport(Declared, reports[r].id, reports[r].type)
        PROVE  k \in Range(fields)
    <3>1. k \in 1..n /\ SameKey(Declared[k], reports[r])
      BY <1>1, <1>2 DEF FieldsOfReport, SameKey
    <3>2. PICK q \in 1..Len(reports) : /\ SameKey(Declared[k], reports[q])
                                       /\ Contains(reports[q].fields, k)
      BY <1>2, <1>3, <3>1 DEF Shared
    <3>3. q = r
      BY <1>3, <3>1, <3>2 DEF Distinct, SameKey
    <3>4. Contains(fields, k)
      BY <2>2, <3>2, <3>3
    <3>5. PICK a \in 1..Len(fields) : fields[a] = k
      BY <2>4, <3>4 DEF Contains
    <3>6. QED
      BY <2>4, <3>5 DEF Range
  <2>8. Range(fields) = FieldsOfReport(Declared, reports[r].id, reports[r].type)
    BY <2>6, <2>7
  <2>9. QED
    BY <2>2, <2>3, <2>4, <2>5, <2>8
<1>6. \A k \in 1..n : \E r \in 1..Len(reports) : /\ SameKey(Declared[k], reports[r])
                                                 /\ Contains(reports[r].fields, k)
  BY <1>2, <1>3 DEF Shared
<1>7. QED
  BY <1>2, <1>3, <1>4, <1>5, <1>6

LEMMA SizeFits == \A size \in Nat : size < SizeLimit => size % SizeLimit = size
  BY HidDescriptorAssumption

(* LayoutAsDeclared: the parser makes one field of each declared one, of    *)
(* the declared size, and each report gets the fields declared for its id   *)
(* and type, in order: the bit hid_report_get_pressed_keys looks for a key  *)
(* at is where the device puts it.  For descriptors of any length whose     *)
(* report counts, report ids and usage pages fit what keeps them.           *)
THEOREM LayoutAsDeclaredInvariant == Spec => []LayoutAsDeclared
<1>1. ParsedInv => LayoutAsDeclared
  <2> SUFFICES ASSUME ParsedInv, Registered, Parsed, NumbersFit PROVE LayoutAsDeclared
    BY DEF LayoutAsDeclared
  <2>0. hid # Null
    BY DEF Registered
  <2>1. /\ DOMAIN Declared = 1..Len(Declared)
        /\ Layout(Tree, Declared, Len(Tree.collections) <= Counter \div 2)
    BY <2>0, TreeLaidOut
  <2>2. /\ Len(Tree.fields) = Len(Declared)
        /\ \A k \in DOMAIN Declared :
             Declared[k].size < SizeLimit => Tree.fields[k].size = Declared[k].size
    <3>1. Len(Tree.fields) = Len(Declared)
      BY <2>1 DEF Layout
    <3>2. ASSUME NEW k \in DOMAIN Declared, Declared[k].size < SizeLimit
          PROVE  Tree.fields[k].size = Declared[k].size
      <4>1. Tree.fields[k].size = Declared[k].size % SizeLimit /\ Declared[k].size \in Nat
        BY <2>1 DEF Layout, FieldMatches
      <4>2. Declared[k].size % SizeLimit = Declared[k].size
        BY <3>2, <4>1, SizeFits
      <4>3. QED
        BY <4>1, <4>2
    <3>3. QED
      BY <3>1, <3>2
  <2>3. \A r \in DOMAIN Tree.reports :
          LET report == Tree.reports[r] IN
          /\ Range(report.fields) = FieldsOfReport(Declared, report.id, report.type)
          /\ \A a, b \in DOMAIN report.fields : a < b => report.fields[a] < report.fields[b]
    BY <2>0, ReportsLaidOut
  <2>4. \A k \in DOMAIN Declared :
          \E r \in DOMAIN Tree.reports : Contains(Tree.reports[r].fields, k)
    BY <2>0, <2>1, ReportsLaidOut
  <2>5. QED
    BY <2>2, <2>3, <2>4 DEF LayoutAsDeclared
<1>2. QED
  BY <1>1, ParsedInvInductive, PTL

(* UsagesAsDeclared: whatever items came before it, a variable field has    *)
(* its own usage, listed or in a range, and the usage page that goes with   *)
(* it: the memset of local_state leaves no usage of an earlier item.  For   *)
(* numbers that fit, items that list up to MAX_USAGES usages, and those     *)
(* that give none up to the field where the list has been read to its end.  *)
THEOREM UsagesAsDeclaredInvariant == Spec => []UsagesAsDeclared
<1>1. ParsedInv => UsagesAsDeclared
  <2> SUFFICES ASSUME ParsedInv, Registered, Parsed, NumbersFit PROVE UsagesAsDeclared
    BY DEF UsagesAsDeclared
  <2>0. hid # Null
    BY DEF Registered
  <2>1. /\ DOMAIN Declared = 1..Len(Declared)
        /\ Layout(Tree, Declared, Len(Tree.collections) <= Counter \div 2)
    BY <2>0, TreeLaidOut
  <2>2. ASSUME NEW k \in DOMAIN Declared,
               Declared[k].kind = "variable", ListLimited(Declared[k])
        PROVE  /\ Tree.fields[k].usage = UsageOf(Declared[k].usages, Declared[k].f).usage
               /\ Tree.fields[k].page = Declared[k].page
    <3>1. FieldMatches(Tree.fields[k], Declared[k], Len(Tree.collections) <= Counter \div 2)
      BY <2>1, <2>2 DEF Layout
    <3>2. QED
      BY <2>2, <3>1 DEF FieldMatches
  <2>3. QED
    BY <2>2 DEF UsagesAsDeclared
<1>2. QED
  BY <1>1, ParsedInvInductive, PTL

(* CollectionsAsDeclared: a field is in the innermost collection that is    *)
(* open where it is declared, however collections are nested, as long as    *)
(* there are no more of them than an int8_t can index, and numbers fit.     *)
THEOREM CollectionsAsDeclaredInvariant == Spec => []CollectionsAsDeclared
<1>1. ParsedInv => CollectionsAsDeclared
  <2> SUFFICES ASSUME ParsedInv, Registered, Parsed, NumbersFit,
                      Len(Tree.collections) <= Counter \div 2
               PROVE  CollectionsAsDeclared
    BY DEF CollectionsAsDeclared
  <2>0. hid # Null
    BY DEF Registered
  <2>1. /\ DOMAIN Declared = 1..Len(Declared)
        /\ Layout(Tree, Declared, Len(Tree.collections) <= Counter \div 2)
    BY <2>0, TreeLaidOut
  <2>2. ASSUME NEW k \in DOMAIN Declared
        PROVE  Tree.fields[k].collection = Declared[k].collection
    <3>1. FieldMatches(Tree.fields[k], Declared[k], Len(Tree.collections) <= Counter \div 2)
      BY <2>1, <2>2 DEF Layout
    <3>2. QED
      BY <3>1 DEF FieldMatches
  <2>3. QED
    BY <2>2 DEF CollectionsAsDeclared
<1>2. QED
  BY <1>1, ParsedInvInductive, PTL

-----------------------------------------------------------------------------
(* Which interfaces are taken for keyboards.                                *)

KeyboardInv ==
  hid # Null => hid.keyboard = (hid.tree.ok /\ ContainsKeycodes(hid.tree))

LEMMA KeyboardInvInductive == Spec => []KeyboardInv
<1>1. Init => KeyboardInv
  BY DEF Init, KeyboardInv
<1>2. KeyboardInv /\ [Next]_vars => KeyboardInv'
  <2> SUFFICES ASSUME KeyboardInv, [Next]_vars PROVE KeyboardInv'
    OBVIOUS
  <2>1. ASSUME NEW item \in Items, Receive(item) PROVE KeyboardInv'
    BY <2>1 DEF Receive, KeyboardInv
  <2>2. CASE Register
    <3>1. PICK tree, useId : hid' = [tree |-> tree, useId |-> useId,
                                     keyboard |-> tree.ok /\ ContainsKeycodes(tree)]
      BY <2>2 DEF Register
    <3>2. hid'.tree = tree /\ hid'.keyboard = (tree.ok /\ ContainsKeycodes(tree))
      BY <3>1
    <3>3. QED
      BY <3>2 DEF KeyboardInv
  <2>3. ASSUME UNCHANGED hid PROVE KeyboardInv'
    BY <2>3 DEF KeyboardInv
  <2>4. ASSUME NEW data \in Reports, NEW protocol \in Protocol, HidReport(data, protocol)
        PROVE  KeyboardInv'
    BY <2>3, <2>4 DEF HidReport
  <2>5. CASE UNCHANGED vars
    BY <2>3, <2>5 DEF vars
  <2>6. QED
    BY <2>1, <2>2, <2>4, <2>5 DEF Next
<1>3. QED
  BY <1>1, <1>2, PTL DEF Spec

(* A field has the page of keys if and only if it is declared as keys and   *)
(* not in a list.                                                           *)
LEMMA PageOfKeys ==
  ASSUME NEW field, NEW d, NEW fit, FieldMatches(field, d, fit),
         ListLimited(d), d.type = "input"
  PROVE  field.page = Keyboard <=> d.page = Keyboard /\ d.kind # "constant" /\ ~KeyList(d)
<1>1. Keyboard # 0
  BY HidDescriptorAssumption
<1>2. CASE d.kind = "constant"
  BY <1>1, <1>2 DEF FieldMatches
<1>3. CASE d.kind = "variable"
  BY <1>3 DEF FieldMatches, KeyList
<1>4. CASE d.kind = "array" /\ Ranged(d.usages)
  BY <1>4 DEF FieldMatches, KeyList
<1>5. CASE d.kind = "array" /\ ~Ranged(d.usages)
  BY <1>1, <1>5 DEF FieldMatches, KeyList
<1>6. QED
  BY <1>2, <1>3, <1>4, <1>5 DEF FieldMatches

(* A field of keys makes a keyboard of the interface.                       *)
LEMMA KeycodesSeen ==
  ASSUME ParsedInv, hid # Null, Parsed, NumbersFit, NEW k \in 1..Len(Declared),
         Declared[k].type = "input", Tree.fields[k].page = Keyboard
  PROVE  ContainsKeycodes(Tree)
<1>1. PICK r \in 1..Len(Tree.reports) : /\ SameKey(Declared[k], Tree.reports[r])
                                        /\ Contains(Tree.reports[r].fields, k)
  BY ReportsLaidOut
<1>2. /\ DOMAIN Tree.reports = 1..Len(Tree.reports)
      /\ DOMAIN Tree.reports[r].fields = 1..Len(Tree.reports[r].fields)
  BY ReportsLaidOut
<1>3. PICK i \in 1..Len(Tree.reports[r].fields) : Tree.reports[r].fields[i] = k
  BY <1>1, <1>2 DEF Contains
<1>4. Tree.reports[r].type = "input"
  BY <1>1 DEF SameKey
<1>5. QED
  BY <1>2, <1>3, <1>4 DEF ContainsKeycodes

(* KeyboardsFound: hid_descriptor_contains_keycodes takes an interface for  *)
(* a keyboard exactly when one of its input reports declares a field of     *)
(* keys that is not a list; lists are what hid_report_descriptor.c:532      *)
(* misses.  For descriptors of any length whose numbers fit and whose       *)
(* usages are in the list (ListLimited).                                    *)
THEOREM KeyboardsFoundInvariant == Spec => []KeyboardsFound
<1>1. ParsedInv /\ KeyboardInv => KeyboardsFound
  <2> DEFINE keys == {k \in DOMAIN Declared :
                        /\ Declared[k].type = "input" /\ Declared[k].page = Keyboard
                        /\ Declared[k].kind # "constant" /\ ~KeyList(Declared[k])}
  <2> SUFFICES ASSUME ParsedInv, KeyboardInv, Registered, Parsed, NumbersFit,
                      \A k \in DOMAIN Declared : ListLimited(Declared[k])
               PROVE  hid.keyboard <=> keys # {}
    BY DEF KeyboardsFound
  <2>0. hid # Null
    BY DEF Registered
  <2>1. /\ DOMAIN Declared = 1..Len(Declared)
        /\ \A k \in 1..Len(Declared) :
             FieldMatches(Tree.fields[k], Declared[k], Len(Tree.collections) <= Counter \div 2)
    BY <2>0, TreeLaidOut DEF Layout
  <2>2. ASSUME NEW k \in 1..Len(Declared), Declared[k].type = "input"
        PROVE  Tree.fields[k].page = Keyboard <=> k \in keys
    <3>1. FieldMatches(Tree.fields[k], Declared[k], Len(Tree.collections) <= Counter \div 2)
      BY <2>1
    <3>2. ListLimited(Declared[k])
      BY <2>1
    <3>3. Tree.fields[k].page = Keyboard
            <=> /\ Declared[k].page = Keyboard /\ Declared[k].kind # "constant"
                /\ ~KeyList(Declared[k])
      BY <2>2, <3>1, <3>2, PageOfKeys
    <3>4. QED
      BY <2>1, <2>2, <3>3
  <2>3. hid.keyboard <=> ContainsKeycodes(Tree)
    <3>1. hid.keyboard = (Tree.ok /\ ContainsKeycodes(Tree))
      BY <2>0 DEF KeyboardInv, Tree
    <3>2. Tree.ok
      BY DEF Parsed, Tree
    <3>3. CASE ContainsKeycodes(Tree)
      <4>1. (Tree.ok /\ ContainsKeycodes(Tree)) = TRUE
        BY <3>2, <3>3
      <4>2. QED
        BY <3>1, <3>3, <4>1
    <3>4. CASE ~ContainsKeycodes(Tree)
      <4>1. (Tree.ok /\ ContainsKeycodes(Tree)) = FALSE
        BY <3>4
      <4>2. QED
        BY <3>1, <3>4, <4>1
    <3>5. QED
      BY <3>3, <3>4
  <2>4. ASSUME ContainsKeycodes(Tree) PROVE keys # {}
    <3>1. PICK r \in DOMAIN Tree.reports :
            /\ Tree.reports[r].type = "input"
            /\ \E i \in DOMAIN Tree.reports[r].fields :
                 Tree.fields[Tree.reports[r].fields[i]].page = Keyboard
      BY <2>4 DEF ContainsKeycodes
    <3>2. PICK i \in DOMAIN Tree.reports[r].fields :
            Tree.fields[Tree.reports[r].fields[i]].page = Keyboard
      BY <3>1
    <3>3. PICK k : k = Tree.reports[r].fields[i]
      OBVIOUS
    <3>4. k \in FieldsOfReport(Declared, Tree.reports[r].id, Tree.reports[r].type)
      <4>1. k \in Range(Tree.reports[r].fields)
        BY <3>2, <3>3 DEF Range
      <4>2. r \in 1..Len(Tree.reports)
        BY <2>0, <3>1, ReportsLaidOut
      <4>3. QED
        BY <2>0, <4>1, <4>2, ReportsLaidOut
    <3>5. k \in 1..Len(Declared) /\ Declared[k].type = "input"
      BY <2>1, <3>1, <3>4 DEF FieldsOfReport
    <3>6. k \in keys
      BY <2>2, <3>2, <3>3, <3>5
    <3>7. QED
      BY <3>6
  <2>5. ASSUME keys # {} PROVE ContainsKeycodes(Tree)
    <3>1. PICK k \in keys : TRUE
      BY <2>5
    <3>2. k \in 1..Len(Declared) /\ Declared[k].type = "input"
      BY <2>1
    <3>3. Tree.fields[k].page = Keyboard
      BY <2>2, <3>2
    <3>4. QED
      BY <2>0, <3>2, <3>3, KeycodesSeen
  <2>6. QED
    BY <2>3, <2>4, <2>5
<1>2. QED
  BY <1>1, ParsedInvInductive, KeyboardInvInductive, PTL

-----------------------------------------------------------------------------
(* Sums over sets.                                                         *)

Picked(s) == CHOOSE x \in s : TRUE

(* What g has for the set s, in terms of what it has for smaller ones.      *)
Added(g, f, s) == IF s = {} THEN 0 ELSE f[Picked(s)] + g[s \ {Picked(s)}]

LEMMA OneLess ==
  ASSUME NEW s, IsFiniteSet(s), NEW n \in Nat, Cardinality(s) = n + 1
  PROVE  /\ s # {} /\ Picked(s) \in s
         /\ \A x \in s : IsFiniteSet(s \ {x}) /\ Cardinality(s \ {x}) = n
<1>1. s # {}
  BY FS_EmptySet
<1>2. Picked(s) \in s
  BY <1>1 DEF Picked
<1>3. \A x \in s : IsFiniteSet(s \ {x}) /\ Cardinality(s \ {x}) = n
  BY FS_RemoveElement
<1>4. QED
  BY <1>1, <1>2, <1>3

LEMMA SumsExist ==
  ASSUME NEW f, NEW U, IsFiniteSet(U)
  PROVE  \E g : g = [s \in SUBSET U |-> Added(g, f, s)]
<1> DEFINE Upto(g, n) == \A s \in SUBSET U : Cardinality(s) <= n => g[s] = Added(g, f, s)
           T == {n \in Nat : \E g : g = [s \in SUBSET U |-> g[s]] /\ Upto(g, n)}
<1>1. ASSUME NEW s \in SUBSET U
      PROVE  IsFiniteSet(s) /\ Cardinality(s) \in Nat /\ Cardinality(s) <= Cardinality(U)
  BY FS_Subset, FS_CardinalityType
<1>2. 0 \in T
  <2>1. PICK g : g = [s \in SUBSET U |-> 0]
    OBVIOUS
  <2>2. g = [s \in SUBSET U |-> g[s]]
    BY <2>1
  <2>3. ASSUME NEW s \in SUBSET U, Cardinality(s) <= 0 PROVE g[s] = Added(g, f, s)
    <3>1. s = {}
      BY <1>1, <2>3, FS_EmptySet
    <3>2. QED
      BY <2>1, <3>1 DEF Added
  <2>4. QED
    BY <2>2, <2>3
<1>3. ASSUME NEW n \in Nat, n \in T PROVE n + 1 \in T
  <2>1. PICK g : g = [s \in SUBSET U |-> g[s]] /\ Upto(g, n)
    BY <1>3
  <2>2. PICK h : h = [s \in SUBSET U |-> IF Cardinality(s) <= n THEN g[s] ELSE Added(g, f, s)]
    OBVIOUS
  <2>3. h = [s \in SUBSET U |-> h[s]]
    BY <2>2
  <2>4. ASSUME NEW s \in SUBSET U, Cardinality(s) <= n + 1 PROVE h[s] = Added(h, f, s)
    <3>1. h[s] = Added(g, f, s)
      BY <2>1, <2>2
    <3>2. CASE s = {}
      BY <3>1, <3>2 DEF Added
    <3>3. CASE s # {}
      <4>1. Cardinality(s) # 0
        BY <1>1, <3>3, FS_EmptySet
      <4>2. PICK m \in Nat : Cardinality(s) = m + 1 /\ m <= n
        <5>1. Cardinality(s) - 1 \in Nat /\ Cardinality(s) = (Cardinality(s) - 1) + 1
              /\ Cardinality(s) - 1 <= n
          BY <1>1, <2>4, <4>1
        <5>2. QED
          BY <5>1
      <4>3. Picked(s) \in s /\ Cardinality(s \ {Picked(s)}) = m
        BY <1>1, <4>2, OneLess
      <4>4. PICK t \in SUBSET U : t = s \ {Picked(s)} /\ Cardinality(t) <= n
        BY <4>2, <4>3
      <4>5. h[t] = g[t]
        BY <2>2, <4>4
      <4>6. QED
        BY <3>1, <3>3, <4>4, <4>5 DEF Added
    <3>4. QED
      BY <3>2, <3>3
  <2>5. Upto(h, n + 1)
    BY <2>4
  <2> HIDE DEF Upto
  <2>6. QED
    BY <2>3, <2>5
<1>4. Cardinality(U) \in T
  <2> HIDE DEF T
  <2>1. Cardinality(U) \in Nat
    BY FS_CardinalityType
  <2>2. QED
    BY <1>2, <1>3, <2>1, NatSetInduction
<1>5. PICK g : g = [s \in SUBSET U |-> g[s]] /\ Upto(g, Cardinality(U))
  BY <1>4
<1>6. \A s \in SUBSET U : g[s] = Added(g, f, s)
  BY <1>1, <1>5
<1>7. g = [s \in SUBSET U |-> Added(g, f, s)]
  BY <1>5, <1>6
<1>8. QED
  BY <1>7

LEMMA SumIsLast ==
  ASSUME NEW f, NEW U, IsFiniteSet(U)
  PROVE  \E g : /\ \A s \in SUBSET U : g[s] = Added(g, f, s)
                /\ SumOver(f, U) = g[U]
<1> DEFINE Solves(g) == g = [s \in SUBSET U |-> IF s = {} THEN 0
                                                ELSE f[CHOOSE x \in s : TRUE]
                                                       + g[s \ {CHOOSE x \in s : TRUE}]]
           g == CHOOSE g : Solves(g)
<1>1. SumOver(f, U) = g[U]
  BY DEF SumOver, MapThenSumSet, MapThenFoldSet
<1>2. \E h : Solves(h)
  <2>1. PICK h : h = [s \in SUBSET U |-> Added(h, f, s)]
    BY SumsExist
  <2>2. \A s : Added(h, f, s) = IF s = {} THEN 0 ELSE f[CHOOSE x \in s : TRUE]
                                                    + h[s \ {CHOOSE x \in s : TRUE}]
    BY DEF Added, Picked
  <2>3. Solves(h)
    BY <2>1, <2>2
  <2>4. QED
    BY <2>3
<1>3. Solves(g)
  BY <1>2
<1> HIDE DEF g
<1>4. \A s \in SUBSET U : g[s] = Added(g, f, s)
  BY <1>3 DEF Added, Picked
<1>5. QED
  BY <1>1, <1>4

(* A function of sets that adds a picked element, and one that adds any.      *)
Summed(g, f, U) == \A s \in SUBSET U : g[s] = Added(g, f, s)
AnyLast(g, f, U) ==
  \A s \in SUBSET U : g[s] \in Int /\ \A x \in s : g[s] = f[x] + g[s \ {x}]

(* Any solution adds any element.                                           *)
LEMMA AnyElement ==
  ASSUME NEW f, NEW U, IsFiniteSet(U), \A x \in U : f[x] \in Int,
         NEW g, Summed(g, f, U)
  PROVE  AnyLast(g, f, U)
<1>0. \A s \in SUBSET U : g[s] = Added(g, f, s)
  BY DEF Summed
<1> DEFINE Right(s) == g[s] \in Int /\ \A x \in s : g[s] = f[x] + g[s \ {x}]
           T == {n \in Nat : \A s \in SUBSET U : Cardinality(s) <= n => Right(s)}
<1>1. \A s \in SUBSET U : IsFiniteSet(s) /\ Cardinality(s) \in Nat
  BY FS_Subset, FS_CardinalityType
<1>2. 0 \in T
  <2>1. ASSUME NEW s \in SUBSET U, Cardinality(s) <= 0 PROVE Right(s)
    <3>1. s = {}
      BY <1>1, <2>1, FS_EmptySet
    <3>2. g[s] = 0
      BY <1>0, <3>1 DEF Added
    <3>3. QED
      BY <3>1, <3>2
  <2>2. QED
    BY <2>1
<1>3. ASSUME NEW n \in Nat, n \in T PROVE n + 1 \in T
  <2>1. ASSUME NEW s \in SUBSET U, Cardinality(s) = n + 1 PROVE Right(s)
    <3>1. PICK p : p = Picked(s)
      OBVIOUS
    <3>2. /\ s # {} /\ p \in s /\ p \in U
          /\ \A x \in s : s \ {x} \in SUBSET U /\ Cardinality(s \ {x}) = n
      BY <1>1, <2>1, <3>1, OneLess
    <3>3. g[s] = f[p] + g[s \ {p}]
      BY <1>0, <3>1, <3>2 DEF Added
    <3>4. \A x \in s : Right(s \ {x})
      BY <1>3, <3>2
    <3>5. g[s] \in Int
      <4>1. f[p] \in Int /\ g[s \ {p}] \in Int
        BY <3>2, <3>4
      <4>2. QED
        BY <3>3, <4>1
    <3>6. ASSUME NEW x \in s PROVE g[s] = f[x] + g[s \ {x}]
      <4>1. CASE x = p
        BY <3>3, <4>1
      <4>2. CASE x # p
        <5>1. PICK a : a = s \ {p}
          OBVIOUS
        <5>2. PICK b : b = s \ {x}
          OBVIOUS
        <5>3. PICK c : c = a \ {x} /\ c = b \ {p}
          BY <5>1, <5>2
        <5>4. g[a] = f[x] + g[c] /\ g[b] = f[p] + g[c]
          <6>1. Right(a) /\ Right(b)
            BY <3>2, <3>4, <5>1, <5>2
          <6>2. x \in a /\ p \in b
            BY <3>2, <4>2, <5>1, <5>2
          <6>3. QED
            BY <5>3, <6>1, <6>2
        <5>5. g[c] \in Int
          <6>1. c \in SUBSET U /\ c \in SUBSET a /\ a \in SUBSET U
            BY <5>1, <5>3
          <6>2. Cardinality(c) <= Cardinality(a)
            BY <1>1, <6>1, FS_Subset
          <6>3. Cardinality(c) <= n
            BY <3>2, <5>1, <6>2
          <6>4. QED
            BY <1>3, <6>1, <6>3
        <5>6. f[x] \in Int /\ f[p] \in Int
          BY <3>2
        <5>7. QED
          BY <3>3, <5>1, <5>2, <5>4, <5>5, <5>6
      <4>3. QED
        BY <4>1, <4>2
    <3>7. QED
      BY <3>5, <3>6
  <2>2. ASSUME NEW s \in SUBSET U, Cardinality(s) <= n + 1 PROVE Right(s)
    <3>1. Cardinality(s) <= n \/ Cardinality(s) = n + 1
      BY <1>1, <2>2
    <3>2. QED
      BY <1>3, <2>1, <3>1
  <2> HIDE DEF Right
  <2>3. QED
    BY <2>2
<1>4. Nat \subseteq T
  <2> HIDE DEF T
  <2>1. QED
    BY <1>2, <1>3, NatSetInduction
<1>5. QED
  <2>1. ASSUME NEW s \in SUBSET U PROVE Right(s)
    <3>1. PICK n \in Nat : n = Cardinality(s)
      BY <1>1
    <3>2. QED
      BY <1>4, <3>1
  <2>2. QED
    BY <2>1 DEF AnyLast

(* A sum over a set is a number, and any of its elements may be added last. *)
LEMMA SumOverFacts ==
  ASSUME NEW f, NEW U, IsFiniteSet(U), \A x \in U : f[x] \in Int
  PROVE  /\ U = {} => SumOver(f, U) = 0
         /\ SumOver(f, U) \in Int
         /\ \A x \in U : SumOver(f, U) = f[x] + SumOver(f, U \ {x})
<1>1. PICK g : /\ \A s \in SUBSET U : g[s] = Added(g, f, s)
               /\ SumOver(f, U) = g[U]
  BY SumIsLast
<1>2. \A s \in SUBSET U : g[s] \in Int /\ \A x \in s : g[s] = f[x] + g[s \ {x}]
  <2>1. Summed(g, f, U)
    BY <1>1 DEF Summed
  <2>2. AnyLast(g, f, U)
    BY <2>1, AnyElement
  <2>3. QED
    BY <2>2 DEF AnyLast
<1>3. U = {} => SumOver(f, U) = 0
  BY <1>1 DEF Added
<1>4. ASSUME NEW x \in U PROVE SumOver(f, U) = f[x] + SumOver(f, U \ {x})
  <2>1. PICK V : V = U \ {x} /\ V \in SUBSET U
    OBVIOUS
  <2>2. IsFiniteSet(V)
    BY <2>1, FS_Subset
  <2>3. PICK h : /\ \A s \in SUBSET V : h[s] = Added(h, f, s)
                 /\ SumOver(f, V) = h[V]
    BY <2>2, SumIsLast
  <2>4. \A s \in SUBSET V : h[s] \in Int /\ \A y \in s : h[s] = f[y] + h[s \ {y}]
    <3>1. IsFiniteSet(V) /\ \A y \in V : f[y] \in Int
      BY <2>1, <2>2
    <3>2. Summed(h, f, V)
      BY <2>3 DEF Summed
    <3>3. AnyLast(h, f, V)
      BY <3>1, <3>2, AnyElement
    <3>4. QED
      BY <3>3 DEF AnyLast
  <2> DEFINE T == {n \in Nat : \A s \in SUBSET V : Cardinality(s) = n => g[s] = h[s]}
  <2>5. \A s \in SUBSET V : s \in SUBSET U /\ IsFiniteSet(s) /\ Cardinality(s) \in Nat
    BY <2>1, <2>2, FS_Subset, FS_CardinalityType
  <2>6. 0 \in T
    <3>1. ASSUME NEW s \in SUBSET V, Cardinality(s) = 0 PROVE g[s] = h[s]
      <4>1. s = {}
        BY <2>5, <3>1, FS_EmptySet
      <4>2. QED
        BY <1>1, <2>3, <2>5, <4>1 DEF Added
    <3>2. QED
      BY <3>1
  <2>7. ASSUME NEW n \in Nat, n \in T PROVE n + 1 \in T
    <3>1. ASSUME NEW s \in SUBSET V, Cardinality(s) = n + 1 PROVE g[s] = h[s]
      <4>1. PICK p \in s : p = Picked(s) /\ Cardinality(s \ {p}) = n
        BY <2>5, <3>1, OneLess
      <4>2. PICK t \in SUBSET V : t = s \ {p}
        BY <4>1
      <4>3. g[t] = h[t]
        BY <2>7, <4>1, <4>2
      <4>4. g[s] = f[p] + g[t] /\ h[s] = f[p] + h[t]
        BY <1>2, <2>4, <2>5, <4>1, <4>2
      <4>5. QED
        BY <4>3, <4>4
    <3>2. QED
      BY <3>1
  <2>8. Nat \subseteq T
    <3> HIDE DEF T
    <3>1. QED
      BY <2>6, <2>7, NatSetInduction
  <2>9. g[V] = h[V]
    <3>1. PICK n \in Nat : n = Cardinality(V)
      BY <2>5
    <3>2. QED
      BY <2>8, <3>1
  <2>10. g[U] = f[x] + g[V]
    BY <1>2, <2>1
  <2>11. QED
    BY <1>1, <2>1, <2>3, <2>9, <2>10
<1>5. QED
  BY <1>1, <1>2, <1>3, <1>4

-----------------------------------------------------------------------------
(* The number in the bits of a report.                                      *)

(* A sum over 0..m - 1 is what a loop adds up.                              *)
LEMMA SumTo ==
  ASSUME NEW m \in Nat, NEW f, \A b \in 0..m - 1 : f[b] \in Int
  PROVE  \A i \in 0..m : SumOver(f, 0..i - 1) = IF i = 0 THEN 0
                                               ELSE SumOver(f, 0..(i - 1) - 1) + f[i - 1]
<1> TAKE i \in 0..m
<1>1. PICK U : U = 0..i - 1 /\ U \in SUBSET (0..m - 1)
  OBVIOUS
<1>2. IsFiniteSet(U)
  BY <1>1, FS_Interval
<1>3. \A b \in U : f[b] \in Int
  BY <1>1
<1>4. CASE i = 0
  <2>1. U = {}
    BY <1>1, <1>4
  <2>2. SumOver(f, U) = 0
    BY <1>2, <1>3, <2>1, SumOverFacts
  <2>3. QED
    BY <1>1, <1>4, <2>2
<1>5. CASE i # 0
  <2>1. PICK V : V = U \ {i - 1} /\ V = 0..(i - 1) - 1 /\ V \in SUBSET U
    BY <1>1, <1>5
  <2>2. i - 1 \in U
    BY <1>1, <1>5
  <2>3. SumOver(f, U) = f[i - 1] + SumOver(f, V)
    BY <1>2, <1>3, <2>1, <2>2, SumOverFacts
  <2>4. IsFiniteSet(V) /\ \A b \in V : f[b] \in Int
    BY <1>2, <1>3, <2>1, FS_Subset
  <2>5. SumOver(f, V) \in Int
    BY <2>4, SumOverFacts
  <2>6. f[i - 1] \in Int
    BY <1>3, <2>2
  <2>7. SumOver(f, U) = SumOver(f, V) + f[i - 1]
    BY <2>3, <2>5, <2>6
  <2>8. SumOver(f, 0..i - 1) = SumOver(f, 0..(i - 1) - 1) + f[i - 1]
    BY <1>1, <2>1, <2>7
  <2>9. QED
    BY <1>5, <2>8
<1>6. QED
  BY <1>4, <1>5

LEMMA BitIsInt ==
  ASSUME NEW data \in Seq(0..255), NEW i \in Nat, i < 8 * Len(data)
  PROVE  Bit(data, i) \in Int
<1>1. PICK q : q = i \div 8 + 1
  OBVIOUS
<1>2. q \in 1..Len(data)
  BY <1>1
<1>3. PICK x \in Int : x = data[q]
  <2>1. data[q] \in 0..255
    BY <1>2, ElementOfSeq
  <2>2. \A x \in 0..255 : x \in Int
    OBVIOUS
  <2>3. QED
    BY <2>1, <2>2, Zenon
<1>4. i % 8 \in Nat
  OBVIOUS
<1>5. PICK p \in Int : p = 2^(i % 8)
  BY <1>4
<1>6. Bit(data, i) = (x \div p) % 2
  BY <1>1, <1>3, <1>5 DEF Bit
<1>7. (x \div p) % 2 \in Int
  OBVIOUS
<1>8. QED
  BY <1>6, <1>7

(* The loop of get_bits reads the number that is there.                     *)
LEMMA BitsAreNumber ==
  ASSUME NEW data \in Seq(0..255), NEW offset \in Nat, NEW size \in Nat
  PROVE  Bits(data, offset, size) = NumberAt(data, offset, size)
<1>1. CASE offset + size > 8 * Len(data)
  BY <1>1 DEF Bits, NumberAt
<1>2. CASE ~(offset + size > 8 * Len(data))
  <2>1. PICK f : f = [b \in 0..size - 1 |-> Bit(data, offset + b) * 2^b]
    OBVIOUS
  <2>2. NumberAt(data, offset, size) = SumOver(f, 0..size - 1)
    BY <1>2, <2>1 DEF NumberAt
  <2>3. ASSUME NEW b \in 0..size - 1
        PROVE  f[b] = Bit(data, offset + b) * 2^b /\ f[b] \in Int
    <3>1. f[b] = Bit(data, offset + b) * 2^b
      BY <2>1
    <3>2. offset + b \in Nat /\ offset + b < 8 * Len(data) /\ b \in Nat
      BY <1>2
    <3>3. Bit(data, offset + b) \in Int
      BY <3>2, BitIsInt
    <3>4. PICK p \in Int : p = 2^b
      BY <3>2
    <3>5. Bit(data, offset + b) * p \in Int
      BY <3>3
    <3>6. QED
      BY <3>1, <3>4, <3>5
  <2> DEFINE Solves(g) == g = [i \in 0..size |->
                                 IF i = 0 THEN 0
                                 ELSE g[i - 1] + Bit(data, offset + i - 1) * 2^(i - 1)]
             g == CHOOSE g : Solves(g)
  <2>4. Bits(data, offset, size) = g[size]
    BY <1>2 DEF Bits
  <2>5. \A i \in 1..size : f[i - 1] = Bit(data, offset + i - 1) * 2^(i - 1)
    <3> TAKE i \in 1..size
    <3>1. PICK b \in 0..size - 1 : b = i - 1
      OBVIOUS
    <3>2. offset + b = offset + i - 1
      BY <3>1
    <3>3. QED
      BY <2>3, <3>1, <3>2
  <2>6. \A i \in 0..size : SumOver(f, 0..i - 1) = IF i = 0 THEN 0
                                                 ELSE SumOver(f, 0..(i - 1) - 1) + f[i - 1]
    BY <2>3, SumTo
  <2>7. \E h : Solves(h)
    <3>1. PICK h : h = [i \in 0..size |-> SumOver(f, 0..i - 1)]
      OBVIOUS
    <3>2. ASSUME NEW i \in 0..size
          PROVE  h[i] = IF i = 0 THEN 0
                        ELSE h[i - 1] + Bit(data, offset + i - 1) * 2^(i - 1)
      <4>1. CASE i = 0
        <5>1. h[i] = SumOver(f, 0..i - 1)
          BY <3>1
        <5>2. QED
          BY <2>6, <4>1, <5>1
      <4>2. CASE i # 0
        <5>1. i - 1 \in 0..size /\ i \in 1..size
          BY <4>2
        <5>2. h[i - 1] = SumOver(f, 0..(i - 1) - 1)
          BY <3>1, <5>1
        <5>3. h[i] = h[i - 1] + f[i - 1]
          <6>1. h[i] = SumOver(f, 0..i - 1)
            BY <3>1
          <6>2. SumOver(f, 0..i - 1) = SumOver(f, 0..(i - 1) - 1) + f[i - 1]
            BY <2>6, <4>2
          <6>3. QED
            BY <5>2, <6>1, <6>2
        <5>4. QED
          BY <2>5, <4>2, <5>1, <5>3
      <4>3. QED
        BY <4>1, <4>2
    <3>3. h = [i \in 0..size |-> h[i]]
      BY <3>1
    <3>4. Solves(h)
      BY <3>2, <3>3
    <3>5. QED
      BY <3>4
  <2>8. Solves(g)
    BY <2>7
  <2> HIDE DEF g
  <2>9. \A i \in 0..size : g[i] = IF i = 0 THEN 0
                                  ELSE g[i - 1] + Bit(data, offset + i - 1) * 2^(i - 1)
    BY <2>8
  <2> HIDE DEF Solves
  <2> DEFINE T == {i \in Nat : i <= size => g[i] = SumOver(f, 0..i - 1)}
  <2>10. 0 \in T
    BY <2>6, <2>9
  <2>11. ASSUME NEW j \in Nat, j \in T PROVE j + 1 \in T
    <3> SUFFICES ASSUME j + 1 <= size PROVE g[j + 1] = SumOver(f, 0..(j + 1) - 1)
      OBVIOUS
    <3>1. PICK i \in 1..size : i = j + 1 /\ i - 1 = j /\ j <= size /\ i # 0 /\ i \in 0..size
      OBVIOUS
    <3>2. g[i] = g[j] + f[j]
      BY <2>5, <2>9, <3>1
    <3>3. g[j] = SumOver(f, 0..j - 1)
      BY <2>11, <3>1
    <3>4. SumOver(f, 0..i - 1) = SumOver(f, 0..j - 1) + f[j]
      BY <2>6, <3>1
    <3>5. QED
      BY <3>1, <3>2, <3>3, <3>4
  <2>12. size \in T
    <3> HIDE DEF T
    <3>1. QED
      BY <2>10, <2>11, NatSetInduction
  <2>13. QED
    BY <2>2, <2>4, <2>12
<1>3. QED
  BY <1>1, <1>2

-----------------------------------------------------------------------------
(* The keys in a report.                                                    *)

(* A field that is read as its declaration says.                            *)
FieldDecodes(field, d) ==
  /\ field.size = d.size /\ d.size \in Nat
  /\ d.page # Keyboard => field.page # Keyboard
  /\ d.page = Keyboard =>
       /\ field.page = Keyboard
       /\ \/ /\ d.kind = "variable" /\ field.kind = "value"
             /\ field.usage = UsageOf(d.usages, d.f).usage
          \/ /\ d.kind # "variable" /\ field.kind = "range"
             /\ field.usage = LastOf(d.usages, "usageMin").usage

KeyOf(d, value) ==
  IF d.kind = "variable" THEN UsageOf(d.usages, d.f).usage
  ELSE LastOf(d.usages, "usageMin").usage + value

(* What the code takes for held: the fields of keys that are not zero.      *)
NonZero(declared, places, data) ==
  {k \in places : declared[k].page = Keyboard /\ ValueIn(declared, places, data, k) # 0}

LEMMA FieldKeysIs ==
  ASSUME NEW keys, NEW field, NEW d, NEW value, FieldDecodes(field, d)
  PROVE  FieldKeys(keys, field, value) =
           IF d.page = Keyboard /\ value # 0 THEN AddKey(keys, KeyOf(d, value)) ELSE keys
<1>1. CASE d.page # Keyboard \/ value = 0
  BY <1>1 DEF FieldDecodes, FieldKeys
<1>2. CASE d.page = Keyboard /\ value # 0 /\ d.kind = "variable"
  <2>1. field.page = Keyboard /\ field.kind = "value" /\ field.usage = UsageOf(d.usages, d.f).usage
    BY <1>2 DEF FieldDecodes
  <2>2. FieldKeys(keys, field, value) = AddKey(keys, field.usage)
    BY <1>2, <2>1 DEF FieldKeys
  <2>3. QED
    BY <1>2, <2>1, <2>2 DEF KeyOf
<1>3. CASE d.page = Keyboard /\ value # 0 /\ d.kind # "variable"
  <2>1. /\ field.page = Keyboard /\ field.kind = "range"
        /\ field.usage = LastOf(d.usages, "usageMin").usage
    BY <1>3 DEF FieldDecodes
  <2>2. FieldKeys(keys, field, value) = AddKey(keys, field.usage + value)
    BY <1>3, <2>1 DEF FieldKeys
  <2>3. QED
    BY <1>3, <2>1, <2>2 DEF KeyOf
<1>4. QED
  BY <1>1, <1>2, <1>3

(* keys has the keys of some of those that are held, as far as they fit.    *)
Before(held, k) == {j \in held : j < k}
Collected(keys, key, held, some) ==
  /\ keys \in Seq(Range(keys))
  /\ Len(keys) = Lesser(PressedLen, Cardinality(some))
  /\ \A k \in some : Cardinality(Before(held, k)) < PressedLen =>
                       keys[Cardinality(Before(held, k)) + 1] = key[k] % 256

LEMMA OneMoreKey ==
  ASSUME NEW held, IsFiniteSet(held), held \subseteq Nat, NEW k \in held, NEW key, NEW keys,
         Collected(keys, key, held, Before(held, k))
  PROVE  Collected(AddKey(keys, key[k]), key, held, Before(held, k) \cup {k})
<1>1. PICK old, new, c : /\ old = Before(held, k) /\ new = old \cup {k}
                         /\ c = Cardinality(old)
  OBVIOUS
<1>2. old \subseteq held /\ k \notin old /\ k \in Nat
  BY <1>1 DEF Before
<1>3. IsFiniteSet(old) /\ c \in Nat /\ Cardinality(new) = c + 1
  <2>1. IsFiniteSet(old)
    BY <1>2, FS_Subset
  <2>2. QED
    BY <1>1, <1>2, <2>1, FS_CardinalityType, FS_AddElement
<1>4. PressedLen \in Nat
  BY HidDescriptorAssumption
<1>5. /\ keys \in Seq(Range(keys)) /\ Len(keys) = Lesser(PressedLen, c)
      /\ \A j \in old : Cardinality(Before(held, j)) < PressedLen =>
                          keys[Cardinality(Before(held, j)) + 1] = key[j] % 256
  BY <1>1 DEF Collected
<1>6. ASSUME NEW j \in old PROVE Cardinality(Before(held, j)) \in 0..c - 1
  <2>1. PICK b : b = Before(held, j)
    OBVIOUS
  <2>2. b \subseteq old \ {j}
    <3> SUFFICES ASSUME NEW i \in b PROVE i \in old \ {j}
      OBVIOUS
    <3>1. i \in held /\ i < j /\ i \in Nat
      BY <2>1 DEF Before
    <3>2. j < k /\ j \in Nat
      BY <1>1, <1>2 DEF Before
    <3>3. i < k /\ i # j
      BY <1>2, <3>1, <3>2
    <3>4. QED
      BY <1>1, <3>1, <3>3 DEF Before
  <2>3. IsFiniteSet(old \ {j}) /\ Cardinality(old \ {j}) = c - 1
    BY <1>1, <1>3, FS_RemoveElement
  <2>4. Cardinality(b) \in Nat /\ Cardinality(b) <= c - 1
    BY <2>2, <2>3, FS_Subset, FS_CardinalityType
  <2>5. QED
    BY <1>3, <2>1, <2>4
<1>7. PICK more : more = AddKey(keys, key[k])
  OBVIOUS
<1>8. CASE Len(keys) >= PressedLen
  <2>1. more = keys
    BY <1>7, <1>8 DEF AddKey
  <2>2. PressedLen <= c /\ Len(keys) = PressedLen
    BY <1>3, <1>4, <1>5, <1>8 DEF Lesser
  <2>3. Len(keys) = Lesser(PressedLen, c + 1)
    BY <1>3, <1>4, <2>2 DEF Lesser
  <2>4. ASSUME NEW j \in new, Cardinality(Before(held, j)) < PressedLen
        PROVE  keys[Cardinality(Before(held, j)) + 1] = key[j] % 256
    <3>1. j # k
      BY <1>1, <1>3, <1>4, <2>2, <2>4
    <3>2. j \in old
      BY <1>1, <3>1
    <3>3. QED
      BY <1>5, <2>4, <3>2
  <2>5. QED
    BY <1>1, <1>3, <1>5, <1>7, <2>1, <2>3, <2>4 DEF Collected
<1>9. CASE ~(Len(keys) >= PressedLen)
  <2>1. Len(keys) = c /\ c < PressedLen
    BY <1>3, <1>4, <1>5, <1>9 DEF Lesser
  <2>2. PICK e : e = key[k] % 256
    OBVIOUS
  <2>3. more = Append(keys, e)
    BY <1>7, <1>9, <2>2 DEF AddKey
  <2>4. more \in Seq(Range(more)) /\ Len(more) = c + 1
    BY <1>5, <2>1, <2>3, AppendAny
  <2>5. c + 1 = Lesser(PressedLen, c + 1)
    BY <1>3, <1>4, <2>1 DEF Lesser
  <2>6. /\ \A i \in 1..c : more[i] = keys[i]
        /\ more[c + 1] = e
    <3>1. PICK S : S = Range(keys) \cup {e}
      OBVIOUS
    <3>2. keys \in Seq(S) /\ e \in S
      BY <1>5, <3>1, SeqMonotonic
    <3>3. QED
      BY <2>1, <2>3, <3>2, AppendProperties
  <2>7. ASSUME NEW j \in new, Cardinality(Before(held, j)) < PressedLen
        PROVE  more[Cardinality(Before(held, j)) + 1] = key[j] % 256
    <3>1. CASE j = k
      <4>1. Cardinality(Before(held, j)) = c
        BY <1>1, <3>1
      <4>2. QED
        BY <2>2, <2>6, <3>1, <4>1
    <3>2. CASE j # k
      <4>1. j \in old
        BY <1>1, <3>2
      <4>2. PICK q : q = Cardinality(Before(held, j)) + 1
        OBVIOUS
      <4>3. q \in 1..c
        BY <1>3, <1>6, <4>1, <4>2
      <4>4. keys[q] = key[j] % 256
        BY <1>5, <2>7, <4>1, <4>2
      <4>5. QED
        BY <2>6, <4>2, <4>3, <4>4
    <3>3. QED
      BY <3>1, <3>2
  <2>8. QED
    BY <1>1, <1>3, <1>7, <2>4, <2>5, <2>7 DEF Collected
<1>10. QED
  BY <1>8, <1>9

(* The loop of hid_report_get_pressed_keys, over the fields at the places.  *)
Reading(tree, places, data, was, i) ==
  LET field == tree.fields[places[i]] IN
  [keys |-> FieldKeys(was.keys, field, Bits(data, was.offset, field.size)),
   offset |-> was.offset + field.size]
Readings(found, tree, places, data) ==
  found = [i \in 0..Len(places) |-> IF i = 0 THEN [keys |-> <<>>, offset |-> 0]
                                    ELSE Reading(tree, places, data, found[i - 1], i)]

LEMMA ReadingsExist ==
  ASSUME NEW tree, NEW places \in Seq(Nat), NEW data
  PROVE  \E found : Readings(found, tree, places, data)
<1> DEFINE start == [keys |-> <<>>, offset |-> 0]
           Solves(f, n) == f = [i \in 0..n |-> IF i = 0 THEN start
                                               ELSE Reading(tree, places, data, f[i - 1], i)]
           T == {n \in Nat : \E f : Solves(f, n)}
<1> HIDE DEF start
<1>1. 0 \in T
  <2>1. Solves([i \in 0..0 |-> start], 0)
    OBVIOUS
  <2>2. QED
    BY <2>1
<1>2. ASSUME NEW n \in Nat, n \in T PROVE n + 1 \in T
  <2>1. PICK f : Solves(f, n)
    BY <1>2
  <2> DEFINE g == [i \in 0..n + 1 |-> IF i = n + 1 THEN Reading(tree, places, data, f[n], n + 1)
                                      ELSE f[i]]
  <2>2. ASSUME NEW i \in 0..n + 1
        PROVE  g[i] = IF i = 0 THEN start ELSE Reading(tree, places, data, g[i - 1], i)
    <3>1. CASE i = n + 1
      <4>1. g[i] = Reading(tree, places, data, f[n], n + 1) /\ i - 1 = n /\ g[n] = f[n] /\ i # 0
        BY <3>1
      <4>2. QED
        BY <3>1, <4>1
    <3>2. CASE i # n + 1
      <4>1. i \in 0..n /\ g[i] = f[i] /\ (i # 0 => g[i - 1] = f[i - 1])
        BY <3>2
      <4>2. f[i] = IF i = 0 THEN start ELSE Reading(tree, places, data, f[i - 1], i)
        BY <2>1, <4>1
      <4>3. QED
        BY <4>1, <4>2
    <3>3. QED
      BY <3>1, <3>2
  <2>3. Solves(g, n + 1)
    <3> HIDE DEF g
    <3>1. g = [i \in 0..n + 1 |-> g[i]]
      BY DEF g
    <3>2. QED
      BY <2>2, <3>1
  <2> HIDE DEF g, Solves
  <2>4. QED
    BY <2>3
<1>3. Len(places) \in T
  <2>1. Len(places) \in Nat
    OBVIOUS
  <2> HIDE DEF T
  <2>2. QED
    BY <1>1, <1>2, <2>1, NatSetInduction
<1>4. QED
  BY <1>3 DEF Readings, start

LEMMA PressedIsLast ==
  ASSUME NEW tree, NEW data, NEW id, IndexOf(tree.reports, id, "input") # 0,
         NEW places \in Seq(Nat),
         places = tree.reports[IndexOf(tree.reports, id, "input")].fields
  PROVE  \E found : /\ Readings(found, tree, places, data)
                    /\ PressedKeys(tree, data, id) = found[Len(places)].keys
<1> DEFINE found == CHOOSE found : Readings(found, tree, places, data)
<1>1. Readings(found, tree, places, data)
  BY ReadingsExist
<1>2. PressedKeys(tree, data, id) = found[Len(places)].keys
  BY DEF PressedKeys, Readings, Reading
<1>3. QED
  BY <1>1, <1>2

(* The loop finds the keys that are held, field after field.                *)
LEMMA KeysRead ==
  ASSUME NEW declared, NEW n \in Nat, NEW places \in Seq(Nat),
         NEW all, all = Range(places), all \subseteq 1..n,
         \A a, b \in 1..Len(places) : a < b => places[a] < places[b],
         NEW tree, \A k \in all : FieldDecodes(tree.fields[k], declared[k]),
         NEW data \in Seq(0..255), NEW found, Readings(found, tree, places, data),
         NEW held, held = NonZero(declared, all, data),
         NEW key, key = [k \in held |-> KeyOf(declared[k], ValueIn(declared, all, data, k))]
  PROVE  Collected(found[Len(places)].keys, key, held, held)
<1>1. PICK m, sizes : m = Len(places) /\ sizes = [j \in all |-> declared[j].size]
  OBVIOUS
<1>2. m \in Nat /\ DOMAIN places = 1..m
  BY <1>1, LenProperties
<1>3. /\ \A a \in 1..m : places[a] \in all
      /\ \A k \in all : k \in Nat /\ \E a \in 1..m : k = places[a]
      /\ \A a, b \in 1..m : a < b => places[a] < places[b]
  <2>1. all = {places[a] : a \in 1..m}
    BY <1>2 DEF Range
  <2>2. \A k \in all : k \in Nat
    <3>1. TAKE k \in all
    <3>2. k \in 1..n
      OBVIOUS
    <3>3. QED
      BY <3>2
  <2>3. \A a, b \in 1..m : a < b => places[a] < places[b]
    BY <1>1
  <2>4. QED
    BY <2>1, <2>2, <2>3
<1>4. \A k \in all : sizes[k] = declared[k].size /\ sizes[k] \in Nat
  BY <1>1 DEF FieldDecodes
<1>5. held \subseteq all
  BY DEF NonZero
<1>6. /\ IsFiniteSet(all) /\ IsFiniteSet(held) /\ held \subseteq Nat
  <2>1. IsFiniteSet(1..n)
    BY FS_Interval
  <2>2. IsFiniteSet(all)
    BY <2>1, FS_Subset
  <2>3. IsFiniteSet(held)
    BY <1>5, <2>2, FS_Subset
  <2>4. QED
    BY <1>3, <1>5, <2>2, <2>3
<1> DEFINE taken(i) == {places[a] : a \in 1..i}
<1>7. ASSUME NEW i \in 1..m
      PROVE  /\ taken(i) = taken(i - 1) \cup {places[i]} /\ places[i] \notin taken(i - 1)
             /\ taken(i - 1) = {j \in all : j < places[i]} /\ taken(i) \subseteq all
  <2>1. 1..i = (1..i - 1) \cup {i} /\ 1..i \subseteq 1..m /\ i - 1 \in Nat
    BY <1>2
  <2>2. taken(i) = taken(i - 1) \cup {places[i]}
    BY <2>1
  <2>3. ASSUME NEW j \in taken(i - 1) PROVE j \in all /\ j < places[i]
    <3>1. PICK a \in 1..i - 1 : j = places[a]
      OBVIOUS
    <3>2. a \in 1..m /\ a < i
      BY <1>2, <3>1
    <3>3. QED
      BY <1>3, <3>1, <3>2
  <2>4. ASSUME NEW j \in all, j < places[i] PROVE j \in taken(i - 1)
    <3>1. PICK a \in 1..m : j = places[a]
      BY <1>3
    <3>2. places[i] \in Nat /\ places[a] \in Nat /\ places[a] < places[i]
      BY <1>3, <2>4, <3>1
    <3>3. ~(i < a) /\ a # i
      <4>1. i < a => places[i] < places[a]
        BY <1>3
      <4>2. QED
        BY <3>2, <4>1
    <3>4. a \in 1..i - 1
      BY <1>2, <3>3
    <3>5. QED
      BY <3>1, <3>4
  <2>5. taken(i - 1) = {j \in all : j < places[i]}
    <3> HIDE DEF taken
    <3>1. QED
      BY <2>3, <2>4
  <2>6. places[i] \notin taken(i - 1)
    <3>1. places[i] \in Nat
      BY <1>3
    <3> HIDE DEF taken
    <3>2. QED
      BY <2>3, <3>1
  <2>7. taken(i) \subseteq all
    <3>1. places[i] \in all
      BY <1>3
    <3> HIDE DEF taken
    <3>2. QED
      BY <2>2, <2>5, <3>1
  <2>8. QED
    BY <2>2, <2>5, <2>6, <2>7
<1>8. taken(0) = {} /\ taken(m) = all
  BY <1>3
<1> HIDE DEF taken
<1>9. /\ found[0] = [keys |-> <<>>, offset |-> 0]
      /\ \A i \in 1..m : found[i] = Reading(tree, places, data, found[i - 1], i)
  <2>1. found = [i \in 0..m |-> IF i = 0 THEN [keys |-> <<>>, offset |-> 0]
                                ELSE Reading(tree, places, data, found[i - 1], i)]
    BY <1>1 DEF Readings
  <2>2. \A i \in 0..m : found[i] = IF i = 0 THEN [keys |-> <<>>, offset |-> 0]
                                    ELSE Reading(tree, places, data, found[i - 1], i)
    BY <2>1
  <2>3. 0 \in 0..m /\ \A i \in 1..m : i \in 0..m /\ i # 0
    BY <1>2
  <2>4. QED
    BY <2>2, <2>3
<1> DEFINE Done(i) == /\ found[i].offset \in Nat /\ found[i].offset = SumOver(sizes, taken(i))
                      /\ Collected(found[i].keys, key, held, held \cap taken(i))
           T == {i \in Nat : i <= m => Done(i)}
<1>10. 0 \in T
  <2>1. found[0].keys = <<>> /\ found[0].offset = 0
    BY <1>9
  <2>2. SumOver(sizes, taken(0)) = 0
    <3>1. IsFiniteSet(taken(0)) /\ \A x \in taken(0) : sizes[x] \in Int
      BY <1>8, FS_EmptySet
    <3>2. QED
      BY <1>8, <3>1, SumOverFacts
  <2>3. Collected(<<>>, key, held, {})
    <3>1. Cardinality({}) = 0
      BY FS_EmptySet
    <3>2. <<>> \in Seq(Range(<<>>)) /\ Len(<<>>) = 0
      OBVIOUS
    <3>3. Lesser(PressedLen, 0) = 0
      BY HidDescriptorAssumption DEF Lesser
    <3>4. QED
      BY <3>1, <3>2, <3>3 DEF Collected
  <2>4. held \cap taken(0) = {}
    BY <1>8
  <2>5. Collected(found[0].keys, key, held, held \cap taken(0))
    BY <2>1, <2>3, <2>4
  <2> HIDE DEF Done
  <2>6. Done(0)
    BY <2>1, <2>2, <2>5 DEF Done
  <2>7. QED
    BY <2>6
<1>11. ASSUME NEW l \in Nat, l \in T PROVE l + 1 \in T
  <2> HIDE DEF Done
  <2> SUFFICES ASSUME l + 1 <= m PROVE Done(l + 1)
    OBVIOUS
  <2>1. PICK i \in 1..m : i = l + 1 /\ i - 1 = l /\ l <= m
    BY <1>2
  <2>2. PICK was, k, field, d, U, V :
          /\ was = found[l] /\ k = places[i] /\ field = tree.fields[k] /\ d = declared[k]
          /\ U = taken(l) /\ V = taken(i)
    OBVIOUS
  <2>3. /\ was.offset \in Nat /\ was.offset = SumOver(sizes, U)
        /\ Collected(was.keys, key, held, held \cap U)
    <3>1. Done(l)
      BY <1>11, <2>1
    <3>2. QED
      BY <2>2, <3>1 DEF Done
  <2>4. k \in all /\ k \in Nat /\ FieldDecodes(field, d) /\ sizes[k] = d.size
    BY <1>3, <1>4, <2>2
  <2>5. V = U \cup {k} /\ k \notin U /\ U = {j \in all : j < k} /\ V \subseteq all
    BY <1>7, <2>1, <2>2
  <2>6. found[i] = Reading(tree, places, data, was, i)
    BY <1>9, <2>1, <2>2
  <2>7. PICK value : value = Bits(data, was.offset, field.size)
    OBVIOUS
  <2>8. /\ found[i].keys = FieldKeys(was.keys, field, value)
        /\ found[i].offset = was.offset + d.size
    <3>1. field.size = d.size
      BY <2>4 DEF FieldDecodes
    <3>2. found[i] = [keys |-> FieldKeys(was.keys, field, Bits(data, was.offset, field.size)),
                      offset |-> was.offset + field.size]
      BY <2>2, <2>6 DEF Reading
    <3>3. QED
      BY <2>7, <3>1, <3>2
  <2>9. value = ValueIn(declared, all, data, k)
    <3>1. field.size = d.size /\ d.size \in Nat
      BY <2>4 DEF FieldDecodes
    <3>2. value = NumberAt(data, was.offset, d.size)
      BY <2>3, <2>7, <3>1, BitsAreNumber
    <3>3. ValueIn(declared, all, data, k) = NumberAt(data, SumOver(sizes, {j \in all : j < k}), d.size)
      BY <1>1, <2>2 DEF ValueIn
    <3>4. QED
      BY <2>3, <2>5, <3>2, <3>3
  <2>10. found[i].offset \in Nat /\ found[i].offset = SumOver(sizes, V)
    <3>1. d.size \in Nat
      BY <2>4 DEF FieldDecodes
    <3>2. IsFiniteSet(V) /\ \A x \in V : sizes[x] \in Int
      <4>1. IsFiniteSet(V)
        BY <1>6, <2>5, FS_Subset
      <4>2. QED
        BY <1>4, <2>5, <4>1
    <3>3. V \ {k} = U /\ k \in V
      BY <2>5
    <3>4. SumOver(sizes, V) = sizes[k] + SumOver(sizes, U)
      BY <3>2, <3>3, SumOverFacts
    <3>5. SumOver(sizes, V) = d.size + was.offset
      BY <2>3, <2>4, <3>4
    <3>6. QED
      BY <2>3, <2>8, <3>1, <3>5
  <2>11. Collected(found[i].keys, key, held, held \cap V)
    <3>1. found[i].keys = IF d.page = Keyboard /\ value # 0
                          THEN AddKey(was.keys, KeyOf(d, value)) ELSE was.keys
      <4>1. FieldKeys(was.keys, field, value) = IF d.page = Keyboard /\ value # 0
                          THEN AddKey(was.keys, KeyOf(d, value)) ELSE was.keys
        BY <2>4, FieldKeysIs
      <4>2. QED
        BY <2>8, <4>1
    <3>2. k \in held <=> d.page = Keyboard /\ value # 0
      BY <2>2, <2>4, <2>9 DEF NonZero
    <3>3. CASE k \in held
      <4>1. key[k] = KeyOf(d, value)
        BY <2>2, <2>9, <3>3
      <4>2. held \cap U = Before(held, k)
        BY <1>5, <2>5 DEF Before
      <4>3. held \cap V = Before(held, k) \cup {k}
        BY <2>5, <3>3, <4>2
      <4>4. Collected(AddKey(was.keys, key[k]), key, held, Before(held, k) \cup {k})
        <5>1. Collected(was.keys, key, held, Before(held, k))
          BY <2>3, <4>2
        <5>2. IsFiniteSet(held) /\ held \subseteq Nat
          BY <1>6
        <5>3. QED
          BY <3>3, <5>1, <5>2, OneMoreKey
      <4>5. found[i].keys = AddKey(was.keys, key[k])
        BY <3>1, <3>2, <3>3, <4>1
      <4>6. QED
        BY <4>3, <4>4, <4>5
    <3>4. CASE k \notin held
      <4>1. held \cap V = held \cap U
        BY <2>5, <3>4
      <4>2. found[i].keys = was.keys
        BY <3>1, <3>2, <3>4
      <4>3. QED
        BY <2>3, <4>1, <4>2
    <3>5. QED
      BY <3>3, <3>4
  <2>12. QED
    BY <2>1, <2>2, <2>10, <2>11 DEF Done
<1>12. m \in T
  <2> HIDE DEF T
  <2>1. QED
    BY <1>2, <1>10, <1>11, NatSetInduction
<1>13. Collected(found[m].keys, key, held, held \cap taken(m))
  BY <1>2, <1>12
<1>14. held \cap taken(m) = held
  BY <1>5, <1>8
<1>15. QED
  BY <1>1, <1>13, <1>14

(* A field of an input report that is not a list of keys.                   *)
LEMMA MatchingDecodes ==
  ASSUME NEW field, NEW d, NEW fit, FieldMatches(field, d, fit),
         ListLimited(d), SizeLimited(d), d.type = "input", ~KeyList(d)
  PROVE  FieldDecodes(field, d)
<1>0. field.size = d.size /\ d.size \in Nat
  <2>1. field.size = d.size % SizeLimit /\ d.size \in Nat /\ d.size < SizeLimit
    BY DEF FieldMatches, SizeLimited
  <2>2. QED
    BY <2>1, SizeFits
<1>1. Keyboard # 0
  BY HidDescriptorAssumption
<1>2. CASE d.kind = "constant"
  BY <1>0, <1>1, <1>2 DEF FieldMatches, FieldDecodes
<1>3. CASE d.kind = "variable"
  BY <1>0, <1>3 DEF FieldMatches, FieldDecodes
<1>4. CASE d.kind = "array" /\ Ranged(d.usages)
  BY <1>0, <1>4 DEF FieldMatches, FieldDecodes
<1>5. CASE d.kind = "array" /\ ~Ranged(d.usages)
  <2>1. d.page # Keyboard
    BY <1>5 DEF KeyList
  <2>2. QED
    BY <1>0, <1>1, <1>5, <2>1 DEF FieldMatches, FieldDecodes
<1>6. QED
  BY <1>2, <1>3, <1>4, <1>5 DEF FieldMatches

(* The report last read, and where its keys come from.                      *)
PressedInv ==
  pressed # Null =>
    /\ hid # Null
    /\ pressed.data \in Seq(0..255)
    /\ pressed.protocol # "bootKeyboard" =>
         pressed.keys = IF hid.keyboard THEN PressedKeys(hid.tree, pressed.data, pressed.id)
                        ELSE <<>>

LEMMA PressedInvInductive == Spec => []PressedInv
<1>1. Init => PressedInv
  BY DEF Init, PressedInv
<1>2. PressedInv /\ [Next]_vars => PressedInv'
  <2> SUFFICES ASSUME PressedInv, [Next]_vars PROVE PressedInv'
    OBVIOUS
  <2>1. ASSUME NEW item \in Items, Receive(item) PROVE PressedInv'
    BY <2>1 DEF Receive, PressedInv
  <2>2. CASE Register
    BY <2>2 DEF Register, PressedInv
  <2>3. ASSUME NEW data \in Reports, NEW protocol \in Protocol, HidReport(data, protocol)
        PROVE  PressedInv'
    <3> DEFINE useId == protocol = "report" /\ hid.useId
               id == IF useId THEN data[1] ELSE 0
               rest == IF useId THEN Tail(data) ELSE data
    <3>1. /\ rest \in {data, Tail(data)}
          /\ pressed' = [data |-> rest, id |-> id, protocol |-> protocol,
                           keys |-> IF protocol = "bootKeyboard" THEN BootKeys(rest)
                                    ELSE IF hid.keyboard THEN PressedKeys(hid.tree, rest, id)
                                    ELSE <<>>]
      BY <2>3 DEF HidReport
    <3> HIDE DEF id, rest
    <3>2. rest \in Seq(0..255)
      <4>1. data \in Seq(0..255) /\ data # <<>>
        BY HidDescriptorAssumption
      <4>2. Tail(data) \in Seq(0..255)
        BY <4>1, HeadTailProperties
      <4>3. QED
        BY <3>1, <4>1, <4>2
    <3>3. /\ pressed'.data = rest /\ pressed'.id = id /\ pressed'.protocol = protocol
          /\ protocol # "bootKeyboard" =>
               pressed'.keys = IF hid.keyboard THEN PressedKeys(hid.tree, rest, id) ELSE <<>>
      BY <3>1
    <3>4. hid' = hid /\ hid # Null
      BY <2>3 DEF HidReport
    <3>5. QED
      BY <3>2, <3>3, <3>4 DEF PressedInv
  <2>4. CASE UNCHANGED vars
    BY <2>4 DEF vars, PressedInv
  <2>5. QED
    BY <2>1, <2>2, <2>3, <2>4 DEF Next
<1>3. QED
  BY <1>1, <1>2, PTL DEF Spec

(* The keys of a report of an interface whose keys are not listed.          *)
LEMMA KeysOfReport ==
  ASSUME ParsedInv, KeyboardInv, hid # Null, Parsed, NumbersFit, NEW data \in Seq(0..255), NEW id,
         NEW places, places = FieldsOfReport(Declared, id, "input"),
         \A k \in places : 
           ~KeyList(Declared[k]) /\ ListLimited(Declared[k]) /\ SizeLimited(Declared[k]),
         NEW held, held = NonZero(Declared, places, data),
         NEW key, key = [k \in held |-> KeyOf(Declared[k], ValueIn(Declared, places, data, k))]
  PROVE  Collected(IF hid.keyboard THEN PressedKeys(hid.tree, data, id) ELSE <<>>,
                   key, held, held)
<1>1. PICK n \in Nat : n = Len(Declared)
  BY TreeLaidOut
<1>2. places \subseteq 1..n /\ \A k \in places : Declared[k].type = "input" /\ Declared[k].id = id
  BY <1>1, TreeLaidOut DEF FieldsOfReport
<1>3. ASSUME NEW k \in places PROVE FieldDecodes(Tree.fields[k], Declared[k])
  <2>1. FieldMatches(Tree.fields[k], Declared[k], Len(Tree.collections) <= Counter \div 2)
    BY <1>1, <1>2, TreeLaidOut DEF Layout
  <2>2. QED
    BY <1>2, <2>1, MatchingDecodes
<1>4. Collected(<<>>, key, held, {})
  <2>1. Cardinality({}) = 0
    BY FS_EmptySet
  <2>2. <<>> \in Seq(Range(<<>>)) /\ Len(<<>>) = 0
    OBVIOUS
  <2>3. Lesser(PressedLen, 0) = 0
    BY HidDescriptorAssumption DEF Lesser
  <2>4. QED
    BY <2>1, <2>2, <2>3 DEF Collected
<1>5. CASE ~hid.keyboard
  <2>1. ~ContainsKeycodes(Tree)
    <3>1. hid.keyboard = (Tree.ok /\ ContainsKeycodes(Tree))
      BY DEF KeyboardInv, Tree
    <3>2. Tree.ok
      BY DEF Parsed, Tree
    <3>3. SUFFICES ASSUME ContainsKeycodes(Tree) PROVE FALSE
      OBVIOUS
    <3>4. (Tree.ok /\ ContainsKeycodes(Tree)) = TRUE
      BY <3>2, <3>3
    <3>5. QED
      BY <1>5, <3>1, <3>4
  <2>2. held = {}
    <3>1. SUFFICES ASSUME NEW k \in held PROVE FALSE
      OBVIOUS
    <3>2. k \in places /\ Declared[k].page = Keyboard
      BY DEF NonZero
    <3>3. Tree.fields[k].page = Keyboard
      BY <1>3, <3>2 DEF FieldDecodes
    <3>4. QED
      BY <1>1, <1>2, <2>1, <3>2, <3>3, KeycodesSeen
  <2>3. QED
    BY <1>4, <1>5, <2>2
<1>6. CASE hid.keyboard
  <2>1. PICK reports, at : reports = Tree.reports /\ at = IndexOf(Tree.reports, id, "input")
    OBVIOUS
  <2>2. reports \in Seq(Filled)
    BY <2>1, ReportsLaidOut
  <2>3. /\ at \in 0..Len(reports)
        /\ at # 0 => reports[at].id = id /\ reports[at].type = "input"
        /\ at = 0 => \A i \in 1..Len(reports) :
                       ~(reports[i].id = id /\ reports[i].type = "input")
    BY <2>1, <2>2, IndexOfFacts
  <2>4. CASE at = 0
    <3>1. places = {}
      <4>1. SUFFICES ASSUME NEW k \in places PROVE FALSE
        OBVIOUS
      <4>2. PICK r \in 1..Len(reports) : SameKey(Declared[k], reports[r])
        BY <1>1, <1>2, <2>1, ReportsLaidOut
      <4>3. reports[r].id = id /\ reports[r].type = "input"
        BY <1>2, <4>2 DEF SameKey
      <4>4. QED
        BY <2>3, <2>4, <4>3
    <3>2. held = {}
      BY <3>1 DEF NonZero
    <3>3. PressedKeys(hid.tree, data, id) = <<>>
      BY <2>1, <2>4 DEF PressedKeys, Tree
    <3>4. QED
      BY <1>4, <1>6, <3>2, <3>3
  <2>5. CASE at # 0
    <3>1. PICK fields : fields = reports[at].fields
      OBVIOUS
    <3>2. at \in 1..Len(reports) /\ reports[at].id = id /\ reports[at].type = "input"
      BY <2>3, <2>5
    <3>3. /\ fields \in Seq(Nat) /\ Range(fields) = places
          /\ \A a, b \in 1..Len(fields) : a < b => fields[a] < fields[b]
      BY <2>1, <3>1, <3>2, ReportsLaidOut
    <3>4. PICK found : /\ Readings(found, Tree, fields, data)
                       /\ PressedKeys(Tree, data, id) = found[Len(fields)].keys
      BY <2>1, <2>5, <3>1, <3>3, PressedIsLast
    <3>5. Collected(found[Len(fields)].keys, key, held, held)
      BY <1>1, <1>2, <1>3, <3>3, <3>4, KeysRead
    <3>6. QED
      BY <1>6, <3>4, <3>5 DEF Tree
  <2>6. QED
    BY <2>4, <2>5
<1>7. QED
  BY <1>5, <1>6

(* Arrays numbered from zero hold the keys the code takes for held.         *)
LEMMA HeldAsTaken ==
  ASSUME ParsedInv, hid # Null, Parsed, NumbersFit, NEW data, NEW id,
         NEW places, places = FieldsOfReport(Declared, id, "input"),
         \A k \in places : FromZero(Declared[k], ValueIn(Declared, places, data, k))
  PROVE  /\ HeldIn(Declared, places, data) = NonZero(Declared, places, data)
         /\ \A k \in places : Declared[k].page = Keyboard =>
              KeyIn(Declared, places, data, k)
                = KeyOf(Declared[k], ValueIn(Declared, places, data, k))
<1>1. ASSUME NEW k \in places, Declared[k].page = Keyboard
      PROVE  /\ HoldsKey(Declared, places, data, k) <=> ValueIn(Declared, places, data, k) # 0
             /\ KeyIn(Declared, places, data, k)
                  = KeyOf(Declared[k], ValueIn(Declared, places, data, k))
  <2>1. PICK d, value, first : /\ d = Declared[k] /\ value = ValueIn(Declared, places, data, k)
                               /\ first = LastOf(d.usages, "usageMin").usage
    OBVIOUS
  <2>2. d.kind \in {"variable", "array"} /\ first \in Nat
    <3>1. k \in 1..Len(Declared)
      BY TreeLaidOut DEF FieldsOfReport
    <3>2. FieldMatches(Tree.fields[k], d, Len(Tree.collections) <= Counter \div 2)
      BY <2>1, <3>1, TreeLaidOut DEF Layout
    <3>3. Keyboard # 0
      BY HidDescriptorAssumption
    <3>4. QED
      BY <1>1, <2>1, <3>2, <3>3 DEF FieldMatches
  <2>3. CASE d.kind = "variable"
    BY <2>1, <2>3 DEF HoldsKey, KeyIn, KeyOf
  <2>4. CASE d.kind = "array"
    <3>1. d.min = 0 /\ value \in d.min..d.max /\ (value = 0 => first = 0)
      BY <1>1, <2>1, <2>4 DEF FromZero
    <3>2. value \in Int /\ value >= 0
      BY <3>1
    <3>3. /\ KeyIn(Declared, places, data, k) = first + value - d.min
          /\ KeyOf(d, value) = first + value
      BY <2>1, <2>4 DEF KeyIn, KeyOf
    <3>4. first + value - d.min = first + value /\ (first + value # 0 <=> value # 0)
      BY <2>2, <3>1, <3>2
    <3>5. HoldsKey(Declared, places, data, k)
            <=> value \in d.min..d.max /\ KeyIn(Declared, places, data, k) # 0
      BY <2>1, <2>4 DEF HoldsKey
    <3>6. QED
      BY <2>1, <3>1, <3>3, <3>4, <3>5
  <2>5. QED
    BY <2>2, <2>3, <2>4
<1>2. QED
  BY <1>1 DEF HeldIn, NonZero

(* KeysAsHeld: hid_report_get_pressed_keys finds in a report, through the   *)
(* parsed descriptor, exactly the keys the report holds according to the    *)
(* items of the descriptor, in order and up to PressedLen of them.  For     *)
(* every report of a descriptor of any length whose numbers fit, when its   *)
(* fields are of up to 32 bits, their usages in the list, and its keys in   *)
(* arrays of a range that are numbered from zero (FromZero).                *)
THEOREM KeysAsHeldInvariant == Spec => []KeysAsHeld
<1>1. ParsedInv /\ KeyboardInv /\ PressedInv => KeysAsHeld
  <2> DEFINE places == FieldsOfReport(Declared, pressed.id, "input")
             held == HeldIn(Declared, places, pressed.data)
             before(k) == Cardinality({j \in held : j < k})
             key == [k \in held |-> KeyIn(Declared, places, pressed.data, k)]
  <2> SUFFICES ASSUME ParsedInv, KeyboardInv, PressedInv,
                      pressed # Null, pressed.protocol # "bootKeyboard", Parsed, NumbersFit,
                      ~\E k \in places :
                          \/ KeyList(Declared[k])
                          \/ ~ListLimited(Declared[k]) \/ ~SizeLimited(Declared[k])
                          \/ ~FromZero(Declared[k], ValueIn(Declared, places, pressed.data, k))
               PROVE  /\ Len(pressed.keys) = Lesser(PressedLen, Cardinality(held))
                      /\ \A k \in held : before(k) < PressedLen =>
                           pressed.keys[before(k) + 1]
                             = KeyIn(Declared, places, pressed.data, k) % 256
    BY DEF KeysAsHeld
  <2>1. /\ hid # Null /\ pressed.data \in Seq(0..255)
        /\ pressed.keys = IF hid.keyboard THEN PressedKeys(hid.tree, pressed.data, pressed.id)
                          ELSE <<>>
    BY DEF PressedInv
  <2>2. \A k \in places :
          /\ ~KeyList(Declared[k]) /\ ListLimited(Declared[k]) /\ SizeLimited(Declared[k])
          /\ FromZero(Declared[k], ValueIn(Declared, places, pressed.data, k))
    OBVIOUS
  <2>3. \A k \in held : key[k] = KeyIn(Declared, places, pressed.data, k)
    OBVIOUS
  <2>4. \A k : before(k) = Cardinality(Before(held, k))
    BY DEF Before
  <2>5. PICK taken, read :
          /\ taken = NonZero(Declared, places, pressed.data)
          /\ read = [k \in taken |->
                       KeyOf(Declared[k], ValueIn(Declared, places, pressed.data, k))]
    OBVIOUS
  <2>6. /\ held = taken
        /\ \A k \in places : Declared[k].page = Keyboard =>
             KeyIn(Declared, places, pressed.data, k)
               = KeyOf(Declared[k], ValueIn(Declared, places, pressed.data, k))
    BY <2>1, <2>2, <2>5, HeldAsTaken
  <2>7. Collected(pressed.keys, read, taken, taken)
    BY <2>1, <2>2, <2>5, KeysOfReport
  <2>8. \A k \in taken : read[k] = key[k]
    BY <2>5, <2>6 DEF NonZero
  <2> HIDE DEF held, key, before
  <2>9. QED
    BY <2>3, <2>4, <2>6, <2>7, <2>8 DEF Collected
<1>2. QED
  BY <1>1, ParsedInvInductive, KeyboardInvInductive, PressedInvInductive, PTL
=============================================================================
