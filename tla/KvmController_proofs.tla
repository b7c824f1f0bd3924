------------------------ MODULE KvmController_proofs ------------------------
(***************************************************************************)
(* Proofs about KvmController, for every number of computers, devices,      *)
(* interfaces, slots and events, and every set of shortcuts.               *)
(***************************************************************************)
EXTENDS KvmController, CommonLemmas, SequenceTheorems

-----------------------------------------------------------------------------
(* Queues and tables.                                                      *)

LEMMA MinOfTwo ==
  ASSUME NEW a \in Nat, NEW b \in Nat
  PROVE  /\ Min({a, b}) \in {a, b} /\ Min({a, b}) <= a /\ Min({a, b}) <= b
<1>1. CASE a <= b
  BY <1>1 DEF Min
<1>2. CASE b <= a
  BY <1>2 DEF Min
<1>3. QED
  BY <1>1, <1>2

LEMMA MinOfSlots ==
  ASSUME NEW S \in SUBSET Slot, S # {}
  PROVE  Min(S) \in S
<1> DEFINE R == OpToRel(<, Nat)
<1>1. S \subseteq Nat
  BY KvmAssumption
<1>2. \A x, y \in Nat : x < y => <<x, y>> \in R
  BY DEF OpToRel
<1>3. IsWellFoundedOn(R, Nat)
  BY NatLessThanWellFounded, Zenon
<1> HIDE DEF R
<1>4. PICK x \in S : \A y \in S : ~(<<y, x>> \in R)
  BY <1>1, <1>3, WFMin
<1>5. x \in Nat /\ \A y \in S : y \in Nat /\ ~(y < x)
  BY <1>1, <1>2, <1>4
<1>6. \A y \in S : x <= y
  BY <1>5
<1>7. QED
  BY <1>6 DEF Min

(* What is added to a queue comes after what is there, as far as there is    *)
(* room, and nothing is lost when there is room for all.                    *)
LEMMA FittingFacts ==
  ASSUME NEW S, NEW q \in Seq(S), NEW ms \in Seq(S), NEW size \in Nat, Len(q) <= size
  PROVE  LET f == Fitting(q, ms, size) IN
         /\ f \in Seq(S) /\ Len(f) <= size
         /\ Len(q) <= Len(f) /\ Len(f) <= Len(q) + Len(ms)
         /\ \A i \in 1..Len(q) : f[i] = q[i]
         /\ \A i \in 1..Len(f) : i > Len(q) => i - Len(q) \in 1..Len(ms) /\ f[i] = ms[i - Len(q)]
         /\ Len(q) + Len(ms) <= size => Len(f) = Len(q) + Len(ms)
<1> DEFINE n == Min({size, Len(q) + Len(ms)})
           c == q \o ms
<1>1. Len(q) \in Nat /\ Len(ms) \in Nat
  OBVIOUS
<1>2. /\ n \in Nat /\ n <= size /\ n <= Len(q) + Len(ms)
      /\ n = size \/ n = Len(q) + Len(ms)
  BY <1>1, MinOfTwo
<1>3. /\ c \in Seq(S) /\ Len(c) = Len(q) + Len(ms)
      /\ \A i \in 1..Len(q) + Len(ms) : c[i] = IF i <= Len(q) THEN q[i] ELSE ms[i - Len(q)]
  BY ConcatProperties
<1> HIDE DEF n, c
<1>4. \A i \in 1..n : c[i] \in S
  BY <1>1, <1>2, <1>3
<1>5. /\ SubSeq(c, 1, n) \in Seq(S) /\ Len(SubSeq(c, 1, n)) = n
      /\ \A i \in 1..n : SubSeq(c, 1, n)[i] = c[i]
  <2>1. /\ SubSeq(c, 1, n) \in Seq(S)
        /\ Len(SubSeq(c, 1, n)) = IF 1 <= n THEN n - 1 + 1 ELSE 0
        /\ \A i \in 1..n - 1 + 1 : SubSeq(c, 1, n)[i] = c[1 + i - 1]
    <3>1. 1 \in Int /\ n \in Int
      BY <1>2
    <3>2. QED
      BY <1>4, <3>1, SubSeqProperties
  <2>2. QED
    BY <1>2, <2>1
<1> DEFINE f == Fitting(q, ms, size)
<1>6. f = SubSeq(c, 1, n)
  BY DEF Fitting, n, c
<1>7. /\ f \in Seq(S) /\ Len(f) = n /\ \A i \in 1..n : f[i] = c[i]
  BY <1>5, <1>6
<1> HIDE DEF f
<1>8. Len(q) <= n /\ (Len(q) + Len(ms) <= size => n = Len(q) + Len(ms))
  BY <1>1, <1>2
<1>9. \A i \in 1..Len(q) : f[i] = q[i]
  BY <1>1, <1>2, <1>3, <1>7, <1>8
<1>10. \A i \in 1..Len(f) : i > Len(q) => i - Len(q) \in 1..Len(ms) /\ f[i] = ms[i - Len(q)]
  BY <1>1, <1>2, <1>3, <1>7
<1>11. /\ f \in Seq(S) /\ Len(f) <= size /\ Len(q) <= Len(f) /\ Len(f) <= Len(q) + Len(ms)
       /\ Len(q) + Len(ms) <= size => Len(f) = Len(q) + Len(ms)
  BY <1>2, <1>7, <1>8
<1>12. QED
  BY <1>9, <1>10, <1>11 DEF f

(* Every enabled slot is listed.                                           *)
LEMMA SlotSeqFacts ==
  ASSUME NEW t \in Table
  PROVE  /\ Cardinality(EnabledSlots(t)) \in Nat
         /\ SlotSeq(t) \in Seq(EnabledSlots(t)) /\ Len(SlotSeq(t)) = Cardinality(EnabledSlots(t))
         /\ \A s \in EnabledSlots(t) : \E i \in DOMAIN SlotSeq(t) : SlotSeq(t)[i] = s
<1> DEFINE E == EnabledSlots(t)
           below(s) == {r \in E : r < s}
           n == Cardinality(E)
           rank == [s \in E |-> Cardinality(below(s)) + 1]
<1>1. IsFiniteSet(E) /\ E \subseteq Nat /\ n \in Nat
  BY KvmAssumption, FS_Subset, FS_CardinalityType DEF EnabledSlots
<1> HIDE DEF E
<1>2. ASSUME NEW s \in E
      PROVE  /\ IsFiniteSet(below(s)) /\ Cardinality(below(s)) \in Nat
             /\ Cardinality(below(s)) < n
  <2>1. below(s) \in SUBSET E /\ below(s) # E
    BY <1>1
  <2>2. IsFiniteSet(below(s)) /\ Cardinality(below(s)) <= n /\ Cardinality(below(s)) # n
    BY <1>1, <2>1, FS_Subset
  <2>3. QED
    BY <1>1, <2>2, FS_CardinalityType
<1>3. ASSUME NEW r \in E, NEW s \in E, r < s PROVE rank[r] # rank[s]
  <2>1. r \in below(s) /\ r \notin below(r) /\ below(r) \subseteq below(s)
    <3>1. r \in Nat /\ s \in Nat /\ \A x \in E : x \in Nat
      BY <1>1
    <3>2. ~(r < r) /\ \A x \in E : x < r => x < s
      BY <1>3, <3>1
    <3>3. QED
      BY <1>3, <3>2
  <2>2. Cardinality(below(r)) # Cardinality(below(s))
    <3>1. below(r) \in SUBSET below(s) /\ below(r) # below(s)
      BY <2>1
    <3> HIDE DEF below
    <3>2. QED
      BY <1>2, <3>1, FS_Subset
  <2>3. QED
    BY <1>2, <2>2
<1>4. rank \in [E -> 1..n]
  BY <1>1, <1>2
<1>5. \A r, s \in E : rank[r] = rank[s] => r = s
  BY <1>1, <1>3
<1>6. rank \in Injection(E, 1..n)
  BY <1>4, <1>5 DEF Injection, IsInjective
<1>7. IsFiniteSet(1..n) /\ Cardinality(1..n) = n
  BY <1>1, FS_Interval
<1>8. rank \in Surjection(E, 1..n)
  BY <1>6, <1>7, FS_Injection
<1>9. ASSUME NEW i \in 1..n
      PROVE  \E s \in E : Cardinality(below(s)) = i - 1
  <2>1. PICK s \in E : rank[s] = i
    BY <1>8 DEF Surjection
  <2>2. rank[s] = Cardinality(below(s)) + 1
    OBVIOUS
  <2>3. Cardinality(below(s)) \in Nat
    BY <1>2
  <2> HIDE DEF rank, below
  <2>4. Cardinality(below(s)) = i - 1
    BY <2>1, <2>2, <2>3
  <2>5. QED
    BY <2>4
<1>10. SlotSeq(t) = [i \in 1..n |-> CHOOSE s \in E : Cardinality(below(s)) = i - 1]
  BY DEF SlotSeq, E
<1>11. \A i \in 1..n : SlotSeq(t)[i] \in E /\ Cardinality(below(SlotSeq(t)[i])) = i - 1
  BY <1>9, <1>10
<1>12. SlotSeq(t) \in Seq(E) /\ Len(SlotSeq(t)) = n
  <2> DEFINE f == [i \in 1..n |-> SlotSeq(t)[i]]
  <2>1. f \in [1..n -> E] /\ SlotSeq(t) = f
    BY <1>10, <1>11
  <2> HIDE DEF f, n
  <2>2. f \in Seq(E) /\ Len(f) = n
    BY <1>1, <2>1
  <2>3. QED
    BY <2>1, <2>2
<1>13. ASSUME NEW s \in E PROVE \E i \in DOMAIN SlotSeq(t) : SlotSeq(t)[i] = s
  <2>1. rank[s] \in 1..n
    BY <1>4
  <2>2. SlotSeq(t)[rank[s]] \in E /\ Cardinality(below(SlotSeq(t)[rank[s]])) = rank[s] - 1
    BY <1>11, <2>1
  <2>3. rank[SlotSeq(t)[rank[s]]] = rank[s]
    <3> DEFINE u == SlotSeq(t)[rank[s]]
    <3>1. rank[u] = Cardinality(below(u)) + 1 /\ rank[s] \in Int
      BY <2>1, <2>2
    <3>2. Cardinality(below(u)) = rank[s] - 1
      BY <2>2
    <3> HIDE DEF u, rank, below
    <3>3. rank[u] = rank[s]
      BY <3>1, <3>2
    <3>4. QED
      BY <3>3 DEF u
  <2>4. QED
    BY <1>5, <1>10, <2>1, <2>2, <2>3
<1>14. QED
  BY <1>1, <1>12, <1>13 DEF E

LEMMA AcceptFacts ==
  ASSUME NEW S, NEW q \in Seq(S), NEW a \in S, Len(q) <= ActionQueueSize
  PROVE  /\ Accept(q, a) \in Seq(S) /\ Len(Accept(q, a)) <= ActionQueueSize
         /\ Accept(q, a) \in {q, Append(q, a)}
         /\ Len(q) < ActionQueueSize => Accept(q, a) = Append(q, a)
BY AppendProperties, KvmAssumption DEF Accept

LEMMA EnqueueFacts ==
  ASSUME NEW S, NEW q \in Seq(S), NEW m \in S, Len(q) <= MessageQueueSize
  PROVE  /\ Enqueue(q, m) \in Seq(S) /\ Len(Enqueue(q, m)) <= MessageQueueSize
         /\ Enqueue(q, m) \in {q, Append(q, m)}
         /\ Len(q) < MessageQueueSize => Enqueue(q, m) = Append(q, m)
BY AppendProperties, KvmAssumption DEF Enqueue

-----------------------------------------------------------------------------
(* Actions and messages.                                                   *)

HidOps == {"hidMount", "hidUmount"}

LEMMA ActionsMade ==
  /\ \A op \in {"deviceMounted", "deviceUnmounted", "usbMounted"} : [op |-> op] \in Action
  /\ \A op \in HidOps, h \in Hid : [op |-> op, hid |-> h] \in Action
  /\ \A h \in Hid, key \in Shortcut \cup {PlainKey} :
       [op |-> "report", hid |-> h, key |-> key] \in Action
  /\ \A n \in Node : [op |-> "computerReady", computer |-> n] \in Action
  /\ \A c \in Computer, s \in Slot, k \in Kind, v \in Value : SettingMsg(c, s, k, v) \in Action
BY DEF Action, HidOps, SettingMsg

LEMMA ActionsRead ==
  \A a \in Action :
    /\ a.op \in HidOps => a.hid \in Hid
    /\ a.op = "report" => a.hid \in Hid /\ a.key \in Shortcut \cup {PlainKey}
    /\ a.op = "computerReady" => a.computer \in Node
    /\ a.op = "set" => /\ a.computer \in Computer /\ a.slot \in Slot /\ a.kind \in Kind
                       /\ a.value \in Value
BY DEF Action, HidOps

LEMMA MessagesMade ==
  /\ [op |-> "init"] \in ToNodeMsg /\ StartMsg \in ToNodeMsg
  /\ \A s \in Slot, h \in Hid : /\ MountMsg(s, h) \in ToNodeMsg
                                /\ [op |-> "report", slot |-> s, hid |-> h] \in ToNodeMsg
  /\ [op |-> "init"] \in ToCtrlMsg
  /\ \A c \in Node, s \in Slot, k \in Kind, v \in Value : SettingMsg(c, s, k, v) \in ToCtrlMsg
BY DEF ToNodeMsg, ToCtrlMsg, StartMsg, MountMsg, SettingMsg

LEMMA MessagesRead ==
  /\ \A m \in ToNodeMsg : m.op \in {"mount", "report"} => m.slot \in Slot /\ m.hid \in Hid
  /\ \A m \in ToNodeMsg : m.op \in {"init", "start", "mount", "report"}
  /\ \A m \in ToCtrlMsg : m.op # "init" => m \in Action /\ m.op = "set"
BY DEF ToNodeMsg, ToCtrlMsg, Action, Node

LEMMA HidCallbacksFacts ==
  ASSUME NEW name \in HidOps, NEW d \in Device
  PROVE  /\ HidCallbacks(name, d) \in Seq(Action)
         /\ Len(HidCallbacks(name, d)) = MaxInterface
         /\ \A i \in 1..MaxInterface :
              HidCallbacks(name, d)[i] = [op |-> name, hid |-> [dev |-> d, itf |-> i - 1]]
<1> DEFINE a(i) == [op |-> name, hid |-> [dev |-> d, itf |-> i - 1]]
           f == [i \in 1..MaxInterface |-> a(i)]
<1>1. \A i \in 1..MaxInterface : [dev |-> d, itf |-> i - 1] \in Hid
  BY KvmAssumption DEF Hid
<1>2. \A i \in 1..MaxInterface : a(i) \in Action
  BY <1>1, ActionsMade
<1>3. HidCallbacks(name, d) = f
  BY DEF HidCallbacks
<1>4. f \in [1..MaxInterface -> Action] /\ MaxInterface \in Nat
  BY <1>2, KvmAssumption
<1>5. \A i \in 1..MaxInterface : f[i] = a(i)
  OBVIOUS
<1> HIDE DEF f
<1>6. f \in Seq(Action) /\ Len(f) = MaxInterface
  BY <1>4
<1>7. QED
  BY <1>3, <1>5, <1>6

(* The announcement mounts every enabled slot, and starts the node only      *)
(* after all of them.                                                      *)
LEMMA AnnouncementFacts ==
  ASSUME TypeOK
  PROVE  LET a == Announcement
             n == Cardinality(EnabledSlots(table))
         IN
         /\ a \in Seq(ToNodeMsg) /\ n \in Nat
         /\ Len(a) = n + IF usbReady THEN 1 ELSE 0
         /\ \A i \in 1..n : \E s \in EnabledSlots(table) : a[i] = MountMsg(s, table[s])
         /\ \A s \in EnabledSlots(table) : \E i \in 1..n : a[i] = MountMsg(s, table[s])
         /\ usbReady => a[n + 1] = StartMsg
<1> DEFINE q == SlotSeq(table)
           n == Cardinality(EnabledSlots(table))
           ms == [i \in DOMAIN q |-> MountMsg(q[i], table[q[i]])]
           st == IF usbReady THEN <<StartMsg>> ELSE << >>
<1>1. table \in Table
  BY DEF TypeOK
<1>2. /\ n \in Nat /\ q \in Seq(EnabledSlots(table)) /\ Len(q) = n
      /\ \A s \in EnabledSlots(table) : \E i \in DOMAIN q : q[i] = s
  BY <1>1, SlotSeqFacts
<1>3. \A s \in EnabledSlots(table) : table[s] \in Hid /\ s \in Slot
  BY <1>1 DEF Table, EnabledSlots
<1> HIDE DEF q
<1>4. DOMAIN q = 1..n /\ \A i \in 1..n : q[i] \in EnabledSlots(table)
  BY <1>2
<1>5. /\ \A i \in 1..n : ms[i] = MountMsg(q[i], table[q[i]])
      /\ ms \in [1..n -> ToNodeMsg]
  BY <1>3, <1>4, MessagesMade
<1>6. st \in Seq(ToNodeMsg) /\ Len(st) = (IF usbReady THEN 1 ELSE 0) /\ (usbReady => st[1] = StartMsg)
  BY MessagesMade
<1>7. Announcement = ms \o st
  BY DEF Announcement, q
<1> HIDE DEF n, ms, st
<1>8. ms \in Seq(ToNodeMsg) /\ Len(ms) = n
  BY <1>2, <1>5
<1> DEFINE a == ms \o st
<1>9. /\ a \in Seq(ToNodeMsg) /\ Len(a) = n + Len(st)
      /\ \A i \in 1..n + Len(st) : a[i] = IF i <= n THEN ms[i] ELSE st[i - n]
  BY <1>6, <1>8, ConcatProperties
<1> HIDE DEF a
<1>10. \A i \in 1..n : a[i] = MountMsg(q[i], table[q[i]])
  BY <1>2, <1>5, <1>6, <1>9
<1>11. usbReady => a[n + 1] = StartMsg
  BY <1>2, <1>6, <1>9
<1>12. \A i \in 1..n : \E s \in EnabledSlots(table) : a[i] = MountMsg(s, table[s])
  BY <1>4, <1>10
<1>13. \A s \in EnabledSlots(table) : \E i \in 1..n : a[i] = MountMsg(s, table[s])
  BY <1>2, <1>4, <1>10
<1>14. QED
  BY <1>2, <1>6, <1>7, <1>9, <1>11, <1>12, <1>13 DEF a, n

-----------------------------------------------------------------------------
(* Types.                                                                  *)

LEMMA FreshIsSetting == Fresh \in Setting
BY DEF Fresh, Setting, Value

LEMMA SettingChanged ==
  ASSUME NEW r \in Setting, NEW k \in Kind, NEW v \in Value
  PROVE  /\ [r EXCEPT ![k] = v] \in Setting
         /\ [r EXCEPT ![k] = v].report = IF k = "report" THEN v ELSE r.report
<1>1. CASE k = "protocol"
  BY <1>1 DEF Setting
<1>2. CASE k = "report"
  BY <1>2 DEF Setting
<1>3. QED
  BY <1>1, <1>2 DEF Kind

LEMMA InitTypes == Init => TypeOK
<1> SUFFICES ASSUME Init PROVE TypeOK
  OBVIOUS
<1> USE KvmAssumption, FreshIsSetting DEF Init
<1>1. NoHid \in Table
  BY DEF NoHid, Table
<1>2. toCtrl \in [Node -> Seq(ToCtrlMsg)]
  BY MessagesMade
<1>3. active \in [Device -> Computer]
  BY DEF Computer, Local
<1>4. saved \in [Computer -> [Slot -> Setting]] /\ asked \in [Hid -> Setting]
  OBVIOUS
<1>5. /\ toNode \in [Node -> Seq(ToNodeMsg)]
      /\ \A n \in Node : Len(toNode[n]) <= MessageQueueSize
  OBVIOUS
<1>6. /\ up \subseteq Device /\ callbacks \in Seq(Action) /\ actions \in Seq(Action)
      /\ Len(actions) <= ActionQueueSize /\ mountedCount \in 0..255
      /\ connected \subseteq Node /\ connecting \subseteq Computer
  OBVIOUS
<1>7. /\ table \in Table /\ nodeTable \in [Node -> Table] /\ exposed \in [Computer -> Table]
      /\ startDue \in BOOLEAN /\ usbReady \in BOOLEAN
  BY <1>1
<1>8. QED
  BY <1>2, <1>3, <1>4, <1>5, <1>6, <1>7 DEF TypeOK

(* What the handlers read at the head of a queue.                           *)
LEMMA HeadTypes ==
  ASSUME NEW S, NEW q \in Seq(S), q # << >>
  PROVE  /\ Head(q) = q[1] /\ Head(q) \in S /\ Tail(q) \in Seq(S) /\ Len(q) \in Nat \ {0}
         /\ Len(Tail(q)) = Len(q) - 1
         /\ \A i \in 1..Len(q) - 1 : Tail(q)[i] = q[i + 1]
<1>1. Len(q) \in Nat \ {0}
  BY EmptySeq
<1>2. QED
  BY <1>1, HeadTailProperties

LEMMA SetActiveTypes ==
  ASSUME TypeOK, NEW c \in Computer, NEW ds, SetActive(c, ds)
  PROVE  active' \in [Device -> Computer] /\ asked' \in [Hid -> Setting]
<1>1. active' \in [Device -> Computer]
  BY DEF SetActive, TypeOK
<1>2. ASSUME NEW h \in Hid, SlotsOf(table, h) # {}
      PROVE  Min(SlotsOf(table, h)) \in Slot
  BY <1>2, MinOfSlots DEF SlotsOf
<1>3. ASSUME NEW h \in Hid
      PROVE  LET mine == saved[c][Min(SlotsOf(table, h))] IN
             SlotsOf(table, h) # {} =>
               [protocol |-> mine.protocol,
                report |-> IF mine.report = None THEN asked[h].report ELSE mine.report] \in Setting
  <2> DEFINE mine == saved[c][Min(SlotsOf(table, h))]
  <2> SUFFICES ASSUME SlotsOf(table, h) # {}
               PROVE  [protocol |-> mine.protocol,
                       report |-> IF mine.report = None THEN asked[h].report ELSE mine.report]
                        \in Setting
    OBVIOUS
  <2>1. mine \in Setting /\ asked[h] \in Setting
    BY <1>2 DEF TypeOK
  <2> HIDE DEF mine
  <2>2. /\ mine.protocol \in Value /\ mine.report \in Value \cup {None}
        /\ asked[h].report \in Value \cup {None}
    BY <2>1 DEF Setting
  <2>3. QED
    BY <2>2 DEF Setting
<1>4. Restored(c, ds) \in [Hid -> Setting]
  BY <1>3 DEF Restored, TypeOK
<1>5. QED
  BY <1>1, <1>4 DEF SetActive

LEMMA ShortcutSets ==
  ASSUME TypeOK, NEW key \in Shortcut, ExecuteShortcut(key)
  PROVE  \E c \in Computer : \E ds : SetActive(c, ds)
<1>1. active[1] \in 0..MaxComputer - 1 /\ MaxComputer \in Nat \ {0}
  BY KvmAssumption DEF TypeOK, Device, Computer
<1>2. CASE key.action = "next"
  <2>1. (active[1] + 1) % MaxComputer \in Computer
    BY <1>1 DEF Computer
  <2>2. SetActive((active[1] + 1) % MaxComputer, Device)
    BY <1>2 DEF ExecuteShortcut
  <2>3. QED
    BY <2>1, <2>2
<1>3. CASE key.action = "previous"
  <2> DEFINE c == IF active[1] = 0 THEN MaxComputer - 1 ELSE active[1] - 1
  <2>1. c \in Computer
    BY <1>1 DEF Computer
  <2>2. SetActive(c, Device)
    BY <1>3 DEF ExecuteShortcut
  <2>3. QED
    BY <2>1, <2>2
<1>4. CASE key.action = "set"
  <2>1. key.computer \in Computer
    BY <1>4, NamesAssumption
  <2>2. SetActive(key.computer, Device)
    BY <1>4 DEF ExecuteShortcut
  <2>3. QED
    BY <2>1, <2>2
<1>5. CASE key.action = "setDevice"
  <2>1. key.computer \in Computer
    BY <1>5, NamesAssumption
  <2>2. SetActive(key.computer, {key.dev})
    BY <1>5 DEF ExecuteShortcut
  <2>3. QED
    BY <2>1, <2>2
<1>6. QED
  BY <1>2, <1>3, <1>4, <1>5, NamesAssumption

LEMMA ShortcutTypes ==
  ASSUME TypeOK, NEW key \in Shortcut, ExecuteShortcut(key)
  PROVE  active' \in [Device -> Computer] /\ asked' \in [Hid -> Setting]
BY ShortcutSets, SetActiveTypes

LEMMA NextTypes == TypeOK /\ [Next]_vars => TypeOK'
<1> SUFFICES ASSUME TypeOK, [Next]_vars PROVE TypeOK'
  OBVIOUS
<1> USE DEF hostVars, switchVars, linkVars, computerVars
<1>0. /\ actions \in Seq(Action) /\ Len(actions) <= ActionQueueSize
      /\ callbacks \in Seq(Action) /\ table \in Table
      /\ toNode \in [Node -> Seq(ToNodeMsg)] /\ toCtrl \in [Node -> Seq(ToCtrlMsg)]
      /\ \A n \in Node : Len(toNode[n]) <= MessageQueueSize
      /\ mountedCount \in 0..255
  BY DEF TypeOK
(* Taking an action leaves the queue typed and within its size.             *)
<1>1. ASSUME NEW op, Take(op)
      PROVE  /\ actions' \in Seq(Action) /\ Len(actions') <= ActionQueueSize
             /\ Head(actions) \in Action /\ Head(actions).op = op
  <2>1. actions # << >> /\ actions' = Tail(actions) /\ Head(actions).op = op
    BY <1>1 DEF Take
  <2>2. /\ Head(actions) \in Action /\ Tail(actions) \in Seq(Action) /\ Len(actions) \in Nat
        /\ Len(Tail(actions)) = Len(actions) - 1
    BY <1>0, <2>1, HeadTypes
  <2>3. QED
    BY <1>0, <2>1, <2>2, KvmAssumption
<1>2. ASSUME NEW m \in ToNodeMsg, Broadcast(m)
      PROVE  toNode' \in [Node -> Seq(ToNodeMsg)] /\ \A n \in Node : Len(toNode'[n]) <= MessageQueueSize
  BY <1>0, <1>2, EnqueueFacts DEF Broadcast
<1>3. ASSUME NEW d \in Device, Plug(d) PROVE TypeOK'
  <2>1. callbacks' \in Seq(Action)
    <3>1. HidCallbacks("hidMount", d) \in Seq(Action) /\ [op |-> "deviceMounted"] \in Action
      BY HidCallbacksFacts, ActionsMade DEF HidOps
    <3>2. QED
      BY <1>3, <3>1, AppendProperties DEF Plug
  <2>2. QED
    BY <1>3, <2>1 DEF Plug, TypeOK
<1>4. ASSUME NEW d \in Device, Unplug(d) PROVE TypeOK'
  <2>1. callbacks' \in Seq(Action)
    <3>1. /\ HidCallbacks("hidUmount", d) \in Seq(Action)
          /\ <<[op |-> "deviceUnmounted"]>> \in Seq(Action)
      BY HidCallbacksFacts, ActionsMade DEF HidOps
    <3>2. QED
      BY <1>4, <3>1, ConcatProperties DEF Unplug
  <2>2. QED
    BY <1>4, <2>1 DEF Unplug, TypeOK
<1>5. CASE HostCallback
  <2>1. Head(callbacks) \in Action /\ callbacks' \in Seq(Action)
    BY <1>0, <1>5, HeadTypes DEF HostCallback
  <2>2. actions' \in Seq(Action) /\ Len(actions') <= ActionQueueSize
    BY <1>0, <1>5, <2>1, AcceptFacts DEF HostCallback
  <2>3. QED
    BY <1>5, <2>1, <2>2 DEF HostCallback, TypeOK
<1>6. ASSUME NEW h \in Hid, NEW key \in Shortcut \cup {PlainKey}, HostReport(h, key)
      PROVE  TypeOK'
  <2>1. [op |-> "report", hid |-> h, key |-> key] \in Action
    BY ActionsMade
  <2>2. actions' \in Seq(Action) /\ Len(actions') <= ActionQueueSize
    BY <1>0, <1>6, <2>1, AcceptFacts DEF HostReport
  <2>3. QED
    BY <1>6, <2>2 DEF HostReport, TypeOK
<1>7. CASE DeviceMounted \/ DeviceUnmounted
  <2>1. actions' \in Seq(Action) /\ Len(actions') <= ActionQueueSize
    BY <1>1, <1>7 DEF DeviceMounted, DeviceUnmounted
  <2>2. mountedCount' \in 0..255 /\ startDue' \in BOOLEAN
    <3>1. /\ startDue' \in {TRUE, startDue}
          /\ \/ mountedCount' = (mountedCount + 1) % 256
             \/ mountedCount' = (mountedCount + 255) % 256
      BY <1>7 DEF DeviceMounted, DeviceUnmounted
    <3>2. (mountedCount + 1) % 256 \in 0..255 /\ (mountedCount + 255) % 256 \in 0..255
      BY <1>0
    <3>3. startDue' \in BOOLEAN
      BY <3>1 DEF TypeOK
    <3>4. QED
      BY <3>1, <3>2, <3>3
  <2>3. QED
    BY <1>7, <2>1, <2>2 DEF DeviceMounted, DeviceUnmounted, TypeOK
<1>8. CASE HidMount
  <2> DEFINE h == Head(actions).hid
  <2>1. Take("hidMount") /\ h \in Hid
    BY <1>1, <1>8, ActionsRead DEF HidMount, HidOps
  <2> HIDE DEF h
  <2>2. CASE FreeSlots = {} /\ UNCHANGED <<table, asked, toNode>>
    BY <1>1, <1>8, <2>1, <2>2 DEF HidMount, TypeOK
  <2>3. CASE /\ FreeSlots # {} /\ table' = [table EXCEPT ![Min(FreeSlots)] = h]
             /\ asked' = [asked EXCEPT ![h] = Fresh]
             /\ Broadcast(MountMsg(Min(FreeSlots), h))
    <3>1. Min(FreeSlots) \in Slot
      BY <2>3, MinOfSlots DEF FreeSlots
    <3>2. table' \in Table /\ asked' \in [Hid -> Setting]
      BY <2>1, <2>3, FreshIsSetting DEF TypeOK, Table
    <3>3. MountMsg(Min(FreeSlots), h) \in ToNodeMsg
      BY <2>1, <3>1, MessagesMade
    <3>4. toNode' \in [Node -> Seq(ToNodeMsg)] /\ \A n \in Node : Len(toNode'[n]) <= MessageQueueSize
      BY <1>2, <2>3, <3>3
    <3>5. QED
      BY <1>1, <1>8, <2>1, <3>2, <3>4 DEF HidMount, TypeOK
  <2>4. QED
    BY <1>8, <2>2, <2>3 DEF HidMount, h
<1>9. CASE HidUmount
  <2> DEFINE h == Head(actions).hid
  <2>1. Take("hidUmount")
    BY <1>9 DEF HidUmount
  <2>2. table' \in Table
    BY <1>0, <1>9 DEF HidUmount, Unregistered, Table
  <2>3. QED
    BY <1>1, <1>9, <2>1, <2>2 DEF HidUmount, TypeOK
<1>10. CASE HidReport
  <2> DEFINE h == Head(actions).hid
             key == Head(actions).key
  <2>1. Take("report") /\ h \in Hid /\ key \in Shortcut \cup {PlainKey}
    BY <1>1, <1>10, ActionsRead DEF HidReport
  <2> HIDE DEF h, key
  <2>2. CASE UNCHANGED <<active, asked, toNode>>
    BY <1>1, <1>10, <2>1, <2>2 DEF HidReport, TypeOK
  <2>3. CASE key \in Shortcut /\ ExecuteShortcut(key) /\ UNCHANGED toNode
    <3>1. active' \in [Device -> Computer] /\ asked' \in [Hid -> Setting]
      BY <2>3, ShortcutTypes
    <3>2. QED
      BY <1>1, <1>10, <2>1, <2>3, <3>1 DEF HidReport, TypeOK
  <2>4. CASE /\ SlotsOf(table, h) # {} /\ Forward(Min(SlotsOf(table, h)), h)
             /\ UNCHANGED <<active, asked>>
    <3> DEFINE s == Min(SlotsOf(table, h))
               m == [op |-> "report", slot |-> s, hid |-> h]
    <3>1. s \in Slot
      BY <2>4, MinOfSlots DEF SlotsOf
    <3>2. m \in ToNodeMsg
      BY <2>1, <3>1, MessagesMade
    <3> HIDE DEF s
    <3>3. toNode' = toNode \/ \E c \in connected : toNode' = [toNode EXCEPT ![c] = Enqueue(@, m)]
      BY <2>4 DEF Forward, ReportMsg, s
    <3> HIDE DEF m
    <3>4. \A n \in Node : /\ Enqueue(toNode[n], m) \in Seq(ToNodeMsg)
                          /\ Len(Enqueue(toNode[n], m)) <= MessageQueueSize
      BY <1>0, <3>2, EnqueueFacts
    <3>5. toNode' \in [Node -> Seq(ToNodeMsg)] /\ \A n \in Node : Len(toNode'[n]) <= MessageQueueSize
      <4>1. CASE toNode' = toNode
        BY <1>0, <4>1
      <4>2. ASSUME NEW c \in Node, toNode' = [toNode EXCEPT ![c] = Enqueue(@, m)]
            PROVE  /\ toNode' \in [Node -> Seq(ToNodeMsg)]
                   /\ \A n \in Node : Len(toNode'[n]) <= MessageQueueSize
        BY <1>0, <3>4, <4>2
      <4>3. QED
        BY <3>3, <4>1, <4>2 DEF TypeOK
    <3>6. QED
      BY <1>1, <1>10, <2>1, <2>4, <3>5 DEF HidReport, TypeOK
  <2>5. QED
    BY <1>10, <2>2, <2>3, <2>4 DEF HidReport, h, key
<1>11. CASE ComputerReady
  <2> DEFINE n == Head(actions).computer
  <2>1. Take("computerReady") /\ n \in Node
    BY <1>1, <1>11, ActionsRead DEF ComputerReady
  <2>2. Announcement \in Seq(ToNodeMsg)
    BY AnnouncementFacts
  <2>3. toNode' = [toNode EXCEPT ![n] = EnqueueAll(@, Announcement)]
    BY <1>11 DEF ComputerReady
  <2> HIDE DEF n
  <2>4. /\ EnqueueAll(toNode[n], Announcement) \in Seq(ToNodeMsg)
        /\ Len(EnqueueAll(toNode[n], Announcement)) <= MessageQueueSize
    BY <1>0, <2>1, <2>2, FittingFacts, KvmAssumption DEF EnqueueAll
  <2>5. toNode' \in [Node -> Seq(ToNodeMsg)] /\ \A k \in Node : Len(toNode'[k]) <= MessageQueueSize
    BY <1>0, <2>3, <2>4
  <2>6. QED
    BY <1>1, <1>11, <2>1, <2>5 DEF ComputerReady, TypeOK
<1>12. CASE ComputerSetting
  <2> DEFINE a == Head(actions)
             h == table[a.slot]
  <2>1. /\ Take("set") /\ a.computer \in Computer /\ a.slot \in Slot /\ a.kind \in Kind
        /\ a.value \in Value
    BY <1>1, <1>12, ActionsRead DEF ComputerSetting
  <2>2. /\ saved' = [saved EXCEPT ![a.computer][a.slot][a.kind] = a.value]
        /\ asked' = IF h # None /\ ForwardsSetting(a.computer, h)
                    THEN [asked EXCEPT ![h][a.kind] = a.value] ELSE asked
    BY <1>12 DEF ComputerSetting
  <2>3. h # None => h \in Hid
    BY <1>0, <2>1 DEF Table
  <2> HIDE DEF a, h
  <2>4. saved' \in [Computer -> [Slot -> Setting]]
    <3>1. saved[a.computer][a.slot] \in Setting
      BY <2>1 DEF TypeOK
    <3>2. [saved[a.computer][a.slot] EXCEPT ![a.kind] = a.value] \in Setting
      BY <2>1, <3>1, SettingChanged
    <3>3. QED
      BY <2>1, <2>2, <3>2 DEF TypeOK
  <2>5. asked' \in [Hid -> Setting]
    <3>1. CASE asked' = asked
      BY <3>1 DEF TypeOK
    <3>2. CASE h # None /\ asked' = [asked EXCEPT ![h][a.kind] = a.value]
      <4>1. [asked[h] EXCEPT ![a.kind] = a.value] \in Setting
        BY <2>1, <2>3, <3>2, SettingChanged DEF TypeOK
      <4>2. QED
        BY <2>3, <3>2, <4>1 DEF TypeOK
    <3>3. QED
      BY <2>2, <3>1, <3>2
  <2>6. QED
    BY <1>1, <1>12, <2>1, <2>4, <2>5 DEF ComputerSetting, TypeOK
<1>13. ASSUME NEW c \in Computer, InitComputer(c)
       PROVE  saved' \in [Computer -> [Slot -> Setting]]
  BY <1>13, FreshIsSetting DEF InitComputer, TypeOK
<1>14. CASE UsbDeviceMounted
  <2>1. Take("usbMounted") /\ saved' \in [Computer -> [Slot -> Setting]]
    BY <1>13, <1>14, KvmAssumption DEF UsbDeviceMounted, Local, Computer
  <2>2. QED
    BY <1>1, <1>14, <2>1 DEF UsbDeviceMounted, TypeOK
<1>15. ASSUME NEW c \in Computer, ConnectUsb(c)
       PROVE  connecting' \subseteq Computer /\ exposed' \in [Computer -> Table]
  BY <1>15 DEF ConnectUsb, TypeOK, NoHid, Table
<1>16. CASE StartUsbDevices
  <2>1. connecting' \subseteq Computer /\ exposed' \in [Computer -> Table]
    BY <1>15, <1>16, KvmAssumption DEF StartUsbDevices, Local, Computer
  <2>2. toNode' \in [Node -> Seq(ToNodeMsg)] /\ \A n \in Node : Len(toNode'[n]) <= MessageQueueSize
    BY <1>2, <1>16, MessagesMade DEF StartUsbDevices
  <2>3. QED
    BY <1>16, <2>1, <2>2 DEF StartUsbDevices, TypeOK
<1>17. ASSUME NEW n \in Node, CtrlHandles(n) PROVE TypeOK'
  <2> DEFINE m == Head(toCtrl[n])
  <2>1. n \in Computer /\ m \in ToCtrlMsg /\ Tail(toCtrl[n]) \in Seq(ToCtrlMsg)
    BY <1>0, <1>17, HeadTypes DEF CtrlHandles, Node
  <2>2. toCtrl' \in [Node -> Seq(ToCtrlMsg)]
    BY <1>0, <1>17, <2>1 DEF CtrlHandles
  <2> HIDE DEF m
  <2>3. CASE m.op = "init"
    <3>1. /\ connected' = connected \cup {n} /\ InitComputer(n)
          /\ toNode' = [toNode EXCEPT ![n] = Enqueue(@, [op |-> "init"])]
          /\ actions' = Accept(actions, [op |-> "computerReady", computer |-> n])
      BY <1>17, <2>3 DEF CtrlHandles, m
    <3>2. actions' \in Seq(Action) /\ Len(actions') <= ActionQueueSize
      BY <1>0, <3>1, ActionsMade, AcceptFacts
    <3>3. /\ Enqueue(toNode[n], [op |-> "init"]) \in Seq(ToNodeMsg)
          /\ Len(Enqueue(toNode[n], [op |-> "init"])) <= MessageQueueSize
      BY <1>0, MessagesMade, EnqueueFacts
    <3>4. toNode' \in [Node -> Seq(ToNodeMsg)] /\ \A k \in Node : Len(toNode'[k]) <= MessageQueueSize
      BY <1>0, <3>1, <3>3
    <3>5. saved' \in [Computer -> [Slot -> Setting]]
      BY <1>13, <2>1, <3>1
    <3>6. QED
      BY <1>17, <2>2, <3>1, <3>2, <3>4, <3>5 DEF CtrlHandles, TypeOK
  <2>4. CASE m.op # "init"
    <3>1. actions' = Accept(actions, m) /\ UNCHANGED <<connected, saved, toNode>>
      BY <1>17, <2>4 DEF CtrlHandles, m
    <3>2. m \in Action
      BY <2>1, <2>4, MessagesRead
    <3>3. actions' \in Seq(Action) /\ Len(actions') <= ActionQueueSize
      BY <1>0, <3>1, <3>2, AcceptFacts
    <3>4. QED
      BY <1>17, <2>2, <3>1, <3>3 DEF CtrlHandles, TypeOK
  <2>5. QED
    BY <2>3, <2>4
<1>18. ASSUME NEW n \in Node, NodeHandles(n) PROVE TypeOK'
  <2> DEFINE m == Head(toNode[n])
  <2>1. /\ n \in Computer /\ m \in ToNodeMsg /\ Tail(toNode[n]) \in Seq(ToNodeMsg)
        /\ Len(Tail(toNode[n])) <= MessageQueueSize
    <3>1. toNode[n] # << >> /\ toNode[n] \in Seq(ToNodeMsg) /\ Len(toNode[n]) <= MessageQueueSize
      BY <1>0, <1>18 DEF NodeHandles
    <3>2. /\ m \in ToNodeMsg /\ Tail(toNode[n]) \in Seq(ToNodeMsg) /\ Len(toNode[n]) \in Nat
          /\ Len(Tail(toNode[n])) = Len(toNode[n]) - 1
      BY <3>1, HeadTypes
    <3>3. QED
      BY <3>1, <3>2, KvmAssumption DEF Node
  <2>2. toNode' \in [Node -> Seq(ToNodeMsg)] /\ \A k \in Node : Len(toNode'[k]) <= MessageQueueSize
    BY <1>0, <1>18, <2>1 DEF NodeHandles
  <2> HIDE DEF m
  <2>3. CASE m.op = "mount"
    <3>1. /\ nodeTable' = [nodeTable EXCEPT ![n][m.slot] = m.hid]
          /\ UNCHANGED <<connecting, exposed>>
      BY <1>18, <2>3 DEF NodeHandles, m
    <3>2. m.slot \in Slot /\ m.hid \in Hid
      BY <2>1, <2>3, MessagesRead
    <3>3. nodeTable' \in [Node -> Table]
      BY <3>1, <3>2 DEF TypeOK, Table
    <3>4. QED
      BY <1>18, <2>2, <3>1, <3>3 DEF NodeHandles, TypeOK
  <2>4. CASE m.op = "start"
    <3>1. ConnectUsb(n) /\ UNCHANGED nodeTable
      BY <1>18, <2>4 DEF NodeHandles, m
    <3>2. connecting' \subseteq Computer /\ exposed' \in [Computer -> Table]
      BY <1>15, <2>1, <3>1
    <3>3. QED
      BY <1>18, <2>2, <3>1, <3>2 DEF NodeHandles, TypeOK
  <2>5. CASE m.op \notin {"mount", "start"}
    <3>1. UNCHANGED computerVars
      BY <1>18, <2>5 DEF NodeHandles, m
    <3>2. QED
      BY <1>18, <2>2, <3>1 DEF NodeHandles, TypeOK
  <2>6. QED
    BY <2>3, <2>4, <2>5
<1>19. ASSUME NEW n \in Node, NodeRestart(n) PROVE TypeOK'
  <2>1. NoHid \in Table /\ <<[op |-> "init"]>> \in Seq(ToCtrlMsg)
    BY MessagesMade DEF NoHid, Table
  <2>2. /\ nodeTable' = [nodeTable EXCEPT ![n] = NoHid]
        /\ exposed' = [exposed EXCEPT ![n] = NoHid]
        /\ toCtrl' = [toCtrl EXCEPT ![n] = <<[op |-> "init"]>>]
    BY <1>19 DEF NodeRestart
  <2>3. /\ nodeTable' \in [Node -> Table] /\ exposed' \in [Computer -> Table]
        /\ toCtrl' \in [Node -> Seq(ToCtrlMsg)]
    BY <1>0, <2>1, <2>2 DEF TypeOK
  <2>4. QED
    BY <1>19, <2>3 DEF NodeRestart, TypeOK
(* What the computers tell: settings, and the local one that it mounted.    *)
<1>20. ASSUME NEW c \in Computer, NEW ms \in Seq(Action), Tells(c, ms),
              c # Local => ms \in Seq(ToCtrlMsg)
       PROVE  /\ actions' \in Seq(Action) /\ Len(actions') <= ActionQueueSize
              /\ toCtrl' \in [Node -> Seq(ToCtrlMsg)]
  <2>1. CASE c = Local
    <3>1. actions' = Fitting(actions, ms, ActionQueueSize) /\ UNCHANGED toCtrl
      BY <1>20, <2>1 DEF Tells, AcceptAll
    <3>2. QED
      BY <1>0, <3>1, FittingFacts, KvmAssumption
  <2>2. CASE c # Local
    <3>1. toCtrl' = [toCtrl EXCEPT ![c] = @ \o ms] /\ UNCHANGED actions
      BY <1>20, <2>2 DEF Tells
    <3>2. c \in Node /\ toCtrl[c] \o ms \in Seq(ToCtrlMsg)
      BY <1>0, <1>20, <2>2, ConcatProperties DEF Node
    <3>3. QED
      BY <1>0, <3>1, <3>2
  <2>3. QED
    BY <2>1, <2>2
<1>21. ASSUME NEW c \in Computer, Enumerate(c) PROVE TypeOK'
  <2> DEFINE t == IF c = Local THEN table ELSE nodeTable[c]
             boot == [s \in Slot |-> IF t[s] # None /\ t[s].itf \in BootInterface
                                     THEN t[s] ELSE None]
             q == SlotSeq(boot)
             mounted == IF c = Local THEN <<[op |-> "usbMounted"]>> ELSE << >>
             sets == [i \in DOMAIN q |-> SettingMsg(c, q[i], "protocol", 1)]
  <2>1. t \in Table /\ boot \in Table
    BY DEF TypeOK, Table, Node
  <2>2. exposed' = [exposed EXCEPT ![c] = t] /\ Tells(c, mounted \o sets)
    BY <1>21 DEF Enumerate
  <2>3. q \in Seq(EnabledSlots(boot)) /\ Len(q) \in Nat
    BY <2>1, SlotSeqFacts
  <2>4. \A s \in EnabledSlots(boot) : s \in Slot
    BY DEF EnabledSlots
  <2> HIDE DEF t, boot, q
  <2>5. \A s \in Slot : /\ SettingMsg(c, s, "protocol", 1) \in Action
                        /\ c # Local => SettingMsg(c, s, "protocol", 1) \in ToCtrlMsg
    BY ActionsMade, MessagesMade DEF Kind, Value, Node
  <2>6. sets \in [1..Len(q) -> Action] /\ (c # Local => sets \in [1..Len(q) -> ToCtrlMsg])
    BY <2>3, <2>4, <2>5
  <2> HIDE DEF sets
  <2>7. sets \in Seq(Action) /\ (c # Local => sets \in Seq(ToCtrlMsg))
    BY <2>3, <2>6
  <2>8. mounted \in Seq(Action) /\ (c # Local => mounted = << >>)
    BY ActionsMade
  <2> HIDE DEF mounted
  <2>9. mounted \o sets \in Seq(Action) /\ (c # Local => mounted \o sets \in Seq(ToCtrlMsg))
    BY <2>7, <2>8, ConcatProperties
  <2>10. /\ actions' \in Seq(Action) /\ Len(actions') <= ActionQueueSize
         /\ toCtrl' \in [Node -> Seq(ToCtrlMsg)]
    BY <1>20, <2>2, <2>9
  <2>11. exposed' \in [Computer -> Table]
    BY <2>1, <2>2 DEF TypeOK
  <2>12. QED
    BY <1>21, <2>10, <2>11 DEF Enumerate, TypeOK
<1>22. ASSUME NEW c \in Computer, NEW s \in Slot, NEW k \in Kind, NEW v \in Value,
              ComputerSets(c, s, k, v)
       PROVE  TypeOK'
  <2> DEFINE m == SettingMsg(c, s, k, v)
  <2>1. m \in Action /\ (c # Local => m \in ToCtrlMsg)
    BY ActionsMade, MessagesMade DEF Node
  <2> HIDE DEF m
  <2>2. <<m>> \in Seq(Action) /\ (c # Local => <<m>> \in Seq(ToCtrlMsg))
    BY <2>1
  <2>3. Tells(c, <<m>>)
    BY <1>22 DEF ComputerSets, m
  <2>4. /\ actions' \in Seq(Action) /\ Len(actions') <= ActionQueueSize
        /\ toCtrl' \in [Node -> Seq(ToCtrlMsg)]
    BY <1>20, <2>2, <2>3
  <2>5. QED
    BY <1>22, <2>4 DEF ComputerSets, TypeOK
<1>23. CASE UNCHANGED vars
  BY <1>23 DEF vars, TypeOK
<1> HIDE DEF hostVars, switchVars, linkVars, computerVars
<1>24. QED
  BY <1>3, <1>4, <1>5, <1>6, <1>7, <1>8, <1>9, <1>10, <1>11, <1>12, <1>14, <1>16, <1>17, <1>18,
     <1>19, <1>21, <1>22, <1>23
     DEF Next, Core1, Task

(* The types of the state, and the queues within their sizes: no handler     *)
(* writes past the end of a queue, whatever it is told.                     *)
THEOREM TypeCorrect == Spec => []TypeOK
BY InitTypes, NextTypes, PTL DEF Spec

-----------------------------------------------------------------------------
(* What the table of a node holds at a slot once it has handled the first k  *)
(* messages of its queue.                                                  *)
IsMount(m, s) == m.op = "mount" /\ m.slot = s
MountsIn(q, k, s) == {i \in 1..k : IsMount(q[i], s)}
Held(t, q, k, s) ==
  IF MountsIn(q, k, s) = {} THEN t[s] ELSE q[Max(MountsIn(q, k, s))].hid

(* It is what the last mount of the slot says.                              *)
LEMMA HeldLast ==
  ASSUME NEW t, NEW q, NEW k \in Nat, NEW s, NEW i \in 1..k, IsMount(q[i], s),
         \A j \in 1..k : j > i => ~IsMount(q[j], s)
  PROVE  Held(t, q, k, s) = q[i].hid
<1> DEFINE S == MountsIn(q, k, s)
<1>1. S \in SUBSET (1..k) /\ i \in S /\ \A j \in S : ~(j > i)
  BY DEF MountsIn
<1>2. Held(t, q, k, s) = IF S = {} THEN t[s] ELSE q[Max(S)].hid
  BY DEF Held
<1> HIDE DEF S
<1>3. Max(S) \in S /\ i <= Max(S)
  BY <1>1, FirstAndLast
<1>4. Max(S) \in 1..k /\ ~(Max(S) > i)
  BY <1>1, <1>3
<1>5. Max(S) = i
  BY <1>3, <1>4
<1>6. QED
  BY <1>1, <1>2, <1>5

LEMMA HeldNone ==
  ASSUME NEW t, NEW q, NEW k \in Nat, NEW s, \A i \in 1..k : ~IsMount(q[i], s)
  PROVE  Held(t, q, k, s) = t[s]
BY DEF Held, MountsIn

LEMMA HeldCases ==
  ASSUME NEW q, NEW k \in Nat, NEW s
  PROVE  \/ \A i \in 1..k : ~IsMount(q[i], s)
         \/ \E i \in 1..k : IsMount(q[i], s) /\ \A j \in 1..k : j > i => ~IsMount(q[j], s)
<1> DEFINE S == MountsIn(q, k, s)
<1>1. S \in SUBSET (1..k) /\ \A i \in 1..k : i \in S <=> IsMount(q[i], s)
  BY DEF MountsIn
<1> HIDE DEF S
<1>2. CASE S = {}
  BY <1>1, <1>2
<1>3. CASE S # {}
  <2>1. Max(S) \in S /\ \A i \in S : i <= Max(S)
    BY <1>1, <1>3, FirstAndLast
  <2>2. Max(S) \in 1..k /\ IsMount(q[Max(S)], s)
    BY <1>1, <2>1
  <2>3. \A j \in 1..k : j > Max(S) => ~IsMount(q[j], s)
    BY <1>1, <2>1, <2>2
  <2>4. QED
    BY <2>2, <2>3
<1>4. QED
  BY <1>2, <1>3

LEMMA HeldSteps ==
  ASSUME NEW t, NEW q, NEW s
  PROVE  /\ Held(t, q, 0, s) = t[s]
         /\ \A k \in Nat : Held(t, q, k + 1, s) = IF IsMount(q[k + 1], s) THEN q[k + 1].hid
                                                  ELSE Held(t, q, k, s)
<1>1. Held(t, q, 0, s) = t[s]
  <2>1. 1..0 = {}
    OBVIOUS
  <2>2. QED
    BY <2>1, HeldNone
<1>2. ASSUME NEW k \in Nat, IsMount(q[k + 1], s)
      PROVE  Held(t, q, k + 1, s) = q[k + 1].hid
  <2> DEFINE n == k + 1
  <2>1. n \in Nat /\ n \in 1..n /\ \A j \in 1..n : ~(j > n)
    OBVIOUS
  <2>2. IsMount(q[n], s)
    BY <1>2
  <2> HIDE DEF n
  <2>3. \A j \in 1..n : j > n => ~IsMount(q[j], s)
    BY <2>1
  <2>4. Held(t, q, n, s) = q[n].hid
    BY <2>1, <2>2, <2>3, HeldLast
  <2>5. QED
    BY <2>4 DEF n
<1>3. ASSUME NEW k \in Nat, ~IsMount(q[k + 1], s)
      PROVE  Held(t, q, k + 1, s) = Held(t, q, k, s)
  <2>1. MountsIn(q, k + 1, s) = MountsIn(q, k, s)
    BY <1>3 DEF MountsIn
  <2>2. QED
    BY <2>1 DEF Held
<1>4. QED
  BY <1>1, <1>2, <1>3

(* It does not depend on what comes later in the queue.                     *)
LEMMA HeldPrefix ==
  ASSUME NEW t, NEW p, NEW q, NEW k \in Nat, NEW s, \A i \in 1..k : p[i] = q[i]
  PROVE  Held(t, p, k, s) = Held(t, q, k, s)
<1>1. MountsIn(p, k, s) = MountsIn(q, k, s)
  BY DEF MountsIn
<1>2. CASE MountsIn(p, k, s) = {}
  BY <1>1, <1>2 DEF Held
<1>3. CASE MountsIn(p, k, s) # {}
  <2> DEFINE S == MountsIn(p, k, s)
  <2>1. S \in SUBSET (1..k)
    BY DEF MountsIn
  <2> HIDE DEF S
  <2>2. Max(S) \in 1..k
    BY <1>3, <2>1, FirstAndLast DEF S
  <2>3. QED
    BY <1>1, <1>3, <2>2 DEF Held, S
<1>4. QED
  BY <1>2, <1>3

(* Handling a message changes nothing of it.                                *)
Handled(t, m) == IF m.op = "mount" THEN [t EXCEPT ![m.slot] = m.hid] ELSE t

LEMMA HeldHandled ==
  ASSUME NEW t \in Table, NEW q \in Seq(ToNodeMsg), q # << >>, NEW s \in Slot
  PROVE  \A k \in Nat : k < Len(q) =>
           Held(Handled(t, Head(q)), Tail(q), k, s) = Held(t, q, k + 1, s)
<1> DEFINE u == Handled(t, Head(q))
           T == {k \in Nat : k < Len(q) => Held(u, Tail(q), k, s) = Held(t, q, k + 1, s)}
<1>1. /\ Head(q) = q[1] /\ Head(q) \in ToNodeMsg /\ Len(q) \in Nat \ {0}
      /\ \A i \in 1..Len(q) - 1 : Tail(q)[i] = q[i + 1]
  BY HeadTypes
<1>2. u[s] = IF IsMount(Head(q), s) THEN Head(q).hid ELSE t[s]
  BY <1>1, MessagesRead DEF Handled, IsMount, Table
<1> HIDE DEF u
<1>3. 0 \in T
  <2>1. Held(u, Tail(q), 0, s) = u[s] /\ Held(t, q, 0, s) = t[s]
    BY HeldSteps
  <2>2. Held(t, q, 0 + 1, s) = IF IsMount(q[0 + 1], s) THEN q[0 + 1].hid ELSE Held(t, q, 0, s)
    BY HeldSteps
  <2>3. Held(u, Tail(q), 0, s) = Held(t, q, 0 + 1, s)
    BY <1>1, <1>2, <2>1, <2>2
  <2>4. QED
    BY <2>3
<1>4. ASSUME NEW k \in Nat, k \in T PROVE k + 1 \in T
  <2> SUFFICES ASSUME k + 1 < Len(q)
               PROVE  Held(u, Tail(q), k + 1, s) = Held(t, q, (k + 1) + 1, s)
    OBVIOUS
  <2>1. Held(u, Tail(q), k, s) = Held(t, q, k + 1, s)
    BY <1>1, <1>4
  <2>2. Tail(q)[k + 1] = q[(k + 1) + 1]
    BY <1>1
  <2>3. Held(u, Tail(q), k + 1, s) = IF IsMount(Tail(q)[k + 1], s) THEN Tail(q)[k + 1].hid
                                     ELSE Held(u, Tail(q), k, s)
    BY HeldSteps
  <2>4. Held(t, q, (k + 1) + 1, s) = IF IsMount(q[(k + 1) + 1], s) THEN q[(k + 1) + 1].hid
                                     ELSE Held(t, q, k + 1, s)
    <3>1. k + 1 \in Nat
      OBVIOUS
    <3>2. QED
      BY <3>1, HeldSteps
  <2>5. QED
    BY <2>1, <2>2, <2>3, <2>4
<1> HIDE DEF T
<1>5. Nat \subseteq T
  BY <1>3, <1>4, NatSetInduction
<1>6. QED
  BY <1>5 DEF T, u

-----------------------------------------------------------------------------
(* The tables of the nodes.  t is the table of the controller, nt and q the  *)
(* table and the queue of a node.                                          *)

(* No slot the node knows, or will know, is that of another interface, ...  *)
NoOther(t, nt, q) == \A s \in EnabledSlots(t) : Held(nt, q, Len(q), s) \in {None, t[s]}
(* ... nor is that of a report at the time it is handled.                   *)
ReportsRight(nt, q) ==
  \A i \in 1..Len(q) : q[i].op = "report" => Held(nt, q, i, q[i].slot) \in {None, q[i].hid}
(* The node will know every interface of the controller.                   *)
Told(t, nt, q) == \A s \in EnabledSlots(t) : Held(nt, q, Len(q), s) = t[s]

LEMMA HeldAppend ==
  ASSUME NEW t, NEW q \in Seq(ToNodeMsg), NEW m \in ToNodeMsg, NEW s
  PROVE  /\ Held(t, Append(q, m), Len(q) + 1, s) = IF IsMount(m, s) THEN m.hid
                                                   ELSE Held(t, q, Len(q), s)
         /\ \A i \in 1..Len(q) : Held(t, Append(q, m), i, s) = Held(t, q, i, s)
<1> DEFINE p == Append(q, m)
<1>1. /\ Len(q) \in Nat /\ p[Len(q) + 1] = m /\ \A i \in 1..Len(q) : p[i] = q[i]
  BY AppendProperties
<1> HIDE DEF p
<1>2. ASSUME NEW k \in Nat, k <= Len(q) PROVE Held(t, p, k, s) = Held(t, q, k, s)
  <2>1. \A i \in 1..k : p[i] = q[i]
    BY <1>1, <1>2
  <2>2. QED
    BY <2>1, HeldPrefix
<1>3. Held(t, p, Len(q), s) = Held(t, q, Len(q), s)
  BY <1>1, <1>2
<1>4. Held(t, p, Len(q) + 1, s) = IF IsMount(p[Len(q) + 1], s) THEN p[Len(q) + 1].hid
                                  ELSE Held(t, p, Len(q), s)
  BY <1>1, HeldSteps, ZenonT(30)
<1>5. \A i \in 1..Len(q) : Held(t, p, i, s) = Held(t, q, i, s)
  BY <1>1, <1>2
<1>6. QED
  BY <1>1, <1>3, <1>4, <1>5 DEF p

(* A message that mounts nothing; a report is of a slot of the controller.  *)
LEMMA LinkAppend ==
  ASSUME NEW t, NEW nt, NEW q \in Seq(ToNodeMsg), NEW m \in ToNodeMsg, m.op # "mount",
         m.op = "report" => m.slot \in EnabledSlots(t) /\ t[m.slot] = m.hid
  PROVE  /\ NoOther(t, nt, q) => NoOther(t, nt, Append(q, m))
         /\ Told(t, nt, q) => Told(t, nt, Append(q, m))
         /\ NoOther(t, nt, q) /\ ReportsRight(nt, q) => ReportsRight(nt, Append(q, m))
<1> DEFINE p == Append(q, m)
<1>1. /\ Len(q) \in Nat /\ Len(p) = Len(q) + 1 /\ p[Len(q) + 1] = m
      /\ \A i \in 1..Len(q) : p[i] = q[i]
  BY AppendProperties
<1>2. \A s : /\ Held(nt, p, Len(q) + 1, s) = Held(nt, q, Len(q), s)
             /\ \A i \in 1..Len(q) : Held(nt, p, i, s) = Held(nt, q, i, s)
  BY HeldAppend DEF IsMount
<1> HIDE DEF p
<1>3. NoOther(t, nt, q) => NoOther(t, nt, p)
  BY <1>1, <1>2 DEF NoOther
<1>4. Told(t, nt, q) => Told(t, nt, p)
  BY <1>1, <1>2 DEF Told
<1>5. ASSUME NoOther(t, nt, q), ReportsRight(nt, q), NEW i \in 1..Len(p), p[i].op = "report"
      PROVE  Held(nt, p, i, p[i].slot) \in {None, p[i].hid}
  <2>1. CASE i = Len(q) + 1
    BY <1>1, <1>2, <1>5, <2>1 DEF NoOther
  <2>2. CASE i \in 1..Len(q)
    BY <1>1, <1>2, <1>5, <2>2 DEF ReportsRight
  <2>3. QED
    BY <1>1, <2>1, <2>2
<1>6. QED
  BY <1>3, <1>4, <1>5 DEF ReportsRight, p

(* A mount, with the registration it tells of.                             *)
LEMMA LinkMount ==
  ASSUME NEW t \in Table, NEW nt, NEW q \in Seq(ToNodeMsg), NEW s \in Slot, NEW h \in Hid
  PROVE  LET u == [t EXCEPT ![s] = h]
             p == Append(q, MountMsg(s, h))
         IN  /\ NoOther(t, nt, q) => NoOther(u, nt, p)
             /\ Told(t, nt, q) => Told(u, nt, p)
             /\ ReportsRight(nt, q) => ReportsRight(nt, p)
<1> DEFINE m == MountMsg(s, h)
           u == [t EXCEPT ![s] = h]
           p == Append(q, m)
<1>0. m \in ToNodeMsg /\ m.op = "mount" /\ m.slot = s /\ m.hid = h
  BY MessagesMade DEF MountMsg
<1> HIDE DEF m
<1>1. /\ Len(q) \in Nat /\ Len(p) = Len(q) + 1 /\ p[Len(q) + 1] = m
      /\ \A i \in 1..Len(q) : p[i] = q[i]
  BY <1>0, AppendProperties
<1>2. \A r : /\ Held(nt, p, Len(q) + 1, r) = IF r = s THEN h ELSE Held(nt, q, Len(q), r)
             /\ \A i \in 1..Len(q) : Held(nt, p, i, r) = Held(nt, q, i, r)
  BY <1>0, HeldAppend DEF IsMount
<1>3. \A r \in EnabledSlots(u) : IF r = s THEN u[r] = h ELSE r \in EnabledSlots(t) /\ u[r] = t[r]
  BY DEF EnabledSlots, Table
<1> HIDE DEF p, u
<1>4. NoOther(t, nt, q) => NoOther(u, nt, p)
  BY <1>1, <1>2, <1>3 DEF NoOther
<1>5. Told(t, nt, q) => Told(u, nt, p)
  BY <1>1, <1>2, <1>3 DEF Told
<1>6. ASSUME ReportsRight(nt, q), NEW i \in 1..Len(p), p[i].op = "report"
      PROVE  Held(nt, p, i, p[i].slot) \in {None, p[i].hid}
  <2>1. i \in 1..Len(q)
    BY <1>0, <1>1, <1>6
  <2>2. QED
    BY <1>1, <1>2, <1>6, <2>1 DEF ReportsRight
<1>7. QED
  BY <1>4, <1>5, <1>6 DEF ReportsRight, p, u, m

(* The node handles a message.                                             *)
LEMMA LinkHandled ==
  ASSUME NEW t \in Table, NEW nt \in Table, NEW q \in Seq(ToNodeMsg), q # << >>
  PROVE  LET u == Handled(nt, Head(q))
             p == Tail(q)
         IN  /\ NoOther(t, nt, q) => NoOther(t, u, p)
             /\ Told(t, nt, q) => Told(t, u, p)
             /\ ReportsRight(nt, q) => ReportsRight(u, p)
<1> DEFINE u == Handled(nt, Head(q))
           p == Tail(q)
<1>1. /\ Len(q) \in Nat \ {0} /\ p \in Seq(ToNodeMsg) /\ Len(p) = Len(q) - 1 /\ Len(p) \in Nat
      /\ \A i \in 1..Len(p) : p[i] = q[i + 1]
  BY HeadTypes
<1>2. \A s \in Slot, k \in Nat : k <= Len(p) => Held(u, p, k, s) = Held(nt, q, k + 1, s)
  BY <1>1, HeldHandled
<1>3. \A s \in Slot : Held(u, p, Len(p), s) = Held(nt, q, Len(q), s)
  BY <1>1, <1>2
<1> HIDE DEF u, p
<1>4. NoOther(t, nt, q) => NoOther(t, u, p)
  BY <1>3 DEF NoOther, EnabledSlots
<1>5. Told(t, nt, q) => Told(t, u, p)
  BY <1>3 DEF Told, EnabledSlots
<1>6. ASSUME ReportsRight(nt, q), NEW i \in 1..Len(p), p[i].op = "report"
      PROVE  Held(u, p, i, p[i].slot) \in {None, p[i].hid}
  <2>1. p[i].slot \in Slot
    BY <1>1, <1>6, MessagesRead
  <2>2. i + 1 \in 1..Len(q) /\ p[i] = q[i + 1] /\ i \in Nat /\ i <= Len(p)
    BY <1>1
  <2>3. Held(nt, q, i + 1, q[i + 1].slot) \in {None, q[i + 1].hid}
    BY <1>6, <2>2 DEF ReportsRight
  <2>4. QED
    BY <1>2, <2>1, <2>2, <2>3
<1>7. QED
  BY <1>4, <1>5, <1>6 DEF ReportsRight, u, p

(* The node restarts: what it does not hold from a mount, it forgot.        *)
LEMMA LinkRestart ==
  ASSUME NEW t, NEW nt, NEW q \in Seq(ToNodeMsg)
  PROVE  /\ NoOther(t, nt, q) => NoOther(t, NoHid, q)
         /\ ReportsRight(nt, q) => ReportsRight(NoHid, q)
<1>1. ASSUME NEW k \in Nat, NEW s \in Slot
      PROVE  Held(NoHid, q, k, s) \in {None, Held(nt, q, k, s)}
  BY DEF Held, NoHid
<1>2. Len(q) \in Nat
  OBVIOUS
<1>3. NoOther(t, nt, q) => NoOther(t, NoHid, q)
  BY <1>1, <1>2 DEF NoOther, EnabledSlots
<1>4. ASSUME ReportsRight(nt, q), NEW i \in 1..Len(q), q[i].op = "report"
      PROVE  Held(NoHid, q, i, q[i].slot) \in {None, q[i].hid}
  <2>1. q[i].slot \in Slot /\ i \in Nat
    BY <1>4, MessagesRead
  <2>2. QED
    BY <1>1, <1>4, <2>1 DEF ReportsRight
<1>5. QED
  BY <1>3, <1>4 DEF ReportsRight

(* The announcement, as far as there is room for it, and all of it.         *)
LEMMA LinkAnnounced ==
  ASSUME TypeOK, NEW nt, NEW q \in Seq(ToNodeMsg), Len(q) <= MessageQueueSize
  PROVE  LET p == EnqueueAll(q, Announcement)
         IN  /\ NoOther(table, nt, q) => NoOther(table, nt, p)
             /\ Len(q) + Len(Announcement) <= MessageQueueSize => Told(table, nt, p)
             /\ ReportsRight(nt, q) => ReportsRight(nt, p)
<1> DEFINE a == Announcement
           n == Cardinality(EnabledSlots(table))
           p == EnqueueAll(q, a)
<1>1. /\ a \in Seq(ToNodeMsg) /\ n \in Nat /\ Len(a) \in Nat
      /\ Len(a) = n + IF usbReady THEN 1 ELSE 0
      /\ \A i \in 1..n : \E s \in EnabledSlots(table) : a[i] = MountMsg(s, table[s])
      /\ \A s \in EnabledSlots(table) : \E i \in 1..n : a[i] = MountMsg(s, table[s])
      /\ usbReady => a[n + 1] = StartMsg
  BY AnnouncementFacts
<1>2. MessageQueueSize \in Nat
  BY KvmAssumption
<1> HIDE DEF a, n
<1>3. /\ p \in Seq(ToNodeMsg) /\ Len(q) \in Nat /\ Len(p) \in Nat
      /\ Len(q) <= Len(p) /\ \A i \in 1..Len(q) : p[i] = q[i]
      /\ \A i \in 1..Len(p) : i > Len(q) => i - Len(q) \in 1..Len(a) /\ p[i] = a[i - Len(q)]
      /\ Len(q) + Len(a) <= MessageQueueSize => Len(p) = Len(q) + Len(a)
  <2>1. p = Fitting(q, a, MessageQueueSize)
    BY DEF EnqueueAll
  <2>2. q \in Seq(ToNodeMsg) /\ a \in Seq(ToNodeMsg) /\ Len(q) <= MessageQueueSize
    BY <1>1
  <2> HIDE DEF p
  <2>3. /\ p \in Seq(ToNodeMsg) /\ Len(q) <= Len(p)
        /\ \A i \in 1..Len(q) : p[i] = q[i]
        /\ \A i \in 1..Len(p) : i > Len(q) => i - Len(q) \in 1..Len(a) /\ p[i] = a[i - Len(q)]
        /\ Len(q) + Len(a) <= MessageQueueSize => Len(p) = Len(q) + Len(a)
    BY <1>2, <2>1, <2>2, FittingFacts
  <2>4. Len(q) \in Nat /\ Len(p) \in Nat
    BY <2>3, LenProperties
  <2>5. QED
    BY <2>3, <2>4
<1> HIDE DEF p
<1>4. ASSUME NEW i \in 1..Len(p), i > Len(q)
      PROVE  p[i] = StartMsg \/ \E s \in EnabledSlots(table) : p[i] = MountMsg(s, table[s])
  <2>1. i - Len(q) \in 1..Len(a) /\ p[i] = a[i - Len(q)]
    BY <1>3, <1>4
  <2>2. i - Len(q) \in 1..n \/ (usbReady /\ i - Len(q) = n + 1)
    <3>1. n \in Nat /\ i - Len(q) \in 1..Len(a)
      BY <1>1, <2>1
    <3>2. CASE usbReady
      <4>1. Len(a) = n + 1
        BY <1>1, <3>2
      <4>2. QED
        BY <3>1, <3>2, <4>1
    <3>3. CASE ~usbReady
      <4>1. Len(a) = n
        BY <1>1, <3>3
      <4>2. QED
        BY <3>1, <4>1
    <3>4. QED
      BY <3>2, <3>3
  <2>3. QED
    BY <1>1, <2>1, <2>2
<1>5. ASSUME NEW i \in 1..Len(p), i > Len(q), NEW s, IsMount(p[i], s)
      PROVE  s \in EnabledSlots(table) /\ p[i].hid = table[s]
  <2>1. StartMsg.op = "start"
    BY DEF StartMsg
  <2>2. PICK r \in EnabledSlots(table) : p[i] = MountMsg(r, table[r])
    BY <1>4, <1>5, <2>1 DEF IsMount
  <2>3. p[i].slot = r /\ p[i].hid = table[r]
    BY <2>2 DEF MountMsg
  <2>4. QED
    BY <1>5, <2>3 DEF IsMount
<1>6. ASSUME NEW s \in EnabledSlots(table)
      PROVE  \/ Held(nt, p, Len(p), s) = table[s]
             \/ /\ Held(nt, p, Len(p), s) = Held(nt, q, Len(q), s)
                /\ \A i \in 1..Len(p) : i > Len(q) => ~IsMount(p[i], s)
  <2>1. CASE \A i \in 1..Len(p) : ~IsMount(p[i], s)
    <3>1. Held(nt, p, Len(p), s) = nt[s]
      BY <1>3, <2>1, HeldNone
    <3>2. \A i \in 1..Len(q) : ~IsMount(q[i], s)
      BY <1>3, <2>1
    <3>3. Held(nt, q, Len(q), s) = nt[s]
      BY <1>3, <3>2, HeldNone
    <3>4. QED
      BY <2>1, <3>1, <3>3
  <2>2. ASSUME NEW i \in 1..Len(p), IsMount(p[i], s),
               \A j \in 1..Len(p) : j > i => ~IsMount(p[j], s)
        PROVE  \/ Held(nt, p, Len(p), s) = table[s]
               \/ /\ Held(nt, p, Len(p), s) = Held(nt, q, Len(q), s)
                  /\ \A j \in 1..Len(p) : j > Len(q) => ~IsMount(p[j], s)
    <3>1. Held(nt, p, Len(p), s) = p[i].hid
      BY <1>3, <2>2, HeldLast
    <3>2. CASE i > Len(q)
      BY <1>5, <2>2, <3>1, <3>2
    <3>3. CASE ~(i > Len(q))
      <4>1. i \in 1..Len(q) /\ p[i] = q[i]
        BY <1>3, <3>3
      <4>2. \A j \in 1..Len(q) : j > i => ~IsMount(q[j], s)
        BY <1>3, <2>2
      <4>3. Held(nt, q, Len(q), s) = q[i].hid
        BY <1>3, <2>2, <4>1, <4>2, HeldLast, SMTT(20)
      <4>4. \A j \in 1..Len(p) : j > Len(q) => ~IsMount(p[j], s)
        BY <1>3, <2>2, <4>1
      <4>5. QED
        BY <3>1, <4>1, <4>3, <4>4
    <3>4. QED
      BY <3>2, <3>3
  <2>3. \/ \A i \in 1..Len(p) : ~IsMount(p[i], s)
        \/ \E i \in 1..Len(p) : IsMount(p[i], s)
                                /\ \A j \in 1..Len(p) : j > i => ~IsMount(p[j], s)
    BY <1>3, HeldCases
  <2>4. QED
    BY <2>1, <2>2, <2>3, Zenon
<1>7. NoOther(table, nt, q) => NoOther(table, nt, p)
  BY <1>6 DEF NoOther
<1>8. ASSUME Len(q) + Len(a) <= MessageQueueSize, NEW s \in EnabledSlots(table)
      PROVE  Held(nt, p, Len(p), s) = table[s]
  <2>1. PICK i \in 1..n : a[i] = MountMsg(s, table[s])
    BY <1>1
  <2>2. Len(q) + i \in 1..Len(p) /\ Len(q) + i > Len(q) /\ (Len(q) + i) - Len(q) = i
    BY <1>1, <1>3, <1>8, SMTT(20)
  <2>3. p[Len(q) + i] = MountMsg(s, table[s])
    BY <1>3, <2>1, <2>2
  <2>4. IsMount(p[Len(q) + i], s)
    BY <2>3 DEF IsMount, MountMsg
  <2>5. QED
    BY <1>6, <2>2, <2>4
<1>9. ASSUME ReportsRight(nt, q), NEW i \in 1..Len(p), p[i].op = "report"
      PROVE  Held(nt, p, i, p[i].slot) \in {None, p[i].hid}
  <2>1. ~(i > Len(q))
    <3>1. StartMsg.op # "report" /\ \A s, h : MountMsg(s, h).op # "report"
      BY DEF MountMsg, StartMsg
    <3>2. QED
      BY <1>4, <1>9, <3>1
  <2>2. i \in 1..Len(q) /\ p[i] = q[i] /\ i \in Nat /\ \A j \in 1..i : p[j] = q[j]
    BY <1>3, <2>1
  <2>3. Held(nt, p, i, p[i].slot) = Held(nt, q, i, p[i].slot)
    BY <2>2, HeldPrefix
  <2>4. QED
    BY <1>9, <2>2, <2>3 DEF ReportsRight
<1>10. QED
  BY <1>7, <1>8, <1>9 DEF ReportsRight, Told, p, a

-----------------------------------------------------------------------------
(* What a step does to the action queue.                                   *)

HostOps == HidOps \cup {"deviceMounted", "deviceUnmounted"}

(* Something that is no device event is added at the end, or nothing is.    *)
Quiet ==
  /\ Len(actions) <= Len(actions')
  /\ \A i \in 1..Len(actions) : actions'[i] = actions[i]
  /\ \A i \in 1..Len(actions') : i > Len(actions) =>
       /\ actions'[i].op \notin HostOps
       /\ actions'[i].op = "computerReady" => actions'[i].computer \in connected'
  /\ UNCHANGED <<up, callbacks, table, mountedCount>>

LEMMA QuietAccept ==
  ASSUME TypeOK, NEW a \in Action, a.op \notin HostOps, actions' = Accept(actions, a),
         a.op = "computerReady" => a.computer \in connected',
         UNCHANGED <<up, callbacks, table, mountedCount>>
  PROVE  Quiet
<1>1. actions \in Seq(Action) /\ Len(actions) <= ActionQueueSize /\ Len(actions) \in Nat
  BY DEF TypeOK
<1>2. CASE actions' = actions
  BY <1>1, <1>2 DEF Quiet
<1>3. CASE actions' = Append(actions, a)
  <2>1. /\ Len(actions') = Len(actions) + 1 /\ actions'[Len(actions) + 1] = a
        /\ \A i \in 1..Len(actions) : actions'[i] = actions[i]
    BY <1>1, <1>3, AppendProperties
  <2>2. QED
    BY <1>1, <2>1 DEF Quiet
<1>4. QED
  BY <1>1, <1>2, <1>3, AcceptFacts

LEMMA QuietTells ==
  ASSUME TypeOK, NEW c \in Computer, NEW ms \in Seq(Action), Tells(c, ms),
         \A i \in 1..Len(ms) : ms[i].op \in {"usbMounted", "set"},
         UNCHANGED <<up, callbacks, table, mountedCount>>
  PROVE  Quiet
<1>1. actions \in Seq(Action) /\ Len(actions) <= ActionQueueSize /\ Len(actions) \in Nat
  BY DEF TypeOK
<1>2. CASE actions' = actions
  BY <1>1, <1>2 DEF Quiet
<1>3. CASE actions' = Fitting(actions, ms, ActionQueueSize)
  <2>1. /\ Len(actions) <= Len(actions') /\ \A i \in 1..Len(actions) : actions'[i] = actions[i]
        /\ \A i \in 1..Len(actions') : i > Len(actions) =>
             i - Len(actions) \in 1..Len(ms) /\ actions'[i] = ms[i - Len(actions)]
    <3> DEFINE f == Fitting(actions, ms, ActionQueueSize)
    <3>1. ActionQueueSize \in Nat
      BY KvmAssumption
    <3>2. /\ Len(actions) <= Len(f) /\ \A i \in 1..Len(actions) : f[i] = actions[i]
          /\ \A i \in 1..Len(f) : i > Len(actions) =>
               i - Len(actions) \in 1..Len(ms) /\ f[i] = ms[i - Len(actions)]
      BY <1>1, <3>1, FittingFacts
    <3>3. QED
      BY <1>3, <3>2
  <2>2. QED
    BY <2>1 DEF Quiet, HostOps, HidOps
<1>4. QED
  BY <1>2, <1>3 DEF Tells, AcceptAll

LEMMA EnumerateTells ==
  ASSUME TypeOK, NEW c \in Computer, Enumerate(c)
  PROVE  \E ms \in Seq(Action) :
           /\ Tells(c, ms) /\ \A i \in 1..Len(ms) : ms[i].op \in {"usbMounted", "set"}
           /\ c # Local => \A i \in 1..Len(ms) : ms[i].op = "set"
           /\ c # Local => ms \in Seq(ToCtrlMsg)
<1> DEFINE t == IF c = Local THEN table ELSE nodeTable[c]
           boot == [s \in Slot |-> IF t[s] # None /\ t[s].itf \in BootInterface
                                   THEN t[s] ELSE None]
           q == SlotSeq(boot)
           mounted == IF c = Local THEN <<[op |-> "usbMounted"]>> ELSE << >>
           sets == [i \in DOMAIN q |-> SettingMsg(c, q[i], "protocol", 1)]
           ms == mounted \o sets
<1>1. boot \in Table
  BY DEF TypeOK, Table, Node
<1>2. Tells(c, ms)
  BY DEF Enumerate
<1>3. q \in Seq(EnabledSlots(boot)) /\ Len(q) \in Nat
  BY <1>1, SlotSeqFacts
<1>4. \A s \in EnabledSlots(boot) : s \in Slot
  BY DEF EnabledSlots
<1> HIDE DEF t, boot, q
<1>5. \A s \in Slot : /\ SettingMsg(c, s, "protocol", 1) \in Action
                      /\ SettingMsg(c, s, "protocol", 1).op = "set"
                      /\ c # Local => SettingMsg(c, s, "protocol", 1) \in ToCtrlMsg
  BY ActionsMade, MessagesMade DEF Kind, Value, Node, SettingMsg
<1>6. /\ sets \in [1..Len(q) -> Action] /\ (c # Local => sets \in [1..Len(q) -> ToCtrlMsg])
      /\ \A i \in 1..Len(q) : sets[i].op = "set"
  BY <1>3, <1>4, <1>5
<1> HIDE DEF sets
<1>7. sets \in Seq(Action) /\ Len(sets) = Len(q) /\ (c # Local => sets \in Seq(ToCtrlMsg))
  BY <1>3, <1>6
<1>8. /\ mounted \in Seq(Action) /\ (c # Local => mounted = << >>)
      /\ \A i \in 1..Len(mounted) : mounted[i].op = "usbMounted"
  BY ActionsMade
<1> HIDE DEF mounted
<1>9. /\ ms \in Seq(Action) /\ Len(ms) = Len(mounted) + Len(sets)
      /\ \A i \in 1..Len(mounted) + Len(sets) :
           ms[i] = IF i <= Len(mounted) THEN mounted[i] ELSE sets[i - Len(mounted)]
  <2>1. mounted \in Seq(Action) /\ sets \in Seq(Action)
    BY <1>7, <1>8
  <2>2. QED
    BY <2>1, ConcatProperties
<1> HIDE DEF ms
<1>10. Len(mounted) \in Nat /\ Len(sets) \in Nat
  BY <1>7, <1>8, LenProperties
<1>11. ASSUME NEW i \in 1..Len(ms) PROVE ms[i].op \in {"usbMounted", "set"}
  <2>1. CASE i <= Len(mounted)
    BY <1>8, <1>9, <1>10, <2>1
  <2>2. CASE ~(i <= Len(mounted))
    <3>1. ms[i] = sets[i - Len(mounted)] /\ i - Len(mounted) \in 1..Len(q)
      BY <1>7, <1>9, <1>10, <2>2
    <3>2. QED
      BY <1>6, <3>1
  <2>3. QED
    BY <2>1, <2>2
<1>12. c # Local => ms \in Seq(ToCtrlMsg) /\ \A i \in 1..Len(ms) : ms[i].op = "set"
  <2> SUFFICES ASSUME c # Local PROVE ms \in Seq(ToCtrlMsg) /\ \A i \in 1..Len(ms) : ms[i].op = "set"
    OBVIOUS
  <2>1. mounted = << >> /\ sets \in Seq(ToCtrlMsg)
    BY <1>7, <1>8
  <2>2. ms = sets
    BY <2>1, ConcatEmptySeq DEF ms
  <2>3. QED
    BY <1>6, <1>7, <2>1, <2>2
<1>13. QED
  BY <1>2, <1>9, <1>11, <1>12

(* Every step is one of these, as far as device events are concerned.       *)
LEMMA ActionSteps ==
  ASSUME TypeOK, [Next]_vars
  PROVE  \/ \E d \in Device : Plug(d) \/ Unplug(d)
         \/ HostCallback
         \/ DeviceMounted \/ DeviceUnmounted \/ HidMount \/ HidUmount
         \/ ComputerReady /\ UNCHANGED <<up, callbacks, table, mountedCount>>
         \/ /\ \E op : op \notin HostOps \cup {"computerReady"} /\ Take(op)
            /\ UNCHANGED <<up, callbacks, table, mountedCount>>
         \/ Quiet
<1> USE DEF hostVars, switchVars, linkVars, computerVars
<1>1. ASSUME NEW h \in Hid, NEW key \in Shortcut \cup {PlainKey}, HostReport(h, key)
      PROVE  Quiet
  <2> DEFINE a == [op |-> "report", hid |-> h, key |-> key]
  <2>1. a \in Action /\ a.op = "report"
    BY ActionsMade
  <2> HIDE DEF a
  <2>2. actions' = Accept(actions, a) /\ UNCHANGED <<up, callbacks, table, mountedCount>>
    BY <1>1 DEF HostReport, a
  <2>3. QED
    BY <2>1, <2>2, QuietAccept DEF HostOps, HidOps
<1>2. ASSUME NEW op, op \notin HostOps \cup {"computerReady"}, Take(op),
             UNCHANGED <<up, callbacks, table, mountedCount>>
      PROVE  /\ \E o : o \notin HostOps \cup {"computerReady"} /\ Take(o)
             /\ UNCHANGED <<up, callbacks, table, mountedCount>>
  BY <1>2
<1>3. CASE HidReport \/ ComputerReady \/ ComputerSetting \/ UsbDeviceMounted
  <2>1. UNCHANGED <<up, callbacks, table, mountedCount>>
    BY <1>3 DEF HidReport, ComputerReady, ComputerSetting, UsbDeviceMounted
  <2>2. Take("report") \/ Take("set") \/ Take("usbMounted") \/ ComputerReady
    BY <1>3 DEF HidReport, ComputerReady, ComputerSetting, UsbDeviceMounted
  <2>3. {"report", "set", "usbMounted"} \cap (HostOps \cup {"computerReady"}) = {}
    BY DEF HostOps, HidOps
  <2>4. QED
    BY <1>2, <2>1, <2>2, <2>3
<1>4. CASE UNCHANGED <<actions, up, callbacks, table, mountedCount>>
  BY <1>4 DEF Quiet, TypeOK
<1>5. ASSUME NEW n \in Node, CtrlHandles(n) PROVE Quiet
  <2> DEFINE m == Head(toCtrl[n])
  <2>1. m \in ToCtrlMsg
    BY <1>5, HeadTypes DEF CtrlHandles, TypeOK
  <2> HIDE DEF m
  <2>2. UNCHANGED <<up, callbacks, table, mountedCount>>
    BY <1>5 DEF CtrlHandles
  <2>3. CASE m.op = "init"
    <3> DEFINE a == [op |-> "computerReady", computer |-> n]
    <3>1. a \in Action /\ a.op = "computerReady" /\ a.computer = n
      BY ActionsMade
    <3> HIDE DEF a
    <3>2. actions' = Accept(actions, a) /\ connected' = connected \cup {n}
      BY <1>5, <2>3 DEF CtrlHandles, m, a
    <3>3. QED
      BY <2>2, <3>1, <3>2, QuietAccept DEF HostOps, HidOps
  <2>4. CASE m.op # "init"
    <3>1. actions' = Accept(actions, m) /\ m \in Action /\ m.op = "set"
      BY <1>5, <2>1, <2>4, MessagesRead DEF CtrlHandles, m
    <3>2. QED
      BY <2>2, <3>1, QuietAccept DEF HostOps, HidOps
  <2>5. QED
    BY <2>3, <2>4
<1>6. ASSUME NEW n \in Node, NodeHandles(n) \/ NodeRestart(n) PROVE Quiet
  <2>1. UNCHANGED <<actions, up, callbacks, table, mountedCount>>
    BY <1>6 DEF NodeHandles, NodeRestart
  <2>2. QED
    BY <2>1 DEF Quiet, TypeOK
<1>7. CASE StartUsbDevices
  BY <1>4, <1>7 DEF StartUsbDevices
<1>8. ASSUME NEW c \in Computer, Enumerate(c) PROVE Quiet
  <2>1. UNCHANGED <<up, callbacks, table, mountedCount>>
    BY <1>8 DEF Enumerate
  <2>2. PICK ms \in Seq(Action) :
          Tells(c, ms) /\ \A i \in 1..Len(ms) : ms[i].op \in {"usbMounted", "set"}
    BY <1>8, EnumerateTells
  <2>3. QED
    BY <2>1, <2>2, QuietTells
<1>9. ASSUME NEW c \in Computer, NEW s \in Slot, NEW k \in Kind, NEW v \in Value,
             ComputerSets(c, s, k, v)
      PROVE  Quiet
  <2> DEFINE m == SettingMsg(c, s, k, v)
  <2>1. m \in Action /\ m.op = "set"
    BY ActionsMade DEF SettingMsg
  <2>2. Tells(c, <<m>>) /\ UNCHANGED <<up, callbacks, table, mountedCount>>
    BY <1>9 DEF ComputerSets
  <2> HIDE DEF m
  <2>3. <<m>> \in Seq(Action) /\ \A i \in 1..Len(<<m>>) : <<m>>[i].op \in {"usbMounted", "set"}
    BY <2>1
  <2>4. QED
    BY <2>2, <2>3, QuietTells
<1>10. CASE UNCHANGED vars
  BY <1>4, <1>10 DEF vars
<1> HIDE DEF hostVars, switchVars, linkVars, computerVars
<1>11. QED
  BY <1>1, <1>2, <1>3, <1>5, <1>6, <1>7, <1>8, <1>9, <1>10 DEF Next, Core1, Task

LEMMA PlugCallbacks ==
  ASSUME NEW d \in Device, Plug(d)
  PROVE  /\ callbacks' \in Seq(Action) /\ Len(callbacks') = MaxInterface + 1
         /\ \A i \in 1..MaxInterface :
              callbacks'[i] = [op |-> "hidMount", hid |-> [dev |-> d, itf |-> i - 1]]
         /\ callbacks'[MaxInterface + 1] = [op |-> "deviceMounted"]
<1> DEFINE q == HidCallbacks("hidMount", d)
<1>1. /\ q \in Seq(Action) /\ Len(q) = MaxInterface
      /\ \A i \in 1..MaxInterface : q[i] = [op |-> "hidMount", hid |-> [dev |-> d, itf |-> i - 1]]
      /\ [op |-> "deviceMounted"] \in Action
  BY HidCallbacksFacts, ActionsMade DEF HidOps
<1>2. callbacks' = Append(q, [op |-> "deviceMounted"])
  BY DEF Plug
<1> HIDE DEF q
<1>3. QED
  BY <1>1, <1>2, AppendProperties

LEMMA UnplugCallbacks ==
  ASSUME NEW d \in Device, Unplug(d)
  PROVE  /\ callbacks' \in Seq(Action) /\ Len(callbacks') = MaxInterface + 1
         /\ callbacks'[1] = [op |-> "deviceUnmounted"]
         /\ \A i \in 1..MaxInterface :
              callbacks'[i + 1] = [op |-> "hidUmount", hid |-> [dev |-> d, itf |-> i - 1]]
<1> DEFINE q == HidCallbacks("hidUmount", d)
           p == <<[op |-> "deviceUnmounted"]>>
<1>1. /\ q \in Seq(Action) /\ Len(q) = MaxInterface /\ MaxInterface \in Nat
      /\ \A i \in 1..MaxInterface : q[i] = [op |-> "hidUmount", hid |-> [dev |-> d, itf |-> i - 1]]
  BY HidCallbacksFacts, KvmAssumption DEF HidOps
<1>2. p \in Seq(Action) /\ Len(p) = 1 /\ p[1] = [op |-> "deviceUnmounted"]
  BY ActionsMade
<1>3. callbacks' = p \o q
  BY DEF Unplug
<1> HIDE DEF q, p
<1>4. /\ p \o q \in Seq(Action) /\ Len(p \o q) = Len(p) + Len(q)
      /\ \A i \in 1..Len(p) + Len(q) : (p \o q)[i] = IF i <= Len(p) THEN p[i] ELSE q[i - Len(p)]
  <2>1. p \in Seq(Action) /\ q \in Seq(Action)
    BY <1>1, <1>2
  <2>2. QED
    BY <2>1, ConcatProperties
<1>5. ASSUME NEW i \in 1..MaxInterface PROVE callbacks'[i + 1] = q[i]
  <2>1. i + 1 \in 1..Len(p) + Len(q) /\ ~(i + 1 <= Len(p)) /\ (i + 1) - Len(p) = i
    BY <1>1, <1>2
  <2>2. QED
    BY <1>3, <1>4, <2>1
<1>6. callbacks'[1] = p[1]
  BY <1>1, <1>2, <1>3, <1>4
<1>7. QED
  BY <1>1, <1>2, <1>3, <1>4, <1>5, <1>6

(* TinyUSB only calls back about devices; a node is announced once it is     *)
(* connected, and before that it was told nothing and is about to announce   *)
(* itself.                                                                 *)
CallbackOps == \A i \in 1..Len(callbacks) : callbacks[i].op \in HostOps
ReadyConnected ==
  \A i \in 1..Len(actions) : actions[i].op = "computerReady" => actions[i].computer \in connected
Announces(n) == \E i \in 1..Len(toCtrl[n]) : toCtrl[n][i].op = "init"
Unconnected ==
  \A n \in Node : n \notin connected =>
    toNode[n] = << >> /\ nodeTable[n] = NoHid /\ Announces(n)

LEMMA NextCallbackOps == TypeOK /\ CallbackOps /\ [Next]_vars => CallbackOps'
<1> SUFFICES ASSUME TypeOK, CallbackOps, [Next]_vars PROVE CallbackOps'
  OBVIOUS
<1>1. CASE UNCHANGED callbacks
  BY <1>1 DEF CallbackOps
<1>2. ASSUME NEW d \in Device, Plug(d) PROVE CallbackOps'
  <2>1. MaxInterface \in Nat
    BY KvmAssumption
  <2>2. ASSUME NEW i \in 1..Len(callbacks') PROVE callbacks'[i].op \in HostOps
    <3>1. CASE i \in 1..MaxInterface
      <4>1. callbacks'[i] = [op |-> "hidMount", hid |-> [dev |-> d, itf |-> i - 1]]
        BY <1>2, <3>1, PlugCallbacks
      <4>2. QED
        BY <4>1 DEF HostOps, HidOps
    <3>2. CASE i = MaxInterface + 1
      BY <1>2, <3>2, PlugCallbacks DEF HostOps
    <3>3. QED
      BY <1>2, <2>1, <3>1, <3>2, PlugCallbacks
  <2>3. QED
    BY <2>2 DEF CallbackOps
<1>3. ASSUME NEW d \in Device, Unplug(d) PROVE CallbackOps'
  <2>1. MaxInterface \in Nat
    BY KvmAssumption
  <2>2. ASSUME NEW i \in 1..Len(callbacks') PROVE callbacks'[i].op \in HostOps
    <3>1. CASE i = 1
      BY <1>3, <3>1, UnplugCallbacks DEF HostOps
    <3>2. CASE i # 1
      <4>1. i - 1 \in 1..MaxInterface /\ (i - 1) + 1 = i
        BY <1>3, <2>1, <3>2, UnplugCallbacks
      <4>2. callbacks'[(i - 1) + 1] = [op |-> "hidUmount", hid |-> [dev |-> d, itf |-> (i - 1) - 1]]
        BY <1>3, <4>1, UnplugCallbacks
      <4>3. QED
        BY <4>1, <4>2 DEF HostOps, HidOps
    <3>3. QED
      BY <3>1, <3>2
  <2>3. QED
    BY <2>2 DEF CallbackOps
<1>4. CASE HostCallback
  <2>1. callbacks # << >> /\ callbacks' = Tail(callbacks)
    BY <1>4 DEF HostCallback
  <2>2. QED
    BY <2>1, HeadTypes DEF TypeOK, CallbackOps
<1>5. CASE DeviceMounted \/ DeviceUnmounted \/ HidMount \/ HidUmount
  <2>1. UNCHANGED callbacks
    BY <1>5 DEF DeviceMounted, DeviceUnmounted, HidMount, HidUmount, hostVars
  <2>2. QED
    BY <1>1, <2>1
<1>6. QED
  BY <1>1, <1>2, <1>3, <1>4, <1>5, ActionSteps DEF Quiet

LEMMA ConnectedGrows == [Next]_vars => connected \subseteq connected'
<1> SUFFICES ASSUME [Next]_vars PROVE connected \subseteq connected'
  OBVIOUS
<1>1. UNCHANGED connected \/ \E n \in Node : CtrlHandles(n)
  BY DEF Next, vars, Core1, Task, linkVars, Plug, Unplug, HostCallback, HostReport, DeviceMounted,
     DeviceUnmounted, HidMount, HidUmount, HidReport, ComputerReady, ComputerSetting,
     UsbDeviceMounted, StartUsbDevices, NodeHandles, NodeRestart, Enumerate, ComputerSets
<1>2. QED
  BY <1>1 DEF CtrlHandles

(* Taking an action shifts the queue.                                      *)
LEMMA TakeFacts ==
  ASSUME TypeOK, NEW op, Take(op)
  PROVE  /\ actions[1] \in Action /\ actions[1].op = op /\ Head(actions) = actions[1]
         /\ Len(actions) \in Nat \ {0} /\ Len(actions') = Len(actions) - 1
         /\ \A i \in 1..Len(actions') : i + 1 \in 1..Len(actions) /\ actions'[i] = actions[i + 1]
         /\ \A i \in 1..Len(actions) : i = 1 \/ (i - 1 \in 1..Len(actions')
                                                 /\ actions'[i - 1] = actions[i])
<1>1. /\ actions \in Seq(Action) /\ actions # << >> /\ actions' = Tail(actions)
      /\ Head(actions).op = op
  BY DEF TypeOK, Take
<1>2. /\ Head(actions) = actions[1] /\ Head(actions) \in Action /\ Len(actions) \in Nat \ {0}
      /\ Len(Tail(actions)) = Len(actions) - 1
      /\ \A i \in 1..Len(actions) - 1 : Tail(actions)[i] = actions[i + 1]
  BY <1>1, HeadTypes
<1>3. \A i \in 1..Len(actions') : i + 1 \in 1..Len(actions) /\ actions'[i] = actions[i + 1]
  BY <1>1, <1>2
<1>4. ASSUME NEW i \in 1..Len(actions), i # 1
      PROVE  i - 1 \in 1..Len(actions') /\ actions'[i - 1] = actions[i]
  <2>1. i - 1 \in 1..Len(actions') /\ (i - 1) + 1 = i
    BY <1>1, <1>2, <1>4
  <2>2. QED
    BY <1>3, <2>1
<1>5. QED
  BY <1>1, <1>2, <1>3, <1>4

LEMMA HostOpTakes ==
  /\ DeviceMounted => Take("deviceMounted") /\ UNCHANGED <<up, callbacks, table>>
  /\ DeviceUnmounted => Take("deviceUnmounted") /\ UNCHANGED <<up, callbacks, table>>
  /\ HidMount => Take("hidMount") /\ UNCHANGED <<up, callbacks, mountedCount>>
  /\ HidUmount => Take("hidUmount") /\ UNCHANGED <<up, callbacks, mountedCount>>
BY DEF DeviceMounted, DeviceUnmounted, HidMount, HidUmount, hostVars

(* How core 1 adds to the queue, with room.                                *)
LEMMA CallbackFacts ==
  ASSUME TypeOK, HostCallback
  PROVE  /\ Len(callbacks) \in Nat \ {0} /\ callbacks[1] \in Action
         /\ actions' \in {actions, Append(actions, callbacks[1])}
         /\ Len(actions) < ActionQueueSize => actions' = Append(actions, callbacks[1])
         /\ Len(callbacks') = Len(callbacks) - 1
         /\ \A i \in 1..Len(callbacks') : i + 1 \in 1..Len(callbacks) /\ callbacks'[i] = callbacks[i + 1]
<1>1. /\ callbacks \in Seq(Action) /\ callbacks # << >> /\ callbacks' = Tail(callbacks)
      /\ actions' = Accept(actions, Head(callbacks)) /\ actions \in Seq(Action)
      /\ Len(actions) <= ActionQueueSize
  BY DEF TypeOK, HostCallback
<1>2. /\ Head(callbacks) = callbacks[1] /\ Head(callbacks) \in Action
      /\ Len(callbacks) \in Nat \ {0}
      /\ Len(Tail(callbacks)) = Len(callbacks) - 1
      /\ \A i \in 1..Len(callbacks) - 1 : Tail(callbacks)[i] = callbacks[i + 1]
  BY <1>1, HeadTypes
<1>3. /\ actions' \in {actions, Append(actions, callbacks[1])}
      /\ Len(actions) < ActionQueueSize => actions' = Append(actions, callbacks[1])
  BY <1>1, <1>2, AcceptFacts, ZenonT(30)
<1>4. QED
  BY <1>1, <1>2, <1>3

LEMMA NextReadyConnected ==
  TypeOK /\ CallbackOps /\ ReadyConnected /\ [Next]_vars => ReadyConnected'
<1> SUFFICES ASSUME TypeOK, CallbackOps, ReadyConnected, [Next]_vars PROVE ReadyConnected'
  OBVIOUS
<1>0. connected \subseteq connected' /\ Len(actions) \in Nat /\ actions \in Seq(Action)
  BY ConnectedGrows DEF TypeOK
<1>1. ASSUME NEW op, Take(op) PROVE ReadyConnected'
  BY <1>0, <1>1, TakeFacts DEF ReadyConnected
<1>2. CASE HostCallback
  <2>1. callbacks[1] \in Action /\ callbacks[1].op \in HostOps
    BY <1>2, CallbackFacts DEF CallbackOps
  <2>2. CASE actions' = actions
    BY <1>0, <2>2 DEF ReadyConnected
  <2>3. CASE actions' = Append(actions, callbacks[1])
    <3>1. /\ Len(actions') = Len(actions) + 1 /\ actions'[Len(actions) + 1] = callbacks[1]
          /\ \A i \in 1..Len(actions) : actions'[i] = actions[i]
      BY <1>0, <2>1, <2>3, AppendProperties
    <3>2. "computerReady" \notin HostOps
      BY DEF HostOps, HidOps
    <3>3. QED
      BY <1>0, <2>1, <3>1, <3>2 DEF ReadyConnected
  <2>4. QED
    BY <1>2, <2>2, <2>3, CallbackFacts
<1>3. CASE Quiet
  BY <1>0, <1>3 DEF Quiet, ReadyConnected
<1>4. ASSUME NEW d \in Device, Plug(d) \/ Unplug(d) PROVE ReadyConnected'
  BY <1>0, <1>4 DEF Plug, Unplug, ReadyConnected
<1>5. QED
  BY <1>1, <1>2, <1>3, <1>4, ActionSteps, HostOpTakes DEF ComputerReady

(* What a step does to the messages from a node.                           *)
LEMMA CtrlSteps ==
  ASSUME TypeOK, [Next]_vars, NEW n \in Node
  PROVE  \/ CtrlHandles(n)
         \/ toCtrl'[n] = <<[op |-> "init"]>>
         \/ \E ms \in Seq(ToCtrlMsg) : /\ \A i \in 1..Len(ms) : ms[i].op = "set"
                                       /\ toCtrl'[n] = toCtrl[n] \o ms
         \/ toCtrl'[n] = toCtrl[n]
<1>0. toCtrl \in [Node -> Seq(ToCtrlMsg)] /\ n \in Computer /\ n # Local
  BY DEF TypeOK, Node
<1>1. CASE UNCHANGED toCtrl
  BY <1>1
<1>2. ASSUME NEW m \in Node, CtrlHandles(m) PROVE m = n \/ toCtrl'[n] = toCtrl[n]
  BY <1>0, <1>2 DEF CtrlHandles
<1>3. ASSUME NEW m \in Node, NodeRestart(m)
      PROVE  toCtrl'[n] = <<[op |-> "init"]>> \/ toCtrl'[n] = toCtrl[n]
  BY <1>0, <1>3 DEF NodeRestart
<1>4. ASSUME NEW c \in Computer, Enumerate(c)
      PROVE  \/ \E ms \in Seq(ToCtrlMsg) : /\ \A i \in 1..Len(ms) : ms[i].op = "set"
                                           /\ toCtrl'[n] = toCtrl[n] \o ms
             \/ toCtrl'[n] = toCtrl[n]
  <2>1. PICK ms \in Seq(Action) :
          /\ Tells(c, ms)
          /\ c # Local => \A i \in 1..Len(ms) : ms[i].op = "set"
          /\ c # Local => ms \in Seq(ToCtrlMsg)
    BY <1>4, EnumerateTells
  <2>2. CASE c = n
    BY <1>0, <2>1, <2>2 DEF Tells
  <2>3. CASE c # n
    BY <1>0, <2>1, <2>3 DEF Tells
  <2>4. QED
    BY <2>2, <2>3
<1>5. ASSUME NEW c \in Computer, NEW s \in Slot, NEW k \in Kind, NEW v \in Value,
             ComputerSets(c, s, k, v)
      PROVE  \/ \E ms \in Seq(ToCtrlMsg) : /\ \A i \in 1..Len(ms) : ms[i].op = "set"
                                           /\ toCtrl'[n] = toCtrl[n] \o ms
             \/ toCtrl'[n] = toCtrl[n]
  <2> DEFINE m == SettingMsg(c, s, k, v)
  <2>1. m.op = "set" /\ (c = n => m \in ToCtrlMsg)
    BY MessagesMade DEF SettingMsg
  <2>2. Tells(c, <<m>>)
    BY <1>5 DEF ComputerSets
  <2> HIDE DEF m
  <2>3. CASE c = n
    <3>1. <<m>> \in Seq(ToCtrlMsg) /\ \A i \in 1..Len(<<m>>) : <<m>>[i].op = "set"
      BY <2>1, <2>3
    <3>2. toCtrl'[n] = toCtrl[n] \o <<m>>
      BY <1>0, <2>2, <2>3 DEF Tells
    <3>3. QED
      BY <3>1, <3>2
  <2>4. CASE c # n
    BY <1>0, <2>2, <2>4 DEF Tells
  <2>5. QED
    BY <2>3, <2>4
<1>6. CASE Core1 \/ Task \/ (\E m \in Node : NodeHandles(m)) \/ UNCHANGED vars
  BY <1>1, <1>6 DEF Core1, Task, vars, linkVars, Plug, Unplug, HostCallback, HostReport, DeviceMounted,
     DeviceUnmounted, HidMount, HidUmount, HidReport, ComputerReady, ComputerSetting,
     UsbDeviceMounted, StartUsbDevices, NodeHandles
<1>7. QED
  BY <1>2, <1>3, <1>4, <1>5, <1>6 DEF Next

(* A node's announcement is there until it is handled.                      *)
LEMMA AnnouncesStays ==
  ASSUME TypeOK, [Next]_vars, NEW n \in Node, Announces(n)
  PROVE  \/ Announces(n)'
         \/ CtrlHandles(n) /\ Head(toCtrl[n]).op = "init"
<1>0. toCtrl[n] \in Seq(ToCtrlMsg) /\ Len(toCtrl[n]) \in Nat
  BY DEF TypeOK
<1>1. PICK i \in 1..Len(toCtrl[n]) : toCtrl[n][i].op = "init"
  BY DEF Announces
<1>2. CASE CtrlHandles(n)
  <2>1. toCtrl[n] # << >> /\ toCtrl'[n] = Tail(toCtrl[n])
    BY <1>2 DEF CtrlHandles, TypeOK
  <2>2. /\ Head(toCtrl[n]) = toCtrl[n][1]
        /\ Len(Tail(toCtrl[n])) = Len(toCtrl[n]) - 1
        /\ \A j \in 1..Len(toCtrl[n]) - 1 : Tail(toCtrl[n])[j] = toCtrl[n][j + 1]
    BY <1>0, <2>1, HeadTypes
  <2>3. CASE i = 1
    BY <1>1, <1>2, <2>2, <2>3
  <2>4. CASE i # 1
    <3>1. i - 1 \in 1..Len(toCtrl[n]) - 1 /\ (i - 1) + 1 = i
      BY <1>0, <2>4
    <3>2. toCtrl'[n][i - 1].op = "init" /\ i - 1 \in 1..Len(toCtrl'[n])
      BY <1>1, <2>1, <2>2, <3>1
    <3>3. QED
      BY <3>2 DEF Announces
  <2>5. QED
    BY <2>3, <2>4
<1>3. CASE toCtrl'[n] = <<[op |-> "init"]>>
  BY <1>3 DEF Announces
<1>4. ASSUME NEW ms \in Seq(ToCtrlMsg), toCtrl'[n] = toCtrl[n] \o ms PROVE Announces(n)'
  <2> DEFINE q == toCtrl[n]
  <2>1. q \in Seq(ToCtrlMsg)
    BY <1>0
  <2> HIDE DEF q
  <2>2. /\ Len(q \o ms) = Len(q) + Len(ms) /\ Len(ms) \in Nat /\ Len(q) \in Nat
        /\ \A j \in 1..Len(q) + Len(ms) : (q \o ms)[j] = IF j <= Len(q) THEN q[j] ELSE ms[j - Len(q)]
    BY <2>1, ConcatProperties
  <2>3. i \in 1..Len(q)
    BY DEF q
  <2>4. i \in 1..Len(q \o ms) /\ (q \o ms)[i] = q[i]
    BY <2>2, <2>3
  <2>5. toCtrl'[n] = q \o ms /\ q[i].op = "init"
    BY <1>1, <1>4 DEF q
  <2>6. QED
    BY <2>4, <2>5 DEF Announces
<1>5. CASE toCtrl'[n] = toCtrl[n]
  BY <1>1, <1>5 DEF Announces
<1>6. QED
  BY <1>2, <1>3, <1>4, <1>5, CtrlSteps

(* With room in the queues of the nodes, ...                               *)
MessageRoom ==
  \A n \in Node :
    /\ Len(toNode[n]) < MessageQueueSize
    /\ actions # << >> /\ Head(actions).op = "computerReady" /\ Head(actions).computer = n =>
         Len(toNode[n]) + Len(Announcement) <= MessageQueueSize

Shrinks == \A s \in EnabledSlots(table') : s \in EnabledSlots(table) /\ table'[s] = table[s]
Same(n) == toNode'[n] = toNode[n] /\ nodeTable'[n] = nodeTable[n]
Added(n, m) == toNode'[n] = Append(toNode[n], m) /\ nodeTable'[n] = nodeTable[n]
ReadyNow(n) ==
  /\ ComputerReady /\ Head(actions).computer = n
  /\ toNode'[n] = EnqueueAll(toNode[n], Announcement)
  /\ UNCHANGED <<nodeTable, table>>

LEMMA TableShrinks ==
  /\ UNCHANGED table => Shrinks
  /\ TypeOK /\ HidUmount => Shrinks
<1>1. UNCHANGED table => Shrinks
  BY DEF Shrinks
<1>2. ASSUME TypeOK, HidUmount PROVE Shrinks
  BY <1>2 DEF HidUmount, Unregistered, Shrinks, EnabledSlots, TypeOK, Table
<1>3. QED
  BY <1>1, <1>2

LEMMA BroadcastFacts ==
  ASSUME TypeOK, MessageRoom, NEW m \in ToNodeMsg, Broadcast(m), NEW n \in Node
  PROVE  toNode'[n] = IF n \in connected THEN Append(toNode[n], m) ELSE toNode[n]
<1>1. toNode[n] \in Seq(ToNodeMsg) /\ Len(toNode[n]) <= MessageQueueSize
      /\ Len(toNode[n]) < MessageQueueSize
  BY DEF TypeOK, MessageRoom
<1>2. Enqueue(toNode[n], m) = Append(toNode[n], m)
  BY <1>1, EnqueueFacts
<1>3. QED
  BY <1>2 DEF Broadcast

(* ... every step is one of these, as far as a node is concerned.           *)
LEMMA LinkSteps ==
  ASSUME TypeOK, ReadyConnected, MessageRoom, [Next]_vars, NEW n \in Node
  PROVE  \/ Same(n) /\ (Shrinks \/ (n \notin connected /\ n \notin connected'))
         \/ \E m \in ToNodeMsg : /\ m.op # "mount" /\ Added(n, m) /\ UNCHANGED table
                                 /\ m.op = "report" => /\ m.slot \in EnabledSlots(table)
                                                       /\ table[m.slot] = m.hid
                                 /\ n \in connected \/ (m = [op |-> "init"] /\ n \in connected')
         \/ \E s \in Slot, h \in Hid :
              /\ table' = [table EXCEPT ![s] = h] /\ Added(n, MountMsg(s, h))
              /\ n \in connected /\ HidMount
         \/ /\ toNode[n] # << >> /\ toNode'[n] = Tail(toNode[n]) /\ UNCHANGED table
            /\ nodeTable'[n] = Handled(nodeTable[n], Head(toNode[n])) /\ NodeHandles(n)
         \/ /\ toNode'[n] = toNode[n] /\ nodeTable'[n] = NoHid /\ UNCHANGED table
            /\ toCtrl'[n] = <<[op |-> "init"]>>
         \/ ReadyNow(n)
<1> USE DEF hostVars, switchVars, linkVars, computerVars
<1>0. /\ toNode \in [Node -> Seq(ToNodeMsg)] /\ nodeTable \in [Node -> Table]
      /\ toNode[n] \in Seq(ToNodeMsg) /\ Len(toNode[n]) <= MessageQueueSize
      /\ Len(toNode[n]) < MessageQueueSize
      /\ \A m \in ToNodeMsg : Enqueue(toNode[n], m) = Append(toNode[n], m)
  <2>1. /\ toNode \in [Node -> Seq(ToNodeMsg)] /\ nodeTable \in [Node -> Table]
        /\ toNode[n] \in Seq(ToNodeMsg) /\ Len(toNode[n]) <= MessageQueueSize
        /\ Len(toNode[n]) < MessageQueueSize
    BY DEF TypeOK, MessageRoom
  <2>2. QED
    BY <2>1, EnqueueFacts
<1>1. CASE UNCHANGED <<toNode, nodeTable, table>>
  BY <1>1 DEF Same, Shrinks
<1>2. CASE HidUmount
  BY <1>2, TableShrinks DEF HidUmount, Same
<1>3. CASE HidMount
  <2> DEFINE h == Head(actions).hid
             s == Min(FreeSlots)
  <2>1. h \in Hid
    BY <1>3, HeadTypes, ActionsRead DEF HidMount, Take, TypeOK, HidOps
  <2>2. UNCHANGED <<nodeTable, connected>>
    BY <1>3 DEF HidMount
  <2>3. CASE FreeSlots = {}
    BY <1>1, <1>3, <2>2, <2>3 DEF HidMount
  <2>4. CASE FreeSlots # {}
    <3>1. s \in Slot
      BY <2>4, MinOfSlots DEF FreeSlots
    <3>2. table' = [table EXCEPT ![s] = h] /\ Broadcast(MountMsg(s, h))
      BY <1>3, <2>4 DEF HidMount
    <3> HIDE DEF s, h
    <3>3. MountMsg(s, h) \in ToNodeMsg
      BY <2>1, <3>1, MessagesMade
    <3>4. toNode'[n] = IF n \in connected THEN Append(toNode[n], MountMsg(s, h)) ELSE toNode[n]
      BY <3>2, <3>3, BroadcastFacts
    <3>5. QED
      BY <1>3, <2>1, <2>2, <3>1, <3>2, <3>4 DEF Same, Added
  <2>5. QED
    BY <2>3, <2>4
<1>4. CASE StartUsbDevices
  <2>1. Broadcast(StartMsg) /\ UNCHANGED <<nodeTable, table, connected>>
    BY <1>4 DEF StartUsbDevices
  <2>2. toNode'[n] = IF n \in connected THEN Append(toNode[n], StartMsg) ELSE toNode[n]
    BY <2>1, MessagesMade, BroadcastFacts
  <2>3. StartMsg \in ToNodeMsg /\ StartMsg.op = "start"
    BY MessagesMade DEF StartMsg
  <2>4. QED
    BY <2>1, <2>2, <2>3 DEF Same, Added, Shrinks
<1>5. CASE HidReport
  <2> DEFINE h == Head(actions).hid
             s == Min(SlotsOf(table, h))
             m == [op |-> "report", slot |-> s, hid |-> h]
  <2>1. h \in Hid /\ UNCHANGED <<nodeTable, table>>
    BY <1>5, HeadTypes, ActionsRead DEF HidReport, Take, TypeOK
  <2>2. UNCHANGED toNode \/ (SlotsOf(table, h) # {} /\ Forward(s, h))
    BY <1>5 DEF HidReport
  <2>3. CASE UNCHANGED toNode
    BY <1>1, <2>1, <2>3
  <2>4. CASE SlotsOf(table, h) # {} /\ Forward(s, h)
    <3>1. s \in SlotsOf(table, h)
      BY <2>4, MinOfSlots DEF SlotsOf
    <3>2. s \in EnabledSlots(table) /\ table[s] = h /\ s \in Slot
      BY <2>1, <3>1, NamesAssumption DEF SlotsOf, EnabledSlots
    <3>3. CASE active[h.dev] \in connected /\ active[h.dev] = n
      <4>1. m \in ToNodeMsg /\ m.op = "report" /\ m.slot = s /\ m.hid = h
        BY <2>1, <3>2, MessagesMade
      <4>2. toNode'[n] = Enqueue(toNode[n], m)
        BY <1>0, <2>4, <3>3 DEF Forward, ReportMsg
      <4> HIDE DEF m
      <4>3. Added(n, m)
        BY <1>0, <2>1, <4>1, <4>2 DEF Added
      <4>4. QED
        BY <2>1, <3>2, <3>3, <4>1, <4>3
    <3>4. CASE ~(active[h.dev] \in connected /\ active[h.dev] = n)
      <4>1. toNode'[n] = toNode[n]
        BY <1>0, <2>4, <3>4 DEF Forward
      <4>2. QED
        BY <2>1, <4>1 DEF Same, Shrinks
    <3>5. QED
      BY <3>3, <3>4
  <2>5. QED
    BY <2>2, <2>3, <2>4
<1>6. CASE ComputerReady
  <2>1. UNCHANGED <<nodeTable, table>>
    BY <1>6 DEF ComputerReady
  <2>2. toNode'[n] = IF Head(actions).computer = n THEN EnqueueAll(toNode[n], Announcement)
                     ELSE toNode[n]
    BY <1>0, <1>6 DEF ComputerReady
  <2>3. QED
    BY <1>6, <2>1, <2>2 DEF ReadyNow, Same, Shrinks
<1>7. ASSUME NEW k \in Node, CtrlHandles(k)
      PROVE  \/ Same(n) /\ Shrinks
             \/ /\ Added(n, [op |-> "init"]) /\ UNCHANGED table /\ n \in connected'
  <2>1. UNCHANGED <<nodeTable, table>>
    BY <1>7 DEF CtrlHandles
  <2>2. CASE Head(toCtrl[k]).op = "init" /\ k = n
    <3>1. toNode'[n] = Enqueue(toNode[n], [op |-> "init"]) /\ n \in connected'
      BY <1>0, <1>7, <2>2 DEF CtrlHandles
    <3>2. QED
      BY <1>0, <2>1, <3>1, MessagesMade DEF Added
  <2>3. CASE ~(Head(toCtrl[k]).op = "init" /\ k = n)
    <3>1. toNode'[n] = toNode[n]
      BY <1>0, <1>7, <2>3 DEF CtrlHandles
    <3>2. QED
      BY <2>1, <3>1 DEF Same, Shrinks
  <2>4. QED
    BY <2>2, <2>3
<1>8. ASSUME NEW k \in Node, NodeHandles(k)
      PROVE  \/ Same(n) /\ Shrinks
             \/ /\ toNode[n] # << >> /\ toNode'[n] = Tail(toNode[n]) /\ UNCHANGED table
                /\ nodeTable'[n] = Handled(nodeTable[n], Head(toNode[n])) /\ NodeHandles(n)
  <2>1. toNode[k] # << >> /\ toNode' = [toNode EXCEPT ![k] = Tail(@)] /\ UNCHANGED table
    BY <1>8 DEF NodeHandles
  <2>2. nodeTable' = [nodeTable EXCEPT ![k] = Handled(nodeTable[k], Head(toNode[k]))]
    <3> DEFINE m == Head(toNode[k])
    <3>1. CASE m.op = "mount"
      <4>1. nodeTable' = [nodeTable EXCEPT ![k][m.slot] = m.hid]
        BY <1>8, <3>1 DEF NodeHandles
      <4>2. QED
        BY <3>1, <4>1 DEF Handled
    <3>2. CASE m.op # "mount"
      <4>1. nodeTable' = nodeTable
        BY <1>8, <3>2 DEF NodeHandles, ConnectUsb
      <4>2. QED
        BY <1>0, <3>2, <4>1 DEF Handled
    <3>3. QED
      BY <3>1, <3>2
  <2>3. QED
    BY <1>0, <1>8, <2>1, <2>2 DEF Same, Shrinks
<1>9. ASSUME NEW k \in Node, NodeRestart(k)
      PROVE  \/ Same(n) /\ Shrinks
             \/ /\ toNode'[n] = toNode[n] /\ nodeTable'[n] = NoHid /\ UNCHANGED table
                /\ toCtrl'[n] = <<[op |-> "init"]>>
  <2>1. toCtrl \in [Node -> Seq(ToCtrlMsg)]
    BY DEF TypeOK
  <2>2. QED
    BY <1>0, <1>9, <2>1 DEF NodeRestart, Same, Shrinks
<1>10. CASE Core1 \/ DeviceMounted \/ DeviceUnmounted \/ ComputerSetting \/ UsbDeviceMounted
            \/ (\E c \in Computer : Enumerate(c)) \/ UNCHANGED vars
            \/ (\E c \in Computer, s \in Slot, k \in Kind, v \in Value : ComputerSets(c, s, k, v))
  <2>1. UNCHANGED <<toNode, nodeTable, table>>
    BY <1>10 DEF Core1, vars, Plug, Unplug, HostCallback, HostReport, DeviceMounted,
       DeviceUnmounted, ComputerSetting, UsbDeviceMounted, Enumerate, ComputerSets
  <2>2. QED
    BY <1>1, <2>1
<1> HIDE DEF hostVars, switchVars, linkVars, computerVars
<1>11. ASSUME NEW k \in Node, CtrlHandles(k)
       PROVE  \/ Same(n) /\ Shrinks
              \/ \E m \in ToNodeMsg : /\ m.op # "mount" /\ Added(n, m) /\ UNCHANGED table
                                      /\ m.op # "report"
                                      /\ m = [op |-> "init"] /\ n \in connected'
  BY <1>7, <1>11, MessagesMade
<1>12. QED
  BY <1>2, <1>3, <1>4, <1>5, <1>6, <1>8, <1>9, <1>10, <1>11 DEF Next, Task

LEMMA NextUnconnected ==
  TypeOK /\ ReadyConnected /\ MessageRoom /\ Unconnected /\ [Next]_vars => Unconnected'
<1> SUFFICES ASSUME TypeOK, ReadyConnected, MessageRoom, Unconnected, [Next]_vars,
                    NEW n \in Node, n \notin connected'
             PROVE  toNode'[n] = << >> /\ nodeTable'[n] = NoHid /\ Announces(n)'
  BY DEF Unconnected
<1>1. n \notin connected /\ toNode[n] = << >> /\ nodeTable[n] = NoHid /\ Announces(n)
  BY ConnectedGrows DEF Unconnected
<1>2. Announces(n)'
  <2>1. ~(CtrlHandles(n) /\ Head(toCtrl[n]).op = "init")
    BY DEF CtrlHandles
  <2>2. QED
    BY <1>1, <2>1, AnnouncesStays
<1>3. ~ReadyNow(n)
  <2> SUFFICES ASSUME ReadyNow(n) PROVE FALSE
    OBVIOUS
  <2>1. Take("computerReady") /\ Head(actions).computer = n
    BY DEF ReadyNow, ComputerReady
  <2>2. actions[1].op = "computerReady" /\ actions[1].computer = n /\ 1 \in 1..Len(actions)
    BY <2>1, TakeFacts
  <2>3. QED
    BY <1>1, <2>2 DEF ReadyConnected
<1>4. toNode'[n] = << >> /\ nodeTable'[n] = NoHid
  <2>1. \/ Same(n)
        \/ toNode'[n] = toNode[n] /\ nodeTable'[n] = NoHid
    BY <1>1, <1>3, LinkSteps
  <2>2. QED
    BY <1>1, <2>1 DEF Same
<1>5. QED
  BY <1>2, <1>4

(* The controller's view of the link, and the order it keeps.               *)
Connections == TypeOK /\ CallbackOps /\ ReadyConnected /\ Unconnected

LEMMA InitConnections == Init => Connections
<1> SUFFICES ASSUME Init PROVE Connections
  OBVIOUS
<1>1. TypeOK
  BY InitTypes
<1>2. callbacks = << >> /\ actions = << >>
  BY DEF Init
<1>3. CallbackOps /\ ReadyConnected
  BY <1>2 DEF CallbackOps, ReadyConnected
<1>4. ASSUME NEW n \in Node
      PROVE  toNode[n] = << >> /\ nodeTable[n] = NoHid /\ Announces(n)
  <2>1. toNode[n] = << >> /\ nodeTable[n] = NoHid /\ toCtrl[n] = <<[op |-> "init"]>>
    BY DEF Init
  <2>2. QED
    BY <2>1 DEF Announces
<1>5. QED
  BY <1>1, <1>3, <1>4 DEF Connections, Unconnected

LEMMA NextConnections == Connections /\ MessageRoom /\ [Next]_vars => Connections'
BY NextTypes, NextCallbackOps, NextReadyConnected, NextUnconnected DEF Connections

Replicas ==
  \A n \in Node : /\ NoOther(table, nodeTable[n], toNode[n])
                  /\ ReportsRight(nodeTable[n], toNode[n])

(* Nothing is known to a node that was told nothing.                        *)
LEMMA LinkEmpty ==
  ASSUME NEW t
  PROVE  NoOther(t, NoHid, << >>) /\ ReportsRight(NoHid, << >>)
<1>1. ASSUME NEW s \in Slot PROVE Held(NoHid, << >>, 0, s) = None
  BY HeldNone DEF NoHid
<1>2. QED
  BY <1>1 DEF NoOther, ReportsRight, EnabledSlots

LEMMA LinkShrinks ==
  ASSUME NEW nt, NEW q, Shrinks
  PROVE  /\ NoOther(table, nt, q) => NoOther(table', nt, q)
         /\ Told(table, nt, q) => Told(table', nt, q)
BY DEF Shrinks, NoOther, Told

LEMMA InitReplicas == Init => Replicas
<1> SUFFICES ASSUME Init, NEW n \in Node
             PROVE  NoOther(table, nodeTable[n], toNode[n]) /\ ReportsRight(nodeTable[n], toNode[n])
  BY DEF Replicas
<1>1. nodeTable[n] = NoHid /\ toNode[n] = << >>
  BY DEF Init
<1>2. QED
  BY <1>1, LinkEmpty

LEMMA NextReplicas == Connections /\ Replicas /\ MessageRoom /\ [Next]_vars => Replicas'
<1> SUFFICES ASSUME Connections, Replicas, MessageRoom, [Next]_vars, NEW n \in Node
             PROVE  /\ NoOther(table', nodeTable'[n], toNode'[n])
                    /\ ReportsRight(nodeTable'[n], toNode'[n])
  BY DEF Replicas
<1> DEFINE nt == nodeTable[n]
           q == toNode[n]
<1>1. /\ TypeOK /\ ReadyConnected /\ table \in Table /\ nt \in Table /\ q \in Seq(ToNodeMsg)
      /\ Len(q) <= MessageQueueSize
  BY DEF Connections, TypeOK
<1>2. NoOther(table, nt, q) /\ ReportsRight(nt, q)
  BY DEF Replicas
<1>3. n \notin connected => q = << >> /\ nt = NoHid
  BY DEF Connections, Unconnected
<1> HIDE DEF nt, q
<1>4. CASE Same(n) /\ Shrinks
  <2>1. nodeTable'[n] = nt /\ toNode'[n] = q
    BY <1>4 DEF Same, nt, q
  <2>2. QED
    BY <1>2, <1>4, <2>1, LinkShrinks
<1>5. CASE Same(n) /\ n \notin connected
  <2>1. nodeTable'[n] = NoHid /\ toNode'[n] = << >>
    BY <1>3, <1>5 DEF Same, nt, q
  <2>2. QED
    BY <2>1, LinkEmpty
<1>6. ASSUME NEW m \in ToNodeMsg, m.op # "mount", Added(n, m), UNCHANGED table,
             m.op = "report" => m.slot \in EnabledSlots(table) /\ table[m.slot] = m.hid
      PROVE  NoOther(table', nodeTable'[n], toNode'[n]) /\ ReportsRight(nodeTable'[n], toNode'[n])
  <2>1. nodeTable'[n] = nt /\ toNode'[n] = Append(q, m) /\ table' = table
    BY <1>6 DEF Added, nt, q
  <2>2. NoOther(table, nt, Append(q, m)) /\ ReportsRight(nt, Append(q, m))
    BY <1>1, <1>2, <1>6, LinkAppend
  <2>3. QED
    BY <2>1, <2>2
<1>7. ASSUME NEW s \in Slot, NEW h \in Hid, table' = [table EXCEPT ![s] = h],
             Added(n, MountMsg(s, h))
      PROVE  NoOther(table', nodeTable'[n], toNode'[n]) /\ ReportsRight(nodeTable'[n], toNode'[n])
  <2>1. nodeTable'[n] = nt /\ toNode'[n] = Append(q, MountMsg(s, h))
    BY <1>7 DEF Added, nt, q
  <2>2. QED
    BY <1>1, <1>2, <1>7, <2>1, LinkMount
<1>8. CASE /\ toNode[n] # << >> /\ toNode'[n] = Tail(toNode[n]) /\ UNCHANGED table
           /\ nodeTable'[n] = Handled(nodeTable[n], Head(toNode[n]))
  <2>1. /\ q # << >> /\ nodeTable'[n] = Handled(nt, Head(q)) /\ toNode'[n] = Tail(q)
        /\ table' = table
    BY <1>8 DEF nt, q
  <2>2. QED
    BY <1>1, <1>2, <2>1, LinkHandled
<1>9. CASE toNode'[n] = toNode[n] /\ nodeTable'[n] = NoHid /\ UNCHANGED table
  <2>1. nodeTable'[n] = NoHid /\ toNode'[n] = q /\ table' = table
    BY <1>9 DEF q
  <2>2. QED
    BY <1>1, <1>2, <2>1, LinkRestart
<1>10. CASE ReadyNow(n)
  <2>1. nodeTable'[n] = nt /\ toNode'[n] = EnqueueAll(q, Announcement) /\ table' = table
    BY <1>10 DEF ReadyNow, nt, q
  <2>2. QED
    BY <1>1, <1>2, <2>1, LinkAnnounced
<1>11. QED
  BY <1>1, <1>4, <1>5, <1>6, <1>7, <1>8, <1>9, <1>10, LinkSteps

(* A node that is announced stays so until core 0 tells it everything; the    *)
(* action queue needs room for that.                                       *)
ActionRoom == Len(actions) < ActionQueueSize
ReadyQueued(n) ==
  \E i \in 1..Len(actions) : actions[i].op = "computerReady" /\ actions[i].computer = n

LEMMA PendingParts ==
  ASSUME TypeOK, NEW n \in Node
  PROVE  InitPending(n) <=> Announces(n) \/ ReadyQueued(n)
<1>1. /\ toCtrl[n] \in Seq(ToCtrlMsg) /\ actions \in Seq(Action)
      /\ DOMAIN toCtrl[n] = 1..Len(toCtrl[n]) /\ DOMAIN actions = 1..Len(actions)
  BY DEF TypeOK
<1>2. QED
  BY <1>1 DEF InitPending, Announces, ReadyQueued

LEMMA ReadyNowFacts ==
  ASSUME TypeOK, ComputerReady, NEW n \in Node, Head(actions).computer = n
  PROVE  ReadyNow(n)
<1>1. toNode \in [Node -> Seq(ToNodeMsg)]
  BY DEF TypeOK
<1>2. toNode' = [toNode EXCEPT ![n] = EnqueueAll(@, Announcement)] /\ UNCHANGED <<nodeTable, table>>
  BY DEF ComputerReady, switchVars, computerVars
<1>3. toNode'[n] = EnqueueAll(toNode[n], Announcement)
  BY <1>1, <1>2
<1>4. QED
  BY <1>2, <1>3 DEF ReadyNow

LEMMA ReadyStays ==
  ASSUME TypeOK, CallbackOps, [Next]_vars, NEW n \in Node, ReadyQueued(n)
  PROVE  ReadyQueued(n)' \/ ReadyNow(n)
<1>0. actions \in Seq(Action) /\ Len(actions) \in Nat
  BY DEF TypeOK
<1>1. PICK i \in 1..Len(actions) : actions[i].op = "computerReady" /\ actions[i].computer = n
  BY DEF ReadyQueued
<1>2. ASSUME Len(actions) <= Len(actions'), Len(actions') \in Nat,
             \A j \in 1..Len(actions) : actions'[j] = actions[j]
      PROVE  ReadyQueued(n)'
  <2>1. i \in 1..Len(actions') /\ actions'[i] = actions[i]
    BY <1>0, <1>2
  <2>2. QED
    BY <1>1, <2>1 DEF ReadyQueued
<1>3. ASSUME NEW op, Take(op), i # 1 PROVE ReadyQueued(n)'
  <2>1. i - 1 \in 1..Len(actions') /\ actions'[i - 1] = actions[i]
    BY <1>3, TakeFacts
  <2>2. QED
    BY <1>1, <2>1 DEF ReadyQueued
<1>4. ASSUME NEW op, Take(op), i = 1
      PROVE  op = "computerReady" /\ Head(actions).computer = n
  BY <1>1, <1>4, TakeFacts
<1>5. CASE DeviceMounted \/ DeviceUnmounted \/ HidMount \/ HidUmount
  BY <1>3, <1>4, <1>5, HostOpTakes
<1>6. ASSUME NEW op, Take(op), op # "computerReady" \/ ComputerReady
      PROVE  ReadyQueued(n)' \/ ReadyNow(n)
  BY <1>3, <1>4, <1>6, ReadyNowFacts
<1>7. CASE HostCallback
  <2>1. callbacks[1] \in Action /\ actions' \in {actions, Append(actions, callbacks[1])}
    BY <1>7, CallbackFacts
  <2>2. CASE actions' = actions
    BY <1>0, <1>2, <2>2
  <2>3. CASE actions' = Append(actions, callbacks[1])
    <3>1. /\ Len(actions') = Len(actions) + 1
          /\ \A j \in 1..Len(actions) : actions'[j] = actions[j]
      BY <1>0, <2>1, <2>3, AppendProperties
    <3>2. QED
      BY <1>0, <1>2, <3>1
  <2>4. QED
    BY <2>1, <2>2, <2>3
<1>8. ASSUME NEW d \in Device, Plug(d) \/ Unplug(d) PROVE ReadyQueued(n)'
  BY <1>0, <1>2, <1>8 DEF Plug, Unplug
<1>9. CASE Quiet
  <2>1. Len(actions') \in Nat
    BY NextTypes DEF TypeOK
  <2>2. QED
    BY <1>2, <1>9, <2>1 DEF Quiet
<1>10. QED
  BY <1>5, <1>6, <1>7, <1>8, <1>9, ActionSteps DEF ComputerReady

LEMMA PendingStays ==
  ASSUME TypeOK, CallbackOps, ActionRoom, [Next]_vars, NEW n \in Node,
         InitPending(n), ~InitPending(n)'
  PROVE  ReadyNow(n)
<1>0. TypeOK'
  BY NextTypes
<1>1. (Announces(n) \/ ReadyQueued(n)) /\ ~Announces(n)' /\ ~ReadyQueued(n)'
  <2>1. InitPending(n) <=> Announces(n) \/ ReadyQueued(n)
    BY PendingParts
  <2>2. (InitPending(n) <=> Announces(n) \/ ReadyQueued(n))'
    BY <1>0, PendingParts, PTL
  <2>3. QED
    BY <2>1, <2>2
<1>2. ASSUME CtrlHandles(n), Head(toCtrl[n]).op = "init" PROVE FALSE
  <2> DEFINE a == [op |-> "computerReady", computer |-> n]
  <2>1. a \in Action /\ a.op = "computerReady" /\ a.computer = n
    BY ActionsMade
  <2>2. actions' = Accept(actions, a)
    BY <1>2 DEF CtrlHandles
  <2> HIDE DEF a
  <2>3. actions \in Seq(Action) /\ Len(actions) <= ActionQueueSize /\ Len(actions) < ActionQueueSize
    BY DEF TypeOK, ActionRoom
  <2>4. actions' = Append(actions, a)
    BY <2>1, <2>2, <2>3, AcceptFacts
  <2>5. Len(actions) + 1 \in 1..Len(actions') /\ actions'[Len(actions) + 1] = a
    BY <2>1, <2>3, <2>4, AppendProperties
  <2>6. ReadyQueued(n)'
    BY <2>1, <2>5 DEF ReadyQueued
  <2>7. QED
    BY <1>1, <2>6
<1>3. QED
  BY <1>1, <1>2, AnnouncesStays, ReadyStays

AllTold == \A n \in Node : ~InitPending(n) => Told(table, nodeTable[n], toNode[n])

LEMMA InitAllTold == Init => AllTold
<1> SUFFICES ASSUME Init, NEW n \in Node PROVE InitPending(n)
  BY DEF AllTold
<1>1. toCtrl[n] = <<[op |-> "init"]>>
  BY DEF Init
<1>2. QED
  BY <1>1 DEF InitPending

LEMMA NextAllTold ==
  Connections /\ AllTold /\ MessageRoom /\ ActionRoom /\ [Next]_vars => AllTold'
<1> SUFFICES ASSUME Connections, AllTold, MessageRoom, ActionRoom, [Next]_vars,
                    NEW n \in Node, ~InitPending(n)'
             PROVE  Told(table', nodeTable'[n], toNode'[n])
  BY DEF AllTold
<1> DEFINE nt == nodeTable[n]
           q == toNode[n]
<1>1. /\ TypeOK /\ CallbackOps /\ ReadyConnected
      /\ table \in Table /\ nt \in Table /\ q \in Seq(ToNodeMsg)
      /\ Len(q) <= MessageQueueSize
  BY DEF Connections, TypeOK
<1>2. CASE ReadyNow(n)
  <2>1. nodeTable'[n] = nt /\ toNode'[n] = EnqueueAll(q, Announcement) /\ table' = table
    BY <1>2 DEF ReadyNow
  <2>2. Len(q) + Len(Announcement) <= MessageQueueSize
    BY <1>2 DEF ReadyNow, ComputerReady, Take, MessageRoom
  <2> HIDE DEF nt, q
  <2>3. QED
    BY <1>1, <2>1, <2>2, LinkAnnounced
<1>3. CASE ~ReadyNow(n)
  <2>1. ~InitPending(n)
    BY <1>1, <1>3, PendingStays
  <2>2. Told(table, nt, q)
    BY <2>1 DEF AllTold
  <2>3. n \in connected
    BY <1>1, <2>1, PendingParts DEF Connections, Unconnected
  <2> HIDE DEF nt, q
  <2>4. CASE Same(n) /\ Shrinks
    <3>1. nodeTable'[n] = nt /\ toNode'[n] = q
      BY <2>4 DEF Same, nt, q
    <3>2. QED
      BY <2>2, <2>4, <3>1, LinkShrinks
  <2>5. ASSUME NEW m \in ToNodeMsg, m.op # "mount", Added(n, m), UNCHANGED table,
               m.op = "report" => m.slot \in EnabledSlots(table) /\ table[m.slot] = m.hid
        PROVE  Told(table', nodeTable'[n], toNode'[n])
    <3>1. nodeTable'[n] = nt /\ toNode'[n] = Append(q, m) /\ table' = table
      BY <2>5 DEF Added, nt, q
    <3>2. Told(table, nt, Append(q, m))
      BY <1>1, <2>2, <2>5, LinkAppend
    <3>3. QED
      BY <3>1, <3>2
  <2>6. ASSUME NEW s \in Slot, NEW h \in Hid, table' = [table EXCEPT ![s] = h],
               Added(n, MountMsg(s, h))
        PROVE  Told(table', nodeTable'[n], toNode'[n])
    <3>1. nodeTable'[n] = nt /\ toNode'[n] = Append(q, MountMsg(s, h))
      BY <2>6 DEF Added, nt, q
    <3>2. QED
      BY <1>1, <2>2, <2>6, <3>1, LinkMount
  <2>7. CASE /\ toNode[n] # << >> /\ toNode'[n] = Tail(toNode[n]) /\ UNCHANGED table
             /\ nodeTable'[n] = Handled(nodeTable[n], Head(toNode[n]))
    <3>1. /\ q # << >> /\ nodeTable'[n] = Handled(nt, Head(q)) /\ toNode'[n] = Tail(q)
          /\ table' = table
      BY <2>7 DEF nt, q
    <3>2. QED
      BY <1>1, <2>2, <3>1, LinkHandled
  <2>8. toCtrl'[n] # <<[op |-> "init"]>>
    <3> SUFFICES ASSUME toCtrl'[n] = <<[op |-> "init"]>> PROVE FALSE
      OBVIOUS
    <3>1. 1 \in DOMAIN toCtrl'[n] /\ toCtrl'[n][1].op = "init"
      OBVIOUS
    <3>2. QED
      BY <3>1 DEF InitPending
  <2>9. QED
    BY <1>1, <1>3, <2>3, <2>4, <2>5, <2>6, <2>7, <2>8, LinkSteps
<1>4. QED
  BY <1>2, <1>3

LEMMA SoonIsHeld ==
  ASSUME TypeOK, NEW n \in Node, NEW s \in Slot
  PROVE  NodeTableSoon(n)[s] = Held(nodeTable[n], toNode[n], Len(toNode[n]), s)
<1>1. toNode[n] \in Seq(ToNodeMsg) /\ DOMAIN toNode[n] = 1..Len(toNode[n])
  BY DEF TypeOK
<1>2. {i \in DOMAIN toNode[n] : toNode[n][i].op = "mount" /\ toNode[n][i].slot = s}
        = MountsIn(toNode[n], Len(toNode[n]), s)
  BY <1>1 DEF MountsIn, IsMount
<1>3. QED
  BY <1>2 DEF NodeTableSoon, Held

LEMMA AllToldFollows == TypeOK /\ AllTold => NodeTableFollows
<1> SUFFICES ASSUME TypeOK, AllTold, NEW n \in Node, ~InitPending(n),
                    NEW s \in EnabledSlots(table)
             PROVE  NodeTableSoon(n)[s] = table[s]
  BY DEF NodeTableFollows
<1>1. s \in Slot
  BY DEF EnabledSlots
<1>2. QED
  BY <1>1, SoonIsHeld DEF AllTold, Told

(* A node that is connected knows, or is being told, every interface the      *)
(* controller has, at the same slot, whatever restarts and unmounts there     *)
(* were, as long as the action queue of kvm_switch_controller.c and the        *)
(* message queues of the nodes have room.                                   *)
THEOREM NodesFollow == Spec /\ []MessageRoom /\ []ActionRoom => []NodeTableFollows
<1> DEFINE I == Connections /\ AllTold
           Room == MessageRoom /\ ActionRoom
<1>1. Init => I
  BY InitConnections, InitAllTold
<1>2. I /\ Room /\ [Next]_vars => I'
  BY NextConnections, NextAllTold
<1>3. I => NodeTableFollows
  BY AllToldFollows DEF Connections
<1>4. QED
  BY <1>1, <1>2, <1>3, PTL DEF Spec

-----------------------------------------------------------------------------
(* Whether an interface is in the table once the first k actions are taken.  *)

EventsIn(q, k, h) == {i \in 1..k : Concerns(q[i], h)}
InTable(t, q, k, h) ==
  IF EventsIn(q, k, h) = {} THEN SlotsOf(t, h) # {}
  ELSE q[Max(EventsIn(q, k, h))].op = "hidMount"

LEMMA InTableLast ==
  ASSUME NEW t, NEW q, NEW k \in Nat, NEW h, NEW i \in 1..k, Concerns(q[i], h),
         \A j \in 1..k : j > i => ~Concerns(q[j], h)
  PROVE  InTable(t, q, k, h) <=> q[i].op = "hidMount"
<1> DEFINE S == EventsIn(q, k, h)
<1>1. S \in SUBSET (1..k) /\ i \in S /\ \A j \in S : ~(j > i)
  BY DEF EventsIn
<1>2. InTable(t, q, k, h) <=> IF S = {} THEN SlotsOf(t, h) # {} ELSE q[Max(S)].op = "hidMount"
  BY DEF InTable
<1> HIDE DEF S
<1>3. Max(S) \in S /\ i <= Max(S)
  BY <1>1, FirstAndLast
<1>4. Max(S) \in 1..k /\ ~(Max(S) > i)
  BY <1>1, <1>3
<1>5. Max(S) = i
  BY <1>3, <1>4
<1>6. QED
  BY <1>1, <1>2, <1>5

LEMMA InTableNone ==
  ASSUME NEW t, NEW q, NEW k \in Nat, NEW h, \A i \in 1..k : ~Concerns(q[i], h)
  PROVE  InTable(t, q, k, h) <=> SlotsOf(t, h) # {}
BY DEF InTable, EventsIn

LEMMA EventCases ==
  ASSUME NEW q, NEW k \in Nat, NEW h
  PROVE  \/ \A i \in 1..k : ~Concerns(q[i], h)
         \/ \E i \in 1..k : Concerns(q[i], h) /\ \A j \in 1..k : j > i => ~Concerns(q[j], h)
<1> DEFINE S == EventsIn(q, k, h)
<1>1. S \in SUBSET (1..k) /\ \A i \in 1..k : i \in S <=> Concerns(q[i], h)
  BY DEF EventsIn
<1> HIDE DEF S
<1>2. CASE S = {}
  BY <1>1, <1>2
<1>3. CASE S # {}
  <2>1. Max(S) \in S /\ \A i \in S : i <= Max(S)
    BY <1>1, <1>3, FirstAndLast
  <2>2. Max(S) \in 1..k /\ Concerns(q[Max(S)], h)
    BY <1>1, <2>1
  <2>3. \A j \in 1..k : j > Max(S) => ~Concerns(q[j], h)
    BY <1>1, <2>1, <2>2
  <2>4. QED
    BY <2>2, <2>3
<1>4. QED
  BY <1>2, <1>3

LEMMA InTableEmpty ==
  ASSUME NEW t, NEW q, NEW h
  PROVE  InTable(t, q, 0, h) <=> SlotsOf(t, h) # {}
<1>1. 1..0 = {}
  OBVIOUS
<1>2. QED
  BY <1>1, InTableNone

LEMMA InTableEvent ==
  ASSUME NEW t, NEW q, NEW h, NEW k \in Nat, Concerns(q[k + 1], h)
  PROVE  InTable(t, q, k + 1, h) <=> q[k + 1].op = "hidMount"
<1> DEFINE n == k + 1
<1>1. n \in Nat /\ n \in 1..n /\ \A j \in 1..n : ~(j > n)
  OBVIOUS
<1>2. Concerns(q[n], h)
  OBVIOUS
<1> HIDE DEF n
<1>3. \A j \in 1..n : j > n => ~Concerns(q[j], h)
  BY <1>1
<1>4. InTable(t, q, n, h) <=> q[n].op = "hidMount"
  BY <1>1, <1>2, <1>3, InTableLast
<1>5. QED
  BY <1>4 DEF n

LEMMA InTableNoEvent ==
  ASSUME NEW t, NEW q, NEW h, NEW k \in Nat, ~Concerns(q[k + 1], h)
  PROVE  InTable(t, q, k + 1, h) <=> InTable(t, q, k, h)
<1>1. EventsIn(q, k + 1, h) = EventsIn(q, k, h)
  BY DEF EventsIn
<1>2. QED
  BY <1>1 DEF InTable

(* Actions that are no event of the interface change nothing.               *)
LEMMA InTableExtend ==
  ASSUME NEW t, NEW p, NEW q, NEW k \in Nat, NEW n \in Nat, NEW h, k <= n,
         \A i \in 1..k : p[i] = q[i],
         \A i \in 1..n : i > k => ~Concerns(p[i], h)
  PROVE  InTable(t, p, n, h) <=> InTable(t, q, k, h)
<1>1. CASE \A i \in 1..k : ~Concerns(q[i], h)
  <2>1. \A i \in 1..n : ~Concerns(p[i], h)
    BY <1>1
  <2>2. InTable(t, p, n, h) <=> SlotsOf(t, h) # {}
    BY <2>1, InTableNone
  <2>3. InTable(t, q, k, h) <=> SlotsOf(t, h) # {}
    BY <1>1, InTableNone
  <2>4. QED
    BY <2>2, <2>3
<1>2. ASSUME NEW i \in 1..k, Concerns(q[i], h),
             \A j \in 1..k : j > i => ~Concerns(q[j], h)
      PROVE  InTable(t, p, n, h) <=> InTable(t, q, k, h)
  <2>1. InTable(t, q, k, h) <=> q[i].op = "hidMount"
    BY <1>2, InTableLast
  <2>2. i \in 1..n /\ Concerns(p[i], h) /\ p[i] = q[i]
    BY <1>2
  <2>3. \A j \in 1..n : j > i => ~Concerns(p[j], h)
    BY <1>2
  <2>4. InTable(t, p, n, h) <=> p[i].op = "hidMount"
    BY <2>2, <2>3, InTableLast
  <2>5. QED
    BY <2>1, <2>2, <2>4
<1>3. QED
  BY <1>1, <1>2, EventCases

(* Taking the first action: what follows is decided by a later event, or by  *)
(* what that action made of the table.                                     *)
Carried(t, u, p, q, k, h) ==
  \/ InTable(u, p, k, h) <=> InTable(t, q, k + 1, h)
  \/ /\ InTable(u, p, k, h) <=> SlotsOf(u, h) # {}
     /\ InTable(t, q, k + 1, h) <=> InTable(t, q, 1, h)

LEMMA InTableTaken ==
  ASSUME NEW t, NEW u, NEW p, NEW q, NEW n \in Nat, NEW h,
         \A i \in 1..n : p[i] = q[i + 1], NEW m \in 0..n
  PROVE  Carried(t, u, p, q, m, h)
<1> DEFINE Same1(k) == InTable(u, p, k, h) <=> InTable(t, q, k + 1, h)
           Start(k) == /\ InTable(u, p, k, h) <=> SlotsOf(u, h) # {}
                       /\ InTable(t, q, k + 1, h) <=> InTable(t, q, 1, h)
           T == {k \in Nat : k <= n => Same1(k) \/ Start(k)}
<1>1. 0 \in T
  <2>1. InTable(u, p, 0, h) <=> SlotsOf(u, h) # {}
    BY InTableEmpty
  <2>2. 0 + 1 = 1
    OBVIOUS
  <2>3. QED
    BY <2>1, <2>2
<1>2. ASSUME NEW k \in Nat, k \in T PROVE k + 1 \in T
  <2> SUFFICES ASSUME k + 1 <= n PROVE Same1(k + 1) \/ Start(k + 1)
    OBVIOUS
  <2>1. Same1(k) \/ Start(k)
    BY <1>2
  <2>2. p[k + 1] = q[(k + 1) + 1] /\ k + 1 \in Nat
    OBVIOUS
  <2>3. CASE Concerns(p[k + 1], h)
    <3>1. InTable(u, p, k + 1, h) <=> p[k + 1].op = "hidMount"
      BY <2>3, InTableEvent
    <3>2. InTable(t, q, (k + 1) + 1, h) <=> q[(k + 1) + 1].op = "hidMount"
      <4>1. Concerns(q[(k + 1) + 1], h)
        BY <2>2, <2>3
      <4>2. QED
        BY <2>2, <4>1, InTableEvent
    <3>3. QED
      BY <2>2, <3>1, <3>2
  <2>4. CASE ~Concerns(p[k + 1], h)
    <3>1. InTable(u, p, k + 1, h) <=> InTable(u, p, k, h)
      BY <2>4, InTableNoEvent
    <3>2. InTable(t, q, (k + 1) + 1, h) <=> InTable(t, q, k + 1, h)
      BY <2>2, <2>4, InTableNoEvent
    <3>3. QED
      BY <2>1, <3>1, <3>2
  <2>5. QED
    BY <2>3, <2>4
<1> HIDE DEF T
<1>3. Nat \subseteq T
  BY <1>1, <1>2, NatSetInduction
<1>4. m \in T /\ m <= n
  BY <1>3
<1>5. QED
  BY <1>4 DEF T, Carried

-----------------------------------------------------------------------------
(* The callbacks of one device event: each interface once.                  *)

Called(h) == \E i \in 1..Len(callbacks) : Concerns(callbacks[i], h)
OneCall ==
  \A i \in 1..Len(callbacks) :
    callbacks[i].op \in HidOps =>
      /\ callbacks[i].op = "hidMount" <=> callbacks[i].hid.dev \in up
      /\ \A j \in 1..Len(callbacks) :
           callbacks[j].op \in HidOps /\ callbacks[j].hid = callbacks[i].hid => i = j

LEMMA PlugCalls ==
  ASSUME NEW d \in Device, Plug(d)
  PROVE  /\ OneCall'
         /\ \A h \in Hid : ~Called(h) /\ (Called(h)' <=> h.dev = d)
<1> DEFINE c == callbacks'
           a(i) == [op |-> "hidMount", hid |-> [dev |-> d, itf |-> i - 1]]
<1>1. /\ c \in Seq(Action) /\ Len(c) = MaxInterface + 1 /\ c[MaxInterface + 1] = [op |-> "deviceMounted"]
      /\ \A i \in 1..MaxInterface : c[i] = a(i)
  BY PlugCallbacks
<1>2. MaxInterface \in Nat \ {0} /\ callbacks = << >> /\ up' = up \cup {d}
  BY KvmAssumption DEF Plug
<1> HIDE DEF c
<1>3. \A i \in 1..Len(c) : c[i].op \in HidOps => i \in 1..MaxInterface
  BY <1>1, <1>2 DEF HidOps
<1>4. ASSUME NEW i \in 1..MaxInterface
      PROVE  c[i].op = "hidMount" /\ c[i].hid.dev = d /\ c[i].hid.itf = i - 1
  <2>1. c[i] = a(i)
    BY <1>1
  <2>2. QED
    BY <2>1
<1>5. OneCall'
  <2>1. ASSUME NEW i \in 1..Len(c), c[i].op \in HidOps
        PROVE  /\ c[i].op = "hidMount" <=> c[i].hid.dev \in up'
               /\ \A j \in 1..Len(c) : c[j].op \in HidOps /\ c[j].hid = c[i].hid => i = j
    <3>1. i \in 1..MaxInterface
      BY <1>3, <2>1
    <3>2. c[i].op = "hidMount" <=> c[i].hid.dev \in up'
      BY <1>2, <1>4, <3>1
    <3>3. ASSUME NEW j \in 1..Len(c), c[j].op \in HidOps, c[j].hid = c[i].hid PROVE i = j
      <4>1. j \in 1..MaxInterface
        BY <1>3, <3>3
      <4>2. i - 1 = j - 1
        BY <1>4, <3>1, <3>3, <4>1
      <4>3. QED
        BY <1>2, <3>1, <4>1, <4>2
    <3>4. QED
      BY <3>2, <3>3
  <2>2. QED
    BY <2>1 DEF OneCall, c
<1>6. ASSUME NEW h \in Hid PROVE ~Called(h)
  BY <1>2 DEF Called
<1>7. ASSUME NEW h \in Hid PROVE Called(h)' <=> h.dev = d
  <2>1. Called(h)' <=> \E i \in 1..Len(c) : Concerns(c[i], h)
    BY DEF Called, c
  <2>2. ASSUME h.dev = d PROVE \E i \in 1..Len(c) : Concerns(c[i], h)
    <3>1. h = [dev |-> d, itf |-> h.itf] /\ h.itf \in 0..MaxInterface - 1
      BY <2>2 DEF Hid
    <3>2. h.itf + 1 \in 1..MaxInterface /\ (h.itf + 1) - 1 = h.itf
      BY <1>2, <3>1
    <3>3. c[h.itf + 1] = a(h.itf + 1) /\ h.itf + 1 \in 1..Len(c)
      BY <1>1, <1>2, <3>2
    <3>4. c[h.itf + 1].op = "hidMount" /\ c[h.itf + 1].hid = [dev |-> d, itf |-> h.itf]
      BY <3>2, <3>3
    <3>5. Concerns(c[h.itf + 1], h)
      BY <3>1, <3>4 DEF Concerns
    <3>6. QED
      BY <3>3, <3>5
  <2>3. ASSUME NEW i \in 1..Len(c), Concerns(c[i], h) PROVE h.dev = d
    BY <1>3, <1>4, <2>3 DEF Concerns, HidOps
  <2>4. QED
    BY <2>1, <2>2, <2>3
<1>8. QED
  BY <1>5, <1>6, <1>7

LEMMA UnplugCalls ==
  ASSUME NEW d \in Device, Unplug(d)
  PROVE  /\ OneCall'
         /\ \A h \in Hid : ~Called(h) /\ (Called(h)' <=> h.dev = d)
<1> DEFINE c == callbacks'
           a(i) == [op |-> "hidUmount", hid |-> [dev |-> d, itf |-> i - 1]]
<1>1. /\ c \in Seq(Action) /\ Len(c) = MaxInterface + 1 /\ c[1] = [op |-> "deviceUnmounted"]
      /\ \A i \in 1..MaxInterface : c[i + 1] = a(i)
  BY UnplugCallbacks
<1>2. MaxInterface \in Nat \ {0} /\ callbacks = << >> /\ up' = up \ {d}
  BY KvmAssumption DEF Unplug
<1> HIDE DEF c
<1>3. \A i \in 1..Len(c) : c[i].op \in HidOps => i - 1 \in 1..MaxInterface /\ (i - 1) + 1 = i
  BY <1>1, <1>2 DEF HidOps
<1>4. ASSUME NEW i \in 1..MaxInterface
      PROVE  c[i + 1].op = "hidUmount" /\ c[i + 1].hid.dev = d /\ c[i + 1].hid.itf = i - 1
  <2>1. c[i + 1] = a(i)
    BY <1>1
  <2>2. QED
    BY <2>1
<1>5. OneCall'
  <2>1. ASSUME NEW i \in 1..Len(c), c[i].op \in HidOps
        PROVE  /\ c[i].op = "hidMount" <=> c[i].hid.dev \in up'
               /\ \A j \in 1..Len(c) : c[j].op \in HidOps /\ c[j].hid = c[i].hid => i = j
    <3>1. i - 1 \in 1..MaxInterface /\ (i - 1) + 1 = i
      BY <1>3, <2>1
    <3>2. c[i].op = "hidUmount" /\ c[i].hid.dev = d /\ c[i].hid.itf = (i - 1) - 1
      BY <1>4, <3>1
    <3>3. ASSUME NEW j \in 1..Len(c), c[j].op \in HidOps, c[j].hid = c[i].hid PROVE i = j
      <4>1. j - 1 \in 1..MaxInterface /\ (j - 1) + 1 = j
        BY <1>3, <3>3
      <4>2. c[j].hid.itf = (j - 1) - 1
        BY <1>4, <4>1
      <4>3. (i - 1) - 1 = (j - 1) - 1
        BY <3>2, <3>3, <4>2
      <4>4. QED
        BY <1>2, <3>1, <4>1, <4>3
    <3>4. QED
      BY <1>2, <3>2, <3>3
  <2>2. QED
    BY <2>1 DEF OneCall, c
<1>6. ASSUME NEW h \in Hid PROVE ~Called(h)
  BY <1>2 DEF Called
<1>7. ASSUME NEW h \in Hid PROVE Called(h)' <=> h.dev = d
  <2>1. Called(h)' <=> \E i \in 1..Len(c) : Concerns(c[i], h)
    BY DEF Called, c
  <2>2. ASSUME h.dev = d PROVE \E i \in 1..Len(c) : Concerns(c[i], h)
    <3>1. h = [dev |-> d, itf |-> h.itf] /\ h.itf \in 0..MaxInterface - 1
      BY <2>2 DEF Hid
    <3>2. h.itf + 1 \in 1..MaxInterface /\ (h.itf + 1) - 1 = h.itf
      BY <1>2, <3>1
    <3>3. c[(h.itf + 1) + 1] = a(h.itf + 1) /\ (h.itf + 1) + 1 \in 1..Len(c)
      BY <1>1, <1>2, <3>2
    <3>4. Concerns(c[(h.itf + 1) + 1], h)
      BY <3>1, <3>2, <3>3 DEF Concerns
    <3>5. QED
      BY <3>3, <3>4
  <2>3. ASSUME NEW i \in 1..Len(c), Concerns(c[i], h) PROVE h.dev = d
    <3>1. i - 1 \in 1..MaxInterface /\ (i - 1) + 1 = i
      BY <1>3, <2>3 DEF Concerns, HidOps
    <3>2. c[i].hid.dev = d
      BY <1>4, <3>1
    <3>3. QED
      BY <2>3, <3>2 DEF Concerns
  <2>4. QED
    BY <2>1, <2>2, <2>3
<1>8. QED
  BY <1>5, <1>6, <1>7

LEMMA HostCalls ==
  ASSUME TypeOK, OneCall, HostCallback
  PROVE  /\ OneCall' /\ UNCHANGED <<up, table>>
         /\ \A h \in Hid : Concerns(callbacks[1], h) =>
              /\ Called(h) /\ ~Called(h)'
              /\ callbacks[1].op = "hidMount" <=> h.dev \in up
         /\ \A h \in Hid : ~Concerns(callbacks[1], h) => (Called(h)' <=> Called(h))
<1> DEFINE c == callbacks'
<1>1. /\ Len(callbacks) \in Nat \ {0} /\ Len(c) = Len(callbacks) - 1
      /\ \A i \in 1..Len(c) : i + 1 \in 1..Len(callbacks) /\ c[i] = callbacks[i + 1]
  BY CallbackFacts
<1>2. UNCHANGED <<up, table>>
  BY DEF HostCallback, switchVars
<1> HIDE DEF c
<1>3. OneCall'
  <2> SUFFICES ASSUME NEW i \in 1..Len(c), c[i].op \in HidOps
               PROVE  /\ c[i].op = "hidMount" <=> c[i].hid.dev \in up
                      /\ \A j \in 1..Len(c) : c[j].op \in HidOps /\ c[j].hid = c[i].hid => i = j
    BY <1>2 DEF OneCall, c
  <2>1. i + 1 \in 1..Len(callbacks) /\ c[i] = callbacks[i + 1]
    BY <1>1
  <2>2. c[i].op = "hidMount" <=> c[i].hid.dev \in up
    BY <2>1 DEF OneCall
  <2>3. ASSUME NEW j \in 1..Len(c), c[j].op \in HidOps, c[j].hid = c[i].hid PROVE i = j
    <3>1. j + 1 \in 1..Len(callbacks) /\ c[j] = callbacks[j + 1]
      BY <1>1
    <3>2. i + 1 = j + 1
      BY <2>1, <2>3, <3>1 DEF OneCall
    <3>3. i \in Int /\ j \in Int
      OBVIOUS
    <3>4. QED
      BY <3>2, <3>3
  <2>4. QED
    BY <2>2, <2>3
<1>4. \A h : Called(h)' <=> \E i \in 1..Len(c) : Concerns(c[i], h)
  BY DEF Called, c
<1>5. ASSUME NEW h \in Hid, Concerns(callbacks[1], h)
      PROVE  /\ Called(h) /\ ~Called(h)'
             /\ callbacks[1].op = "hidMount" <=> h.dev \in up
  <2>1. 1 \in 1..Len(callbacks) /\ callbacks[1].op \in HidOps /\ callbacks[1].hid = h
    BY <1>1, <1>5 DEF Concerns, HidOps
  <2>2. Called(h)
    BY <1>5, <2>1 DEF Called
  <2>3. callbacks[1].op = "hidMount" <=> h.dev \in up
    BY <2>1 DEF OneCall
  <2>4. ASSUME NEW i \in 1..Len(c), Concerns(c[i], h) PROVE FALSE
    <3>1. i + 1 \in 1..Len(callbacks) /\ callbacks[i + 1].op \in HidOps /\ callbacks[i + 1].hid = h
      BY <1>1, <2>4 DEF Concerns, HidOps
    <3>2. 1 = i + 1
      BY <2>1, <3>1 DEF OneCall
    <3>3. i \in Nat \ {0}
      OBVIOUS
    <3>4. QED
      BY <3>2, <3>3
  <2>5. QED
    BY <1>4, <2>2, <2>3, <2>4
<1>6. ASSUME NEW h \in Hid, ~Concerns(callbacks[1], h) PROVE Called(h)' <=> Called(h)
  <2>1. ASSUME NEW i \in 1..Len(c), Concerns(c[i], h) PROVE Called(h)
    BY <1>1, <2>1 DEF Called
  <2>2. ASSUME NEW i \in 1..Len(callbacks), Concerns(callbacks[i], h)
        PROVE  \E j \in 1..Len(c) : Concerns(c[j], h)
    <3>1. i # 1
      BY <1>6, <2>2
    <3>2. i - 1 \in 1..Len(c) /\ (i - 1) + 1 = i
      BY <1>1, <3>1
    <3>3. c[i - 1] = callbacks[i]
      BY <1>1, <3>2
    <3>4. QED
      BY <2>2, <3>2, <3>3
  <2>3. QED
    BY <1>4, <2>1, <2>2 DEF Called
<1>7. QED
  BY <1>2, <1>3, <1>5, <1>6

LEMMA NextOneCall == TypeOK /\ OneCall /\ [Next]_vars => OneCall'
<1> SUFFICES ASSUME TypeOK, OneCall, [Next]_vars PROVE OneCall'
  OBVIOUS
<1>1. CASE UNCHANGED <<up, callbacks>>
  BY <1>1 DEF OneCall
<1>2. UNCHANGED <<up, callbacks>> \/ HostCallback \/ \E d \in Device : Plug(d) \/ Unplug(d)
  BY ActionSteps, HostOpTakes DEF Quiet
<1>3. QED
  BY <1>1, <1>2, HostCalls, PlugCalls, UnplugCalls

-----------------------------------------------------------------------------
(* An interface is never registered twice, ...                              *)

Single == \A s, r \in EnabledSlots(table) : table[s] = table[r] => s = r
MountsFresh(h) ==
  \A i \in 1..Len(actions) :
    Concerns(actions[i], h) /\ actions[i].op = "hidMount" => ~InTable(table, actions, i - 1, h)
GoneSoon(h) == (Called(h) <=> h.dev \in up) => ~InTable(table, actions, Len(actions), h)
NotTwice == Single /\ \A h \in Hid : MountsFresh(h) /\ GoneSoon(h)

(* ... and, with room in the table, none is missed.                         *)
TableRoom == actions # << >> /\ Head(actions).op = "hidMount" => FreeSlots # {}
NotMissed ==
  \A h \in Hid : h.dev \in up /\ ~Called(h) => InTable(table, actions, Len(actions), h)

LEMMA FirstFresh ==
  ASSUME TypeOK, NotTwice, HidMount
  PROVE  /\ Head(actions) = actions[1] /\ Head(actions).hid \in Hid
         /\ SlotsOf(table, Head(actions).hid) = {}
<1> DEFINE h == Head(actions).hid
<1>1. Take("hidMount")
  BY HostOpTakes
<1>2. /\ actions[1] \in Action /\ actions[1].op = "hidMount" /\ Head(actions) = actions[1]
      /\ 1 \in 1..Len(actions)
  BY <1>1, TakeFacts
<1>3. h \in Hid /\ Concerns(actions[1], h)
  BY <1>2, ActionsRead DEF HidOps, Concerns
<1> HIDE DEF h
<1>4. ~InTable(table, actions, 1 - 1, h)
  BY <1>2, <1>3 DEF NotTwice, MountsFresh
<1>5. SlotsOf(table, h) = {}
  BY <1>4, InTableEmpty
<1>6. QED
  BY <1>2, <1>3, <1>5 DEF h

LEMMA UmountFacts ==
  ASSUME TypeOK, NotTwice, HidUmount
  PROVE  LET g == Head(actions).hid IN
         /\ Head(actions) = actions[1] /\ Concerns(actions[1], g) /\ actions[1].op = "hidUmount"
         /\ SlotsOf(table', g) = {}
         /\ \A h \in Hid : h # g => SlotsOf(table', h) = SlotsOf(table, h)
<1> DEFINE g == Head(actions).hid
<1>1. Take("hidUmount")
  BY HostOpTakes
<1>2. actions[1] \in Action /\ actions[1].op = "hidUmount" /\ Head(actions) = actions[1]
  BY <1>1, TakeFacts
<1>3. g \in Hid /\ Concerns(actions[1], g)
  BY <1>2, ActionsRead DEF HidOps, Concerns
<1>4. table' = IF SlotsOf(table, g) = {} THEN table ELSE Unregistered(g)
  BY DEF HidUmount
<1>5. table \in Table
  BY DEF TypeOK
<1>6. None \notin Hid
  BY NamesAssumption
<1> HIDE DEF g
<1>7. SlotsOf(table', g) = {} /\ \A h \in Hid : h # g => SlotsOf(table', h) = SlotsOf(table, h)
  <2>1. CASE SlotsOf(table, g) = {}
    BY <1>4, <2>1
  <2>2. CASE SlotsOf(table, g) # {}
    <3> DEFINE s == Min(SlotsOf(table, g))
    <3>1. s \in SlotsOf(table, g)
      BY <2>2, MinOfSlots DEF SlotsOf
    <3>2. table' = [table EXCEPT ![s] = None]
      BY <1>4, <2>2 DEF Unregistered
    <3> HIDE DEF s
    <3>3. \A r \in SlotsOf(table, g) : r = s
      BY <1>3, <1>6, <3>1 DEF NotTwice, Single, SlotsOf, EnabledSlots
    <3>4. s \in Slot /\ table[s] = g
      BY <3>1 DEF SlotsOf
    <3>5. SlotsOf(table', g) = {}
      BY <1>3, <1>5, <1>6, <3>2, <3>3, <3>4 DEF SlotsOf, Table
    <3>6. ASSUME NEW h \in Hid, h # g PROVE SlotsOf(table', h) = SlotsOf(table, h)
      BY <1>3, <1>5, <1>6, <3>2, <3>4, <3>6 DEF SlotsOf, Table
    <3>7. QED
      BY <3>5, <3>6
  <2>3. QED
    BY <2>1, <2>2
<1>8. QED
  BY <1>2, <1>3, <1>7 DEF g

(* What taking an action makes of the table is what InTable says.           *)
LEMMA FirstEffect ==
  ASSUME TypeOK, NotTwice, NEW h \in Hid, NEW op, Take(op),
         HidMount \/ HidUmount \/ (op \notin HidOps /\ UNCHANGED table)
  PROVE  /\ SlotsOf(table', h) # {} => InTable(table, actions, 1, h)
         /\ TableRoom /\ InTable(table, actions, 1, h) => SlotsOf(table', h) # {}
<1>0. 0 + 1 = 1 /\ 0 \in Nat
  OBVIOUS
<1>1. ASSUME ~Concerns(actions[1], h)
      PROVE  InTable(table, actions, 1, h) <=> SlotsOf(table, h) # {}
  <2>1. ~Concerns(actions[0 + 1], h)
    BY <1>0, <1>1
  <2>2. InTable(table, actions, 0 + 1, h) <=> InTable(table, actions, 0, h)
    BY <1>0, <2>1, InTableNoEvent
  <2>3. QED
    BY <1>0, <2>2, InTableEmpty
<1>2. ASSUME Concerns(actions[1], h)
      PROVE  InTable(table, actions, 1, h) <=> actions[1].op = "hidMount"
  <2>1. Concerns(actions[0 + 1], h)
    BY <1>0, <1>2
  <2>2. InTable(table, actions, 0 + 1, h) <=> actions[0 + 1].op = "hidMount"
    BY <1>0, <2>1, InTableEvent
  <2>3. QED
    BY <1>0, <2>2
<1>3. CASE op \notin HidOps /\ UNCHANGED table
  <2>1. ~Concerns(actions[1], h)
    BY <1>3, TakeFacts DEF Concerns, HidOps
  <2>2. QED
    BY <1>1, <1>3, <2>1
<1>4. CASE HidUmount
  <2>1. CASE h = Head(actions).hid
    BY <1>2, <1>4, <2>1, UmountFacts
  <2>2. CASE h # Head(actions).hid
    <3>1. ~Concerns(actions[1], h)
      BY <1>4, <2>2, UmountFacts DEF Concerns
    <3>2. SlotsOf(table', h) = SlotsOf(table, h)
      BY <1>4, <2>2, UmountFacts
    <3>3. QED
      BY <1>1, <3>1, <3>2
  <2>3. QED
    BY <2>1, <2>2
<1>5. CASE HidMount
  <2> DEFINE g == Head(actions).hid
             s == Min(FreeSlots)
  <2>1. g \in Hid /\ Head(actions) = actions[1] /\ actions[1].op = "hidMount"
    BY <1>5, FirstFresh, HostOpTakes, TakeFacts
  <2>2. table' = IF FreeSlots = {} THEN table ELSE [table EXCEPT ![s] = g]
    BY <1>5 DEF HidMount
  <2>3. FreeSlots # {} => s \in Slot /\ table[s] = None
    BY MinOfSlots DEF FreeSlots, EnabledSlots
  <2>4. table \in Table /\ None \notin Hid
    BY NamesAssumption DEF TypeOK
  <2>5. TableRoom => FreeSlots # {}
    BY <1>5 DEF HidMount, Take, TableRoom
  <2> HIDE DEF g, s
  <2>6. CASE h = g
    <3>1. InTable(table, actions, 1, h)
      BY <1>2, <2>1, <2>6 DEF Concerns, g
    <3>2. FreeSlots # {} => SlotsOf(table', h) # {}
      BY <2>2, <2>3, <2>4, <2>6 DEF SlotsOf, Table
    <3>3. QED
      BY <2>5, <3>1, <3>2
  <2>7. CASE h # g
    <3>1. ~Concerns(actions[1], h)
      BY <2>1, <2>7 DEF Concerns, g
    <3>2. SlotsOf(table', h) = SlotsOf(table, h)
      BY <2>2, <2>3, <2>4, <2>7 DEF SlotsOf, Table
    <3>3. QED
      BY <1>1, <3>1, <3>2
  <2>8. QED
    BY <2>6, <2>7
<1>6. QED
  BY <1>3, <1>4, <1>5

LEMMA TakeEffect ==
  ASSUME TypeOK, NotTwice, NEW h \in Hid, NEW op, Take(op),
         HidMount \/ HidUmount \/ (op \notin HidOps /\ UNCHANGED table),
         NEW k \in 0..Len(actions')
  PROVE  /\ InTable(table', actions', k, h) => InTable(table, actions, k + 1, h)
         /\ TableRoom /\ InTable(table, actions, k + 1, h) => InTable(table', actions', k, h)
<1> DEFINE n == Len(actions')
           p == actions'
           u == table'
<1>1. n \in Nat /\ \A i \in 1..n : p[i] = actions[i + 1]
  BY TakeFacts
<1>2. k \in 0..n
  BY <1>1
<1>3. /\ SlotsOf(u, h) # {} => InTable(table, actions, 1, h)
      /\ TableRoom /\ InTable(table, actions, 1, h) => SlotsOf(u, h) # {}
  BY FirstEffect
<1> HIDE DEF n, p, u
<1>4. Carried(table, u, p, actions, k, h)
  BY <1>1, <1>2, InTableTaken
<1>5. QED
  BY <1>3, <1>4 DEF Carried, u, p

(* The steps that take an action, for what they do to the table.            *)
LEMMA TakeKinds ==
  ASSUME TypeOK, NotTwice, [Next]_vars
  PROVE  \/ \E d \in Device : Plug(d) \/ Unplug(d)
         \/ HostCallback
         \/ /\ \E op : /\ Take(op)
                       /\ HidMount \/ HidUmount \/ (op \notin HidOps /\ UNCHANGED table)
            /\ UNCHANGED <<up, callbacks>>
         \/ Quiet
<1>1. {"deviceMounted", "deviceUnmounted", "computerReady"} \cap HidOps = {}
      /\ HidOps \subseteq HostOps
  BY DEF HidOps, HostOps
<1>2. ComputerReady => Take("computerReady")
  BY DEF ComputerReady
<1>3. ASSUME NEW op, Take(op), UNCHANGED <<up, callbacks>>,
             HidMount \/ HidUmount \/ (op \notin HidOps /\ UNCHANGED table)
      PROVE  /\ \E o : /\ Take(o)
                       /\ HidMount \/ HidUmount \/ (o \notin HidOps /\ UNCHANGED table)
             /\ UNCHANGED <<up, callbacks>>
  BY <1>3
<1>4. CASE HidMount \/ HidUmount
  <2>1. (Take("hidMount") \/ Take("hidUmount")) /\ UNCHANGED <<up, callbacks>>
    BY <1>4, HostOpTakes
  <2>2. QED
    BY <1>3, <1>4, <2>1
<1>5. CASE DeviceMounted \/ DeviceUnmounted
           \/ (ComputerReady /\ UNCHANGED <<up, callbacks, table, mountedCount>>)
  <2>1. /\ Take("deviceMounted") \/ Take("deviceUnmounted") \/ Take("computerReady")
        /\ UNCHANGED <<up, callbacks, table>>
    BY <1>2, <1>5, HostOpTakes
  <2>2. QED
    BY <1>1, <1>3, <2>1
<1>6. ASSUME NEW op, op \notin HostOps \cup {"computerReady"}, Take(op),
             UNCHANGED <<up, callbacks, table, mountedCount>>
      PROVE  /\ \E o : /\ Take(o)
                       /\ HidMount \/ HidUmount \/ (o \notin HidOps /\ UNCHANGED table)
             /\ UNCHANGED <<up, callbacks>>
  BY <1>1, <1>3, <1>6
<1>7. QED
  BY <1>4, <1>5, <1>6, ActionSteps

LEMMA QuietEvents ==
  ASSUME TypeOK, TypeOK', Quiet, NEW h \in Hid
  PROVE  /\ \A i \in 1..Len(actions') :
              Concerns(actions'[i], h) => i \in 1..Len(actions) /\ actions'[i] = actions[i]
         /\ \A k \in 0..Len(actions) : InTable(table', actions', k, h) <=> InTable(table, actions, k, h)
         /\ InTable(table', actions', Len(actions'), h) <=> InTable(table, actions, Len(actions), h)
         /\ Called(h)' <=> Called(h)
<1> DEFINE p == actions'
           n == Len(actions')
           k == Len(actions)
<1>1. /\ n \in Nat /\ k \in Nat /\ k <= n /\ table' = table /\ UNCHANGED callbacks
      /\ \A i \in 1..k : p[i] = actions[i]
      /\ \A i \in 1..n : i > k => p[i].op \notin HostOps
  BY DEF Quiet, TypeOK
<1> HIDE DEF p, n, k
<1>2. \A i \in 1..n : i > k => ~Concerns(p[i], h)
  BY <1>1 DEF Concerns, HostOps, HidOps
<1>3. \A i \in 1..n : Concerns(p[i], h) => i \in 1..k /\ p[i] = actions[i]
  BY <1>1, <1>2
<1>4. InTable(table, p, n, h) <=> InTable(table, actions, k, h)
  BY <1>1, <1>2, InTableExtend
<1>5. ASSUME NEW j \in 0..k PROVE InTable(table, p, j, h) <=> InTable(table, actions, j, h)
  <2>1. /\ j \in Nat /\ j <= j /\ \A i \in 1..j : p[i] = actions[i]
        /\ \A i \in 1..j : i > j => ~Concerns(p[i], h)
    BY <1>1, <1>5
  <2>2. QED
    BY <2>1, InTableExtend
<1>6. Called(h)' <=> Called(h)
  BY <1>1 DEF Called
<1>7. QED
  BY <1>1, <1>3, <1>4, <1>5, <1>6 DEF p, n, k

LEMMA HostEvents ==
  ASSUME TypeOK, HostCallback, ActionRoom, NEW h \in Hid
  PROVE  /\ Len(actions) \in Nat /\ Len(actions') = Len(actions) + 1
         /\ actions'[Len(actions) + 1] = callbacks[1]
         /\ \A i \in 1..Len(actions) : actions'[i] = actions[i]
         /\ \A k \in 0..Len(actions) : InTable(table', actions', k, h) <=> InTable(table, actions, k, h)
         /\ Concerns(callbacks[1], h) =>
              (InTable(table', actions', Len(actions'), h) <=> callbacks[1].op = "hidMount")
         /\ ~Concerns(callbacks[1], h) =>
              (InTable(table', actions', Len(actions'), h) <=> InTable(table, actions, Len(actions), h))
<1> DEFINE p == actions'
           k == Len(actions)
           c == callbacks[1]
<1>1. c \in Action /\ p = Append(actions, c)
  BY CallbackFacts DEF ActionRoom
<1>2. actions \in Seq(Action) /\ k \in Nat /\ table' = table
  BY DEF TypeOK, HostCallback, switchVars
<1> HIDE DEF p, c
<1>3. Len(p) = k + 1 /\ p[k + 1] = c /\ \A i \in 1..k : p[i] = actions[i]
  BY <1>1, <1>2, AppendProperties
<1> HIDE DEF k
<1>4. ASSUME NEW j \in 0..k PROVE InTable(table, p, j, h) <=> InTable(table, actions, j, h)
  <2>1. /\ j \in Nat /\ j <= j /\ \A i \in 1..j : p[i] = actions[i]
        /\ \A i \in 1..j : i > j => ~Concerns(p[i], h)
    BY <1>2, <1>3, <1>4
  <2>2. QED
    BY <2>1, InTableExtend
<1>5. k \in 0..k
  BY <1>2
<1>6. ASSUME Concerns(c, h) PROVE InTable(table, p, k + 1, h) <=> c.op = "hidMount"
  <2>1. Concerns(p[k + 1], h)
    BY <1>3, <1>6
  <2>2. QED
    BY <1>2, <1>3, <2>1, InTableEvent
<1>7. ASSUME ~Concerns(c, h)
      PROVE  InTable(table, p, k + 1, h) <=> InTable(table, actions, k, h)
  <2>1. ~Concerns(p[k + 1], h)
    BY <1>3, <1>7
  <2>2. InTable(table, p, k + 1, h) <=> InTable(table, p, k, h)
    BY <1>2, <2>1, InTableNoEvent
  <2>3. QED
    BY <1>4, <1>5, <2>2
<1>8. QED
  BY <1>2, <1>3, <1>4, <1>6, <1>7 DEF p, k, c

LEMMA NextSingle == TypeOK /\ NotTwice /\ [Next]_vars => Single'
<1> SUFFICES ASSUME TypeOK, NotTwice, [Next]_vars PROVE Single'
  OBVIOUS
<1>1. Single /\ table \in Table
  BY DEF NotTwice, TypeOK
<1>2. CASE UNCHANGED table
  BY <1>1, <1>2 DEF Single
<1>3. CASE HidUmount
  <2>1. Shrinks
    BY <1>3, TableShrinks
  <2>2. QED
    BY <1>1, <2>1 DEF Shrinks, Single
<1>4. CASE HidMount
  <2> DEFINE g == Head(actions).hid
             s == Min(FreeSlots)
  <2>1. SlotsOf(table, g) = {}
    BY <1>4, FirstFresh
  <2>2. CASE FreeSlots # {}
    <3>1. s \in Slot
      BY <2>2, MinOfSlots DEF FreeSlots
    <3>2. table' = [table EXCEPT ![s] = g]
      BY <1>4, <2>2 DEF HidMount
    <3> HIDE DEF s, g
    <3>3. \A r \in Slot : table[r] # g
      BY <2>1 DEF SlotsOf
    <3>4. QED
      BY <1>1, <3>1, <3>2, <3>3 DEF Single, EnabledSlots, Table
  <2>3. CASE FreeSlots = {}
    BY <1>2, <1>4, <2>3 DEF HidMount
  <2>4. QED
    BY <2>2, <2>3
<1>5. ASSUME NEW d \in Device, Plug(d) \/ Unplug(d) PROVE UNCHANGED table
  BY <1>5 DEF Plug, Unplug, switchVars
<1>6. HostCallback => UNCHANGED table
  BY DEF HostCallback, switchVars
<1>7. QED
  BY <1>2, <1>3, <1>4, <1>5, <1>6, TakeKinds DEF Quiet

LEMMA NextNotTwice ==
  TypeOK /\ OneCall /\ NotTwice /\ ActionRoom /\ [Next]_vars => NotTwice'
<1> SUFFICES ASSUME TypeOK, OneCall, NotTwice, ActionRoom, [Next]_vars, NEW h \in Hid
             PROVE  MountsFresh(h)' /\ GoneSoon(h)'
  BY NextSingle DEF NotTwice
<1>0. /\ MountsFresh(h) /\ GoneSoon(h) /\ Len(actions) \in Nat /\ Len(actions') \in Nat
      /\ TypeOK'
  <2>1. TypeOK'
    BY NextTypes
  <2>2. Len(actions) \in Nat /\ Len(actions') \in Nat
    BY <2>1 DEF TypeOK
  <2>3. MountsFresh(h) /\ GoneSoon(h)
    BY DEF NotTwice
  <2>4. QED
    BY <2>1, <2>2, <2>3
<1>1. ASSUME NEW d \in Device, Plug(d) \/ Unplug(d) PROVE MountsFresh(h)' /\ GoneSoon(h)'
  <2>1. UNCHANGED <<actions, table>>
    BY <1>1 DEF Plug, Unplug, switchVars
  <2>2. ~Called(h) /\ (Called(h)' <=> h.dev = d)
    BY <1>1, PlugCalls, UnplugCalls
  <2>3. /\ Plug(d) => d \notin up /\ up' = up \cup {d}
        /\ Unplug(d) => d \in up /\ up' = up \ {d}
    BY DEF Plug, Unplug
  <2>4. GoneSoon(h)'
    BY <1>0, <1>1, <2>1, <2>2, <2>3 DEF GoneSoon
  <2>5. MountsFresh(h)'
    BY <1>0, <2>1 DEF MountsFresh
  <2>6. QED
    BY <2>4, <2>5
<1>2. CASE HostCallback
  <2>1. /\ Len(actions') = Len(actions) + 1 /\ actions'[Len(actions) + 1] = callbacks[1]
        /\ \A i \in 1..Len(actions) : actions'[i] = actions[i]
        /\ \A k \in 0..Len(actions) : InTable(table', actions', k, h) <=> InTable(table, actions, k, h)
    BY <1>2, HostEvents
  <2>2. CASE Concerns(callbacks[1], h)
    <3>1. /\ Called(h) /\ ~Called(h)' /\ UNCHANGED up
          /\ callbacks[1].op = "hidMount" <=> h.dev \in up
      BY <1>2, <2>2, HostCalls
    <3>2. InTable(table', actions', Len(actions'), h) <=> callbacks[1].op = "hidMount"
      BY <1>2, <2>2, HostEvents
    <3>3. GoneSoon(h)'
      BY <3>1, <3>2 DEF GoneSoon
    <3>4. callbacks[1].op = "hidMount" => ~InTable(table, actions, Len(actions), h)
      BY <1>0, <3>1 DEF GoneSoon
    <3>5. ASSUME NEW i \in 1..Len(actions'), Concerns(actions'[i], h), actions'[i].op = "hidMount"
          PROVE  ~InTable(table', actions', i - 1, h)
      <4>1. CASE i = Len(actions) + 1
        <5>1. i - 1 = Len(actions) /\ Len(actions) \in 0..Len(actions)
          BY <1>0, <4>1
        <5>2. QED
          BY <2>1, <3>4, <3>5, <4>1, <5>1
      <4>2. CASE i \in 1..Len(actions)
        <5>1. i - 1 \in 0..Len(actions) /\ actions'[i] = actions[i]
          BY <1>0, <2>1, <4>2
        <5>2. ~InTable(table, actions, i - 1, h)
          BY <1>0, <3>5, <4>2, <5>1 DEF MountsFresh
        <5>3. QED
          BY <2>1, <5>1, <5>2
      <4>3. QED
        BY <1>0, <2>1, <4>1, <4>2
    <3>6. QED
      BY <3>3, <3>5 DEF MountsFresh
  <2>3. CASE ~Concerns(callbacks[1], h)
    <3>1. (Called(h)' <=> Called(h)) /\ UNCHANGED up
      BY <1>2, <2>3, HostCalls
    <3>2. InTable(table', actions', Len(actions'), h) <=> InTable(table, actions, Len(actions), h)
      BY <1>2, <2>3, HostEvents
    <3>3. GoneSoon(h)'
      BY <1>0, <3>1, <3>2 DEF GoneSoon
    <3>4. ASSUME NEW i \in 1..Len(actions'), Concerns(actions'[i], h), actions'[i].op = "hidMount"
          PROVE  ~InTable(table', actions', i - 1, h)
      <4>1. i \in 1..Len(actions)
        BY <1>0, <2>1, <2>3, <3>4
      <4>2. i - 1 \in 0..Len(actions) /\ actions'[i] = actions[i]
        BY <1>0, <2>1, <4>1
      <4>3. ~InTable(table, actions, i - 1, h)
        BY <1>0, <3>4, <4>1, <4>2 DEF MountsFresh
      <4>4. QED
        BY <2>1, <4>2, <4>3
    <3>5. QED
      BY <3>3, <3>4 DEF MountsFresh
  <2>4. QED
    BY <2>2, <2>3
<1>3. ASSUME NEW op, Take(op), UNCHANGED <<up, callbacks>>,
             HidMount \/ HidUmount \/ (op \notin HidOps /\ UNCHANGED table)
      PROVE  MountsFresh(h)' /\ GoneSoon(h)'
  <2>1. /\ Len(actions) \in Nat \ {0} /\ Len(actions') = Len(actions) - 1
        /\ \A i \in 1..Len(actions') : i + 1 \in 1..Len(actions) /\ actions'[i] = actions[i + 1]
    BY <1>3, TakeFacts
  <2>2. \A k \in 0..Len(actions') :
          InTable(table', actions', k, h) => InTable(table, actions, k + 1, h)
    BY <1>3, TakeEffect
  <2>3. GoneSoon(h)'
    <3>1. (Called(h)' <=> Called(h)) /\ UNCHANGED up
      BY <1>3 DEF Called
    <3>2. Len(actions') \in 0..Len(actions') /\ Len(actions') + 1 = Len(actions)
      BY <1>0, <2>1
    <3>3. InTable(table', actions', Len(actions'), h) => InTable(table, actions, Len(actions), h)
      BY <2>2, <3>2
    <3>4. QED
      BY <1>0, <3>1, <3>3 DEF GoneSoon
  <2>4. ASSUME NEW i \in 1..Len(actions'), Concerns(actions'[i], h), actions'[i].op = "hidMount"
        PROVE  ~InTable(table', actions', i - 1, h)
    <3>1. i + 1 \in 1..Len(actions) /\ actions'[i] = actions[i + 1] /\ (i + 1) - 1 = i
      BY <2>1
    <3>2. ~InTable(table, actions, i, h)
      BY <1>0, <2>4, <3>1 DEF MountsFresh
    <3>3. i - 1 \in 0..Len(actions') /\ (i - 1) + 1 = i
      BY <1>0
    <3>4. QED
      BY <2>2, <3>2, <3>3
  <2>5. QED
    BY <2>3, <2>4 DEF MountsFresh
<1>4. CASE Quiet
  <2>1. /\ \A i \in 1..Len(actions') :
             Concerns(actions'[i], h) => i \in 1..Len(actions) /\ actions'[i] = actions[i]
        /\ \A k \in 0..Len(actions) : InTable(table', actions', k, h) <=> InTable(table, actions, k, h)
        /\ InTable(table', actions', Len(actions'), h) <=> InTable(table, actions, Len(actions), h)
        /\ Called(h)' <=> Called(h)
    BY <1>0, <1>4, QuietEvents
  <2>2. GoneSoon(h)'
    BY <1>0, <1>4, <2>1 DEF GoneSoon, Quiet
  <2>3. ASSUME NEW i \in 1..Len(actions'), Concerns(actions'[i], h), actions'[i].op = "hidMount"
        PROVE  ~InTable(table', actions', i - 1, h)
    <3>1. i \in 1..Len(actions) /\ actions'[i] = actions[i] /\ i - 1 \in 0..Len(actions)
      BY <1>0, <2>1, <2>3
    <3>2. ~InTable(table, actions, i - 1, h)
      BY <1>0, <2>3, <3>1 DEF MountsFresh
    <3>3. QED
      BY <2>1, <3>1, <3>2
  <2>4. QED
    BY <2>2, <2>3 DEF MountsFresh
<1>5. QED
  BY <1>1, <1>2, <1>3, <1>4, TakeKinds

LEMMA NextNotMissed ==
  TypeOK /\ OneCall /\ NotTwice /\ NotMissed /\ ActionRoom /\ TableRoom /\ [Next]_vars
    => NotMissed'
<1> SUFFICES ASSUME TypeOK, OneCall, NotTwice, NotMissed, ActionRoom, TableRoom, [Next]_vars,
                    NEW h \in Hid, h.dev \in up', ~Called(h)'
             PROVE  InTable(table', actions', Len(actions'), h)
  BY DEF NotMissed
<1>0. Len(actions) \in Nat /\ Len(actions') \in Nat /\ TypeOK'
  BY NextTypes DEF TypeOK
<1>1. ASSUME NEW d \in Device, Plug(d) \/ Unplug(d)
      PROVE  InTable(table', actions', Len(actions'), h)
  <2>1. UNCHANGED <<actions, table>>
    BY <1>1 DEF Plug, Unplug, switchVars
  <2>2. ~Called(h) /\ h.dev # d
    BY <1>1, PlugCalls, UnplugCalls
  <2>3. h.dev \in up
    BY <1>1, <2>2 DEF Plug, Unplug
  <2>4. QED
    BY <2>1, <2>2, <2>3 DEF NotMissed
<1>2. CASE HostCallback
  <2>1. CASE Concerns(callbacks[1], h)
    <3>1. callbacks[1].op = "hidMount"
      BY <1>2, <2>1, HostCalls
    <3>2. QED
      BY <1>2, <2>1, <3>1, HostEvents
  <2>2. CASE ~Concerns(callbacks[1], h)
    <3>1. ~Called(h) /\ h.dev \in up
      BY <1>2, <2>2, HostCalls
    <3>2. InTable(table, actions, Len(actions), h)
      BY <3>1 DEF NotMissed
    <3>3. QED
      BY <1>2, <2>2, <3>2, HostEvents
  <2>3. QED
    BY <2>1, <2>2
<1>3. ASSUME NEW op, Take(op), UNCHANGED <<up, callbacks>>,
             HidMount \/ HidUmount \/ (op \notin HidOps /\ UNCHANGED table)
      PROVE  InTable(table', actions', Len(actions'), h)
  <2>1. ~Called(h) /\ h.dev \in up
    BY <1>3 DEF Called
  <2>2. InTable(table, actions, Len(actions), h)
    BY <2>1 DEF NotMissed
  <2>3. Len(actions') \in 0..Len(actions') /\ Len(actions') + 1 = Len(actions)
    BY <1>0, <1>3, TakeFacts
  <2>4. QED
    BY <1>3, <2>2, <2>3, TakeEffect
<1>4. CASE Quiet
  <2>1. ~Called(h) /\ h.dev \in up
    BY <1>4 DEF Quiet, Called
  <2>2. InTable(table, actions, Len(actions), h)
    BY <2>1 DEF NotMissed
  <2>3. QED
    BY <1>0, <1>4, <2>2, QuietEvents
<1>5. QED
  BY <1>1, <1>2, <1>3, <1>4, TakeKinds

LEMMA InitHotplug == Init => TypeOK /\ OneCall /\ NotTwice /\ NotMissed
<1> SUFFICES ASSUME Init PROVE TypeOK /\ OneCall /\ NotTwice /\ NotMissed
  OBVIOUS
<1>1. /\ up = {} /\ callbacks = << >> /\ actions = << >>
      /\ table = NoHid
  BY DEF Init
<1>2. OneCall /\ \A h : ~Called(h)
  BY <1>1 DEF OneCall, Called
<1>3. Single
  BY <1>1 DEF Single, EnabledSlots, NoHid
<1>4. ASSUME NEW h \in Hid PROVE MountsFresh(h) /\ GoneSoon(h)
  <2>1. SlotsOf(table, h) = {}
    BY <1>1, NamesAssumption DEF SlotsOf, NoHid
  <2>2. Len(actions) = 0
    BY <1>1
  <2>3. ~InTable(table, actions, 0, h)
    BY <2>1, InTableEmpty
  <2>4. QED
    BY <2>2, <2>3 DEF MountsFresh, GoneSoon
<1>5. NotMissed
  BY <1>1 DEF NotMissed
<1>6. QED
  BY <1>2, <1>3, <1>4, <1>5, InitTypes DEF NotTwice

(* The interfaces at the slots of the table.                                *)
LEMMA OneSlot ==
  ASSUME TypeOK, Single, NEW h \in Hid
  PROVE  Cardinality(SlotsOf(table, h)) <= 1
<1>1. \A s, r \in SlotsOf(table, h) : s = r
  BY NamesAssumption DEF Single, SlotsOf, EnabledSlots
<1>2. CASE SlotsOf(table, h) = {}
  BY <1>2, FS_EmptySet
<1>3. CASE SlotsOf(table, h) # {}
  <2>1. PICK s : SlotsOf(table, h) = {s}
    BY <1>1, <1>3
  <2>2. Cardinality({s}) = 1
    BY FS_Singleton
  <2>3. QED
    BY <2>1, <2>2
<1>4. QED
  BY <1>2, <1>3

LEMMA SoonIsInTable ==
  ASSUME TypeOK, OneCall, NEW h \in Hid
  PROVE  InTableSoon(h) <=> IF Called(h) THEN h.dev \in up
                                         ELSE InTable(table, actions, Len(actions), h)
<1> DEFINE ops == actions \o callbacks
           events == {i \in DOMAIN ops : Concerns(ops[i], h)}
           k == Len(actions)
           n == Len(callbacks)
<1>1. actions \in Seq(Action) /\ callbacks \in Seq(Action) /\ k \in Nat /\ n \in Nat
  BY DEF TypeOK
<1>2. /\ DOMAIN ops = 1..k + n /\ k + n \in Nat
      /\ \A i \in 1..k + n : ops[i] = IF i <= k THEN actions[i] ELSE callbacks[i - k]
  <2>1. /\ ops \in Seq(Action) /\ Len(ops) = k + n
        /\ \A i \in 1..k + n : ops[i] = IF i <= k THEN actions[i] ELSE callbacks[i - k]
    BY <1>1, ConcatProperties
  <2> HIDE DEF ops
  <2>2. DOMAIN ops = 1..Len(ops)
    BY <2>1
  <2>3. QED
    BY <1>1, <2>1, <2>2
<1>3. InTableSoon(h) <=> IF events = {} THEN SlotsOf(table, h) # {}
                                        ELSE ops[Max(events)].op = "hidMount"
  BY DEF InTableSoon
<1> HIDE DEF ops, k, n
<1>4. events \in SUBSET (1..k + n)
  BY <1>2
<1>5. CASE Called(h)
  <2>1. PICK j \in 1..n : Concerns(callbacks[j], h)
    BY <1>5 DEF Called, n
  <2>2. k + j \in 1..k + n /\ ~(k + j <= k) /\ (k + j) - k = j
    BY <1>1
  <2>3. k + j \in events
    BY <1>2, <2>1, <2>2
  <2> HIDE DEF events
  <2>4. Max(events) \in events /\ k + j <= Max(events)
    BY <1>2, <1>4, <2>3, FirstAndLast
  <2> DEFINE last == Max(events)
             m == last - k
  <2>5. m \in 1..n /\ ~(last <= k) /\ last \in 1..k + n
    <3>1. last \in 1..k + n /\ k + j <= last
      BY <1>4, <2>4
    <3> HIDE DEF last
    <3>2. QED
      BY <1>1, <3>1
  <2>6. ops[Max(events)] = callbacks[m] /\ Concerns(callbacks[m], h)
    <3>1. Concerns(ops[Max(events)], h)
      BY <2>4 DEF events
    <3>2. QED
      BY <1>2, <2>5, <3>1
  <2> HIDE DEF m
  <2>7. callbacks[m].op = "hidMount" <=> h.dev \in up
    <3>1. callbacks[m].op \in HidOps /\ callbacks[m].hid = h
      BY <2>6 DEF Concerns, HidOps
    <3>2. QED
      BY <2>5, <3>1 DEF OneCall, n
  <2>8. QED
    BY <1>3, <1>5, <2>3, <2>6, <2>7
<1>6. CASE ~Called(h)
  <2>1. \A i \in 1..n : ~Concerns(callbacks[i], h)
    BY <1>6 DEF Called, n
  <2>2. \A i \in 1..k + n : Concerns(ops[i], h) => i <= k
    <3> SUFFICES ASSUME NEW i \in 1..k + n, Concerns(ops[i], h), ~(i <= k) PROVE FALSE
      OBVIOUS
    <3>1. i - k \in 1..n /\ ops[i] = callbacks[i - k]
      BY <1>1, <1>2
    <3>2. QED
      BY <2>1, <3>1
  <2>3. events = EventsIn(actions, k, h)
    <3>1. \A i \in 1..k : i \in 1..k + n /\ ops[i] = actions[i]
      BY <1>1, <1>2
    <3>2. \A i \in 1..k + n : Concerns(ops[i], h) => i \in 1..k
      BY <1>1, <2>2
    <3>3. QED
      BY <1>2, <3>1, <3>2 DEF EventsIn
  <2>4. events # {} => ops[Max(events)] = actions[Max(events)]
    <3> SUFFICES ASSUME events # {} PROVE ops[Max(events)] = actions[Max(events)]
      OBVIOUS
    <3>1. events \in SUBSET (1..k)
      BY <2>3 DEF EventsIn
    <3> HIDE DEF events
    <3>2. Max(events) \in 1..k
      BY <1>1, <3>1, FirstAndLast
    <3>3. QED
      BY <1>1, <1>2, <3>2
  <2>5. QED
    BY <1>3, <1>6, <2>3, <2>4 DEF InTable, k
<1>7. QED
  BY <1>5, <1>6

LEMMA FollowsHost == TypeOK /\ OneCall /\ NotTwice /\ NotMissed => TableFollowsHost
<1> SUFFICES ASSUME TypeOK, OneCall, NotTwice, NotMissed, NEW h \in Hid
             PROVE  (InTableSoon(h) <=> h.dev \in up) /\ Cardinality(SlotsOf(table, h)) <= 1
  BY DEF TableFollowsHost
<1>1. Cardinality(SlotsOf(table, h)) <= 1
  BY OneSlot DEF NotTwice
<1>2. InTableSoon(h) <=> h.dev \in up
  BY SoonIsInTable DEF NotTwice, GoneSoon, NotMissed
<1>3. QED
  BY <1>1, <1>2

(* Once core 0 has handled what is queued the table of hid_manager.c holds    *)
(* each interface of the devices that are plugged in, once, and no other,     *)
(* however often devices came and went while it was behind: as long as the    *)
(* action queue and the table have room.                                    *)
THEOREM TableFollows == Spec /\ []ActionRoom /\ []TableRoom => []TableFollowsHost
<1> DEFINE I == TypeOK /\ OneCall /\ NotTwice /\ NotMissed
           Room == ActionRoom /\ TableRoom
<1>1. Init => I
  BY InitHotplug
<1>2. I /\ Room /\ [Next]_vars => I'
  BY NextTypes, NextOneCall, NextNotTwice, NextNotMissed
<1>3. I => TableFollowsHost
  BY FollowsHost
<1>4. QED
  BY <1>1, <1>2, <1>3, PTL DEF Spec

-----------------------------------------------------------------------------
(* The settings a keyboard shows.                                          *)

Shown(t, a, sv, as, s) ==
  LET mine == sv[a[t[s].dev]][s].report IN mine # None => as[t[s]].report \in {None, mine}

LEMMA LedsShown ==
  /\ LedsFollowActive <=> \A s \in EnabledSlots(table) : Shown(table, active, saved, asked, s)
  /\ LedsFollowActive' <=> \A s \in EnabledSlots(table') : Shown(table', active', saved', asked', s)
BY DEF LedsFollowActive, Shown

LEMMA SlotAlone ==
  ASSUME TypeOK, Single, NEW s \in EnabledSlots(table)
  PROVE  /\ s \in Slot /\ table[s] \in Hid /\ SlotsOf(table, table[s]) # {}
         /\ Min(SlotsOf(table, table[s])) = s
<1>1. s \in Slot /\ table[s] \in Hid
  BY DEF EnabledSlots, TypeOK, Table
<1>2. s \in SlotsOf(table, table[s]) /\ \A r \in SlotsOf(table, table[s]) : r = s
  BY <1>1, NamesAssumption DEF SlotsOf, Single, EnabledSlots
<1>3. Min(SlotsOf(table, table[s])) \in SlotsOf(table, table[s])
  BY <1>2, MinOfSlots DEF SlotsOf
<1>4. QED
  BY <1>1, <1>2, <1>3

LEMMA SetActiveShows ==
  ASSUME TypeOK, Single, LedsFollowActive, NEW c \in Computer, NEW ds, SetActive(c, ds),
         NEW s \in EnabledSlots(table)
  PROVE  Shown(table, active', saved, asked', s)
<1> DEFINE h == table[s]
<1>1. s \in Slot /\ h \in Hid /\ h.dev \in Device
  BY SlotAlone DEF Hid
<1>2. SlotsOf(table, h) # {} /\ Min(SlotsOf(table, h)) = s
  BY SlotAlone
<1>3. Shown(table, active, saved, asked, s)
  BY LedsShown
<1>4. active'[h.dev] = IF h.dev \in ds THEN c ELSE active[h.dev]
  BY <1>1 DEF SetActive
<1>5. CASE h.dev \in ds
  <2> DEFINE mine == saved[c][s]
  <2>1. asked'[h] = [protocol |-> mine.protocol,
                     report |-> IF mine.report = None THEN asked[h].report ELSE mine.report]
    BY <1>1, <1>2, <1>5 DEF SetActive, Restored
  <2> HIDE DEF mine
  <2>2. mine.report # None => asked'[h].report = mine.report
    BY <2>1
  <2>3. QED
    BY <1>4, <1>5, <2>2 DEF Shown, mine
<1>6. CASE h.dev \notin ds
  <2>1. asked'[h] = asked[h]
    BY <1>1, <1>6 DEF SetActive, Restored
  <2>2. QED
    BY <1>3, <1>4, <1>6, <2>1 DEF Shown
<1>7. QED
  BY <1>5, <1>6

LEMMA SettingShows ==
  ASSUME TypeOK, Single, LedsFollowActive, ComputerSetting, NEW s \in EnabledSlots(table)
  PROVE  Shown(table, active, saved', asked', s)
<1> DEFINE a == Head(actions)
           g == table[a.slot]
           h == table[s]
           c == active[h.dev]
<1>1. /\ a.computer \in Computer /\ a.slot \in Slot /\ a.kind \in Kind /\ a.value \in Value
      /\ saved' = [saved EXCEPT ![a.computer][a.slot][a.kind] = a.value]
      /\ asked' = IF g # None /\ ForwardsSetting(a.computer, g)
                  THEN [asked EXCEPT ![g][a.kind] = a.value] ELSE asked
  <2>1. Take("set")
    BY DEF ComputerSetting
  <2>2. a \in Action /\ a.op = "set"
    BY <2>1, TakeFacts
  <2>3. QED
    BY <2>2, ActionsRead DEF ComputerSetting
<1>2. /\ s \in Slot /\ h \in Hid /\ h.dev \in Device /\ c \in Computer
      /\ saved \in [Computer -> [Slot -> Setting]] /\ asked \in [Hid -> Setting]
  BY SlotAlone DEF Hid, TypeOK
<1>3. Shown(table, active, saved, asked, s)
  BY LedsShown
<1>4. g # None => g \in Hid /\ (g = h => a.slot = s)
  BY <1>1 DEF TypeOK, Table, Single, EnabledSlots
<1>5. c = active[h.dev] /\ h = table[s] /\ (ForwardsSetting(a.computer, g) <=> active[g.dev] = a.computer)
  BY DEF ForwardsSetting
<1>6. s = a.slot => g = h
  OBVIOUS
<1>7. h # None
  BY DEF EnabledSlots
<1> HIDE DEF a, g, h, c
<1>8. /\ saved[c][s] \in Setting /\ asked[h] \in Setting
      /\ saved'[c][s] = IF c = a.computer /\ s = a.slot
                        THEN [saved[c][s] EXCEPT ![a.kind] = a.value] ELSE saved[c][s]
      /\ asked'[h] = IF g = h /\ active[g.dev] = a.computer
                     THEN [asked[h] EXCEPT ![a.kind] = a.value] ELSE asked[h]
  <2>1. saved[c][s] \in Setting /\ asked[h] \in Setting
    BY <1>2
  <2>2. saved'[c][s] = IF c = a.computer /\ s = a.slot
                        THEN [saved[c][s] EXCEPT ![a.kind] = a.value] ELSE saved[c][s]
    BY <1>1, <1>2
  <2>3. asked'[h] = IF g = h /\ active[g.dev] = a.computer
                    THEN [asked[h] EXCEPT ![a.kind] = a.value] ELSE asked[h]
    BY <1>1, <1>2, <1>4, <1>5, <1>7
  <2>4. QED
    BY <2>1, <2>2, <2>3
<1>9. CASE s = a.slot /\ c = a.computer
  <2>1. /\ saved'[c][s] = [saved[c][s] EXCEPT ![a.kind] = a.value]
        /\ asked'[h] = [asked[h] EXCEPT ![a.kind] = a.value]
    BY <1>5, <1>6, <1>8, <1>9
  <2>2. /\ saved'[c][s].report = IF a.kind = "report" THEN a.value ELSE saved[c][s].report
        /\ asked'[h].report = IF a.kind = "report" THEN a.value ELSE asked[h].report
    BY <1>1, <1>8, <2>1, SettingChanged
  <2>3. QED
    BY <1>3, <1>5, <2>2 DEF Shown
<1>10. CASE ~(s = a.slot /\ c = a.computer)
  <2>1. saved'[c][s] = saved[c][s] /\ asked'[h] = asked[h]
    BY <1>4, <1>5, <1>7, <1>8, <1>10
  <2>2. QED
    BY <1>3, <1>5, <2>1 DEF Shown
<1>11. QED
  BY <1>9, <1>10

LEMMA NextLeds == TypeOK /\ NotTwice /\ LedsFollowActive /\ [Next]_vars => LedsFollowActive'
<1> USE DEF hostVars, switchVars, linkVars, computerVars
<1> SUFFICES ASSUME TypeOK, NotTwice, LedsFollowActive, [Next]_vars, NEW s \in EnabledSlots(table')
             PROVE  Shown(table', active', saved', asked', s)
  BY LedsShown
<1>0. /\ Single /\ \A r \in EnabledSlots(table) : Shown(table, active, saved, asked, r)
      /\ saved \in [Computer -> [Slot -> Setting]] /\ active \in [Device -> Computer]
      /\ table \in Table /\ asked \in [Hid -> Setting]
  BY LedsShown DEF NotTwice, TypeOK
<1>1. CASE UNCHANGED <<active, saved, asked>> /\ Shrinks
  BY <1>0, <1>1 DEF Shrinks, Shown
<1>2. CASE HidUmount
  <2>1. Shrinks /\ UNCHANGED <<active, saved, asked>>
    BY <1>2, TableShrinks DEF HidUmount
  <2>2. QED
    BY <1>1, <2>1
<1>3. CASE HidMount
  <2> DEFINE g == Head(actions).hid
             r == Min(FreeSlots)
  <2>1. g \in Hid /\ SlotsOf(table, g) = {}
    BY <1>3, FirstFresh
  <2>2. UNCHANGED <<active, saved>>
    BY <1>3 DEF HidMount
  <2>3. CASE FreeSlots = {}
    <3>1. UNCHANGED <<table, asked>>
      BY <1>3, <2>3 DEF HidMount
    <3>2. QED
      BY <1>1, <2>2, <3>1, TableShrinks
  <2>4. CASE FreeSlots # {}
    <3>1. r \in Slot
      BY <2>4, MinOfSlots DEF FreeSlots
    <3>2. table' = [table EXCEPT ![r] = g] /\ asked' = [asked EXCEPT ![g] = Fresh]
      BY <1>3, <2>4 DEF HidMount
    <3> HIDE DEF g, r
    <3>3. CASE s = r
      <4>1. table'[s] = g /\ asked'[g] = Fresh
        BY <1>0, <2>1, <3>1, <3>2, <3>3 DEF Table
      <4>2. QED
        BY <4>1 DEF Shown, Fresh
    <3>4. CASE s # r
      <4>1. s \in EnabledSlots(table) /\ table'[s] = table[s]
        BY <1>0, <3>1, <3>2, <3>4 DEF Table, EnabledSlots
      <4>2. table[s] # g /\ table[s] \in Hid
        BY <1>0, <2>1, <4>1 DEF SlotsOf, EnabledSlots, Table
      <4>3. asked'[table[s]] = asked[table[s]]
        BY <1>0, <3>2, <4>2
      <4>4. QED
        BY <1>0, <2>2, <4>1, <4>3 DEF Shown
    <3>5. QED
      BY <3>3, <3>4
  <2>5. QED
    BY <2>3, <2>4
<1>4. CASE HidReport
  <2> DEFINE key == Head(actions).key
  <2>1. UNCHANGED <<table, saved>>
    BY <1>4 DEF HidReport
  <2>2. CASE UNCHANGED <<active, asked>>
    BY <1>1, <2>1, <2>2, TableShrinks
  <2>3. CASE key \in Shortcut /\ ExecuteShortcut(key)
    <3>1. PICK c \in Computer : \E ds : SetActive(c, ds)
      BY <2>3, ShortcutSets
    <3>2. QED
      BY <1>0, <2>1, <3>1, SetActiveShows
  <2>4. QED
    BY <1>4, <2>2, <2>3 DEF HidReport
<1>5. CASE ComputerSetting
  <2>1. UNCHANGED <<table, active>>
    BY <1>5 DEF ComputerSetting
  <2>2. QED
    BY <1>0, <1>5, <2>1, SettingShows
<1>6. ASSUME NEW c \in Computer, InitComputer(c), UNCHANGED <<table, active, asked>>
      PROVE  Shown(table', active', saved', asked', s)
  <2>1. /\ s \in EnabledSlots(table) /\ s \in Slot /\ Fresh.report = None
        /\ table[s].dev \in Device
    BY <1>0, <1>6 DEF EnabledSlots, Fresh, Table, Hid
  <2>2. active[table[s].dev] \in Computer
    BY <1>0, <2>1
  <2>3. CASE active[table[s].dev] = c
    <3>1. saved'[c][s] = Fresh
      BY <1>0, <1>6, <2>1 DEF InitComputer
    <3>2. QED
      BY <1>6, <2>1, <2>3, <3>1 DEF Shown
  <2>4. CASE active[table[s].dev] # c
    <3>1. saved'[active[table[s].dev]] = saved[active[table[s].dev]]
      BY <1>0, <1>6, <2>2, <2>4 DEF InitComputer
    <3>2. QED
      BY <1>0, <1>6, <2>1, <3>1 DEF Shown
  <2>5. QED
    BY <2>3, <2>4
<1>7. CASE UsbDeviceMounted
  <2>1. InitComputer(Local) /\ UNCHANGED <<table, active, asked>>
    BY <1>7 DEF UsbDeviceMounted
  <2>2. Local \in Computer
    BY KvmAssumption DEF Local, Computer
  <2>3. QED
    BY <1>6, <2>1, <2>2
<1>8. ASSUME NEW n \in Node, CtrlHandles(n) PROVE Shown(table', active', saved', asked', s)
  <2>1. UNCHANGED <<table, active, asked>>
    BY <1>8 DEF CtrlHandles
  <2>2. InitComputer(n) \/ UNCHANGED saved
    BY <1>8 DEF CtrlHandles
  <2>3. n \in Computer
    BY DEF Node
  <2>4. QED
    BY <1>1, <1>6, <2>1, <2>2, <2>3, TableShrinks
<1>9. CASE Core1 \/ DeviceMounted \/ DeviceUnmounted \/ ComputerReady \/ StartUsbDevices
           \/ (\E n \in Node : NodeHandles(n) \/ NodeRestart(n))
           \/ (\E c \in Computer : Enumerate(c)) \/ UNCHANGED vars
           \/ (\E c \in Computer, r \in Slot, k \in Kind, v \in Value : ComputerSets(c, r, k, v))
  <2>1. UNCHANGED <<table, active, saved, asked>>
    BY <1>9 DEF Core1, vars, Plug, Unplug, HostCallback, HostReport, DeviceMounted,
       DeviceUnmounted, ComputerReady, StartUsbDevices, NodeHandles, NodeRestart, Enumerate,
       ComputerSets
  <2>2. QED
    BY <1>1, <2>1, TableShrinks
<1> HIDE DEF hostVars, switchVars, linkVars, computerVars
<1>10. QED
  BY <1>2, <1>3, <1>4, <1>5, <1>7, <1>8, <1>9 DEF Next, Task

(* The report last asked of an interface, its LEDs, is what its active        *)
(* computer has saved (kvm_switch_controller.c restores it on every switch     *)
(* and forwards only what the active computer sets), for any shortcuts,        *)
(* computers and devices; an interface registered twice would break it, and    *)
(* with room in the action queue there is none.  It says nothing of the        *)
(* protocol an interface is asked for.                                      *)
THEOREM LedsRight == Spec /\ []ActionRoom => []LedsFollowActive
<1> DEFINE I == TypeOK /\ OneCall /\ NotTwice /\ LedsFollowActive
<1>1. Init => LedsFollowActive
  BY DEF Init, LedsFollowActive, EnabledSlots, NoHid
<1>2. Init => I
  BY <1>1, InitHotplug
<1>3. I /\ ActionRoom /\ [Next]_vars => I'
  BY NextTypes, NextOneCall, NextNotTwice, NextLeds
<1>4. QED
  BY <1>2, <1>3, PTL DEF Spec

-----------------------------------------------------------------------------
(* device_mounted_count.                                                   *)

(* How many of the first k actions are op.                                  *)
UpTo(q, k, op) == Cardinality({i \in 1..k : q[i].op = op})
One(a, op) == IF a.op = op THEN 1 ELSE 0

LEMMA UpToNat ==
  ASSUME NEW q, NEW k \in Nat, NEW op
  PROVE  IsFiniteSet({i \in 1..k : q[i].op = op}) /\ UpTo(q, k, op) \in Nat
<1> DEFINE S == {i \in 1..k : q[i].op = op}
<1>1. IsFiniteSet(1..k) /\ S \in SUBSET (1..k)
  BY FS_Interval
<1>2. IsFiniteSet(S)
  BY <1>1, FS_Subset
<1>3. Cardinality(S) \in Nat
  BY <1>2, FS_CardinalityType
<1>4. QED
  BY <1>2, <1>3 DEF UpTo

LEMMA UpToNone ==
  ASSUME NEW q, NEW k \in Nat, NEW op, \A i \in 1..k : q[i].op # op
  PROVE  UpTo(q, k, op) = 0
<1>1. {i \in 1..k : q[i].op = op} = {}
  OBVIOUS
<1>2. QED
  BY <1>1, FS_EmptySet DEF UpTo

LEMMA UpToExtend ==
  ASSUME NEW p, NEW q, NEW k \in Nat, NEW n \in Nat, NEW op, k <= n,
         \A i \in 1..k : p[i] = q[i],
         \A i \in 1..n : i > k => p[i].op # op
  PROVE  UpTo(p, n, op) = UpTo(q, k, op)
<1>1. {i \in 1..n : p[i].op = op} = {i \in 1..k : q[i].op = op}
  OBVIOUS
<1>2. QED
  BY <1>1 DEF UpTo

LEMMA UpToStep ==
  ASSUME NEW q, NEW k \in Nat, NEW op
  PROVE  UpTo(q, k + 1, op) = UpTo(q, k, op) + One(q[k + 1], op)
<1> DEFINE S == {i \in 1..k : q[i].op = op}
           T == {i \in 1..k + 1 : q[i].op = op}
<1>1. IsFiniteSet(S) /\ UpTo(q, k, op) = Cardinality(S) /\ Cardinality(S) \in Nat
      /\ UpTo(q, k + 1, op) = Cardinality(T)
  <2>1. UpTo(q, k, op) = Cardinality(S)
    BY DEF UpTo
  <2>2. UpTo(q, k + 1, op) = Cardinality(T)
    BY DEF UpTo
  <2>3. IsFiniteSet(S) /\ UpTo(q, k, op) \in Nat
    BY UpToNat
  <2>4. QED
    BY <2>1, <2>2, <2>3
<1>2. k + 1 \notin S
  OBVIOUS
<1>3. CASE q[k + 1].op = op
  <2>1. T = S \cup {k + 1}
    BY <1>3
  <2> HIDE DEF S, T
  <2>2. Cardinality(T) = Cardinality(S) + 1
    BY <1>1, <1>2, <2>1, FS_AddElement
  <2>3. QED
    BY <1>1, <1>3, <2>2 DEF One
<1>4. CASE q[k + 1].op # op
  <2>1. T = S
    BY <1>4
  <2> HIDE DEF S, T
  <2>2. QED
    BY <1>1, <1>4, <2>1 DEF One
<1>5. QED
  BY <1>3, <1>4

LEMMA UpToTaken ==
  ASSUME NEW p, NEW q, NEW n \in Nat, NEW op,
         \A i \in 1..n : p[i] = q[i + 1], NEW m \in 0..n
  PROVE  UpTo(q, m + 1, op) = UpTo(p, m, op) + One(q[1], op)
<1> DEFINE Shifted(k) == UpTo(q, k + 1, op) = UpTo(p, k, op) + One(q[1], op)
           T == {k \in Nat : k <= n => Shifted(k)}
<1>1. 0 \in T
  <2>1. 1..0 = {}
    OBVIOUS
  <2>2. UpTo(p, 0, op) = 0 /\ UpTo(q, 0, op) = 0
    BY <2>1, UpToNone
  <2>3. UpTo(q, 0 + 1, op) = UpTo(q, 0, op) + One(q[0 + 1], op)
    BY UpToStep
  <2>4. QED
    BY <2>2, <2>3
<1>2. ASSUME NEW k \in Nat, k \in T PROVE k + 1 \in T
  <2> SUFFICES ASSUME k + 1 <= n PROVE Shifted(k + 1)
    OBVIOUS
  <2>1. Shifted(k) /\ p[k + 1] = q[(k + 1) + 1] /\ k + 1 \in Nat
    BY <1>2
  <2>2. UpTo(p, k + 1, op) = UpTo(p, k, op) + One(p[k + 1], op)
    BY UpToStep
  <2>3. UpTo(q, (k + 1) + 1, op) = UpTo(q, k + 1, op) + One(q[(k + 1) + 1], op)
    BY <2>1, UpToStep
  <2>4. UpTo(p, k, op) \in Nat /\ One(q[1], op) \in Nat /\ One(p[k + 1], op) \in Nat
    BY UpToNat DEF One
  <2>5. QED
    BY <2>1, <2>2, <2>3, <2>4
<1> HIDE DEF T
<1>3. Nat \subseteq T
  BY <1>1, <1>2, NatSetInduction
<1>4. m \in T /\ m <= n
  BY <1>3
<1>5. QED
  BY <1>4 DEF T

M(k) == UpTo(actions, k, "deviceMounted")
U(k) == UpTo(actions, k, "deviceUnmounted")
Calls(op) == UpTo(callbacks, Len(callbacks), op)

(* At no point of the queue does the count leave 0..MaxHidDevice, so that it  *)
(* never wraps; one device event is called back at a time.                  *)
NeverWraps ==
  \A k \in 0..Len(actions) :
    U(k) <= mountedCount + M(k) /\ mountedCount + M(k) <= U(k) + MaxHidDevice
CountInv ==
  /\ Calls("deviceMounted") + Calls("deviceUnmounted") <= 1
  /\ NeverWraps
  /\ mountedCount + M(Len(actions)) + Calls("deviceMounted")
       = Cardinality(up) + U(Len(actions)) + Calls("deviceUnmounted")

LEMMA CountTypes ==
  ASSUME TypeOK
  PROVE  /\ \A k \in Nat : M(k) \in Nat /\ U(k) \in Nat
         /\ Calls("deviceMounted") \in Nat /\ Calls("deviceUnmounted") \in Nat
         /\ IsFiniteSet(up) /\ Cardinality(up) \in Nat /\ Cardinality(up) <= MaxHidDevice
         /\ MaxHidDevice \in 1..255 /\ mountedCount \in 0..255
         /\ Len(actions) \in Nat /\ Len(callbacks) \in Nat
<1>1. Len(actions) \in Nat /\ Len(callbacks) \in Nat /\ mountedCount \in 0..255
  BY DEF TypeOK
<1>2. \A k \in Nat : M(k) \in Nat /\ U(k) \in Nat
  BY UpToNat DEF M, U
<1>3. Calls("deviceMounted") \in Nat /\ Calls("deviceUnmounted") \in Nat
  BY <1>1, UpToNat DEF Calls
<1>4. MaxHidDevice \in 1..255
  BY KvmAssumption
<1>5. IsFiniteSet(Device) /\ Cardinality(Device) = MaxHidDevice
  <2>1. 1 \in Int /\ MaxHidDevice \in Int /\ ~(1 > MaxHidDevice)
        /\ (MaxHidDevice - 1) + 1 = MaxHidDevice
    BY <1>4
  <2>2. /\ IsFiniteSet(1..MaxHidDevice)
        /\ Cardinality(1..MaxHidDevice) = IF 1 > MaxHidDevice THEN 0 ELSE (MaxHidDevice - 1) + 1
    BY <2>1, FS_Interval
  <2>3. QED
    BY <2>1, <2>2 DEF Device
<1>6. IsFiniteSet(up) /\ Cardinality(up) <= MaxHidDevice
  BY <1>5, FS_Subset DEF TypeOK
<1>7. QED
  BY <1>1, <1>2, <1>3, <1>4, <1>6, FS_CardinalityType

LEMMA PlugCount ==
  ASSUME TypeOK, CountInv, NEW d \in Device, Plug(d)
  PROVE  CountInv'
<1> DEFINE c == callbacks'
           i0 == MaxInterface
<1>1. /\ Len(c) = i0 + 1 /\ c[i0 + 1] = [op |-> "deviceMounted"] /\ i0 \in Nat
      /\ \A i \in 1..i0 : c[i] = [op |-> "hidMount", hid |-> [dev |-> d, itf |-> i - 1]]
  BY PlugCallbacks, KvmAssumption
<1>2. /\ callbacks = << >> /\ d \notin up /\ up' = up \cup {d}
      /\ UNCHANGED <<actions, mountedCount>>
  BY DEF Plug, switchVars
<1> HIDE DEF c, i0
<1>3. ASSUME NEW op, op # "hidMount" PROVE UpTo(c, i0 + 1, op) = One([op |-> "deviceMounted"], op)
  <2>1. ASSUME NEW i \in 1..i0 PROVE c[i].op # op
    <3>1. c[i] = [op |-> "hidMount", hid |-> [dev |-> d, itf |-> i - 1]]
      BY <1>1
    <3>2. QED
      BY <1>3, <3>1
  <2>2. UpTo(c, i0, op) = 0
    BY <1>1, <2>1, UpToNone
  <2>3. UpTo(c, i0 + 1, op) = UpTo(c, i0, op) + One(c[i0 + 1], op)
    BY <1>1, UpToStep
  <2>4. QED
    BY <1>1, <2>2, <2>3 DEF One
<1>4. Calls("deviceMounted")' = 1 /\ Calls("deviceUnmounted")' = 0
  BY <1>1, <1>3 DEF Calls, One, c
<1>5. Calls("deviceMounted") = 0 /\ Calls("deviceUnmounted") = 0
  <2>1. Len(callbacks) = 0 /\ 1..0 = {}
    BY <1>2
  <2>2. QED
    BY <2>1, UpToNone DEF Calls
<1>6. Cardinality(up') = Cardinality(up) + 1
  BY <1>2, CountTypes, FS_AddElement
<1>7. \A k : M(k)' = M(k) /\ U(k)' = U(k)
  BY <1>2 DEF M, U
<1>8. NeverWraps'
  BY <1>2, <1>7 DEF CountInv, NeverWraps
<1>9. mountedCount' + M(Len(actions))' + Calls("deviceMounted")'
        = Cardinality(up)' + U(Len(actions))' + Calls("deviceUnmounted")'
  <2> DEFINE m == M(Len(actions))
             u == U(Len(actions))
             n == Cardinality(up)
  <2>1. m \in Nat /\ u \in Nat /\ n \in Nat /\ mountedCount \in 0..255
    BY CountTypes
  <2>2. mountedCount + m + 0 = n + u + 0
    BY <1>5 DEF CountInv
  <2>3. M(Len(actions))' = m /\ U(Len(actions))' = u /\ mountedCount' = mountedCount
    BY <1>2, <1>7
  <2>4. Cardinality(up)' = n + 1
    BY <1>6
  <2> HIDE DEF m, u, n
  <2>5. QED
    BY <1>4, <2>1, <2>2, <2>3, <2>4
<1>10. QED
  BY <1>4, <1>8, <1>9 DEF CountInv

LEMMA UnplugCount ==
  ASSUME TypeOK, CountInv, NEW d \in Device, Unplug(d)
  PROVE  CountInv'
<1> DEFINE c == callbacks'
           i0 == MaxInterface
<1>1. /\ Len(c) = i0 + 1 /\ c[1] = [op |-> "deviceUnmounted"] /\ i0 \in Nat
      /\ \A i \in 1..i0 : c[i + 1] = [op |-> "hidUmount", hid |-> [dev |-> d, itf |-> i - 1]]
  BY UnplugCallbacks, KvmAssumption
<1>2. /\ callbacks = << >> /\ d \in up /\ up' = up \ {d}
      /\ UNCHANGED <<actions, mountedCount>>
  BY DEF Unplug, switchVars
<1> HIDE DEF c, i0
<1>3. ASSUME NEW op, op # "hidUmount"
      PROVE  UpTo(c, i0 + 1, op) = One([op |-> "deviceUnmounted"], op)
  <2>1. \A i \in 1..i0 + 1 : i > 1 => i - 1 \in 1..i0 /\ (i - 1) + 1 = i
    BY <1>1
  <2>2. ASSUME NEW i \in 1..i0 + 1, i > 1 PROVE c[i].op # op
    <3>1. i - 1 \in 1..i0 /\ (i - 1) + 1 = i
      BY <2>1, <2>2
    <3>2. c[(i - 1) + 1] = [op |-> "hidUmount", hid |-> [dev |-> d, itf |-> (i - 1) - 1]]
      BY <1>1, <3>1
    <3>3. c[i].op = "hidUmount"
      BY <3>1, <3>2
    <3>4. QED
      BY <1>3, <3>3
  <2>3. 1 \in Nat /\ i0 + 1 \in Nat /\ 1 <= i0 + 1 /\ \A i \in 1..1 : c[i] = c[i]
    BY <1>1
  <2>4. UpTo(c, i0 + 1, op) = UpTo(c, 1, op)
    BY <2>2, <2>3, UpToExtend
  <2>5. UpTo(c, 0, op) = 0
    <3>1. 1..0 = {}
      OBVIOUS
    <3>2. QED
      BY <3>1, UpToNone
  <2>6. UpTo(c, 0 + 1, op) = UpTo(c, 0, op) + One(c[0 + 1], op)
    BY UpToStep
  <2>7. One(c[1], op) \in Nat
    BY DEF One
  <2>8. QED
    BY <1>1, <2>4, <2>5, <2>6, <2>7
<1>4. Calls("deviceMounted")' = 0 /\ Calls("deviceUnmounted")' = 1
  BY <1>1, <1>3 DEF Calls, One, c
<1>5. Calls("deviceMounted") = 0 /\ Calls("deviceUnmounted") = 0
  <2>1. Len(callbacks) = 0 /\ 1..0 = {}
    BY <1>2
  <2>2. QED
    BY <2>1, UpToNone DEF Calls
<1>6. Cardinality(up') = Cardinality(up) - 1
  BY <1>2, CountTypes, FS_RemoveElement
<1>7. \A k : M(k)' = M(k) /\ U(k)' = U(k)
  BY <1>2 DEF M, U
<1>8. NeverWraps'
  BY <1>2, <1>7 DEF CountInv, NeverWraps
<1>9. mountedCount' + M(Len(actions))' + Calls("deviceMounted")'
        = Cardinality(up)' + U(Len(actions))' + Calls("deviceUnmounted")'
  <2> DEFINE m == M(Len(actions))
             u == U(Len(actions))
             n == Cardinality(up)
  <2>1. m \in Nat /\ u \in Nat /\ n \in Nat /\ mountedCount \in 0..255
    BY CountTypes
  <2>2. mountedCount + m + 0 = n + u + 0
    BY <1>5 DEF CountInv
  <2>3. M(Len(actions))' = m /\ U(Len(actions))' = u /\ mountedCount' = mountedCount
    BY <1>2, <1>7
  <2>4. Cardinality(up)' = n - 1
    BY <1>6
  <2> HIDE DEF m, u, n
  <2>5. QED
    BY <1>4, <2>1, <2>2, <2>3, <2>4
<1>10. QED
  BY <1>4, <1>8, <1>9 DEF CountInv

LEMMA HostCount ==
  ASSUME TypeOK, CountInv, ActionRoom, HostCallback
  PROVE  CountInv'
<1> DEFINE p == actions'
           c == callbacks'
           k == Len(actions)
           n == Len(c)
           a == callbacks[1]
           am == One(a, "deviceMounted")
           au == One(a, "deviceUnmounted")
           cm == Calls("deviceMounted")
           cu == Calls("deviceUnmounted")
<1>1. /\ k \in Nat /\ n \in Nat /\ Len(callbacks) = n + 1
      /\ a \in Action /\ p = Append(actions, a)
      /\ \A i \in 1..n : c[i] = callbacks[i + 1]
  <2>1. /\ Len(callbacks) \in Nat \ {0} /\ callbacks[1] \in Action
        /\ Len(actions) < ActionQueueSize => actions' = Append(actions, callbacks[1])
        /\ Len(callbacks') = Len(callbacks) - 1
        /\ \A i \in 1..Len(callbacks') : callbacks'[i] = callbacks[i + 1]
    BY CallbackFacts
  <2>2. k \in Nat
    BY DEF TypeOK
  <2>3. p = Append(actions, a)
    BY <2>1 DEF ActionRoom
  <2>4. n \in Nat /\ Len(callbacks) = n + 1
    BY <2>1
  <2>5. QED
    BY <2>1, <2>2, <2>3, <2>4
<1>2. UNCHANGED <<up, mountedCount>>
  BY DEF HostCallback, switchVars
<1>3. actions \in Seq(Action)
  BY DEF TypeOK
<1> HIDE DEF c, p, a
<1>4. Len(p) = k + 1 /\ p[k + 1] = a /\ \A i \in 1..k : p[i] = actions[i]
  BY <1>1, <1>3, AppendProperties
<1> HIDE DEF k, n, am, au, cm, cu
<1>5. ASSUME NEW op PROVE UpTo(callbacks, n + 1, op) = UpTo(c, n, op) + One(a, op)
  <2> DEFINE q == callbacks
  <2>1. n \in Nat /\ n \in 0..n
    BY <1>1
  <2>2. \A i \in 1..n : c[i] = q[i + 1]
    BY <1>1
  <2> HIDE DEF q
  <2>3. ASSUME NEW j \in 0..n PROVE UpTo(q, j + 1, op) = UpTo(c, j, op) + One(q[1], op)
    BY <2>1, <2>2, UpToTaken
  <2>4. QED
    BY <2>1, <2>3 DEF a, q
<1>6. ASSUME NEW op, NEW j \in 0..k PROVE UpTo(p, j, op) = UpTo(actions, j, op)
  <2>1. /\ j \in Nat /\ j <= j /\ \A i \in 1..j : p[i] = actions[i]
        /\ \A i \in 1..j : i > j => p[i].op # op
    BY <1>1, <1>4
  <2>2. QED
    BY <2>1, UpToExtend
<1>7. ASSUME NEW op PROVE UpTo(p, k + 1, op) = UpTo(actions, k, op) + One(a, op)
  <2>1. UpTo(p, k + 1, op) = UpTo(p, k, op) + One(p[k + 1], op)
    BY <1>1, UpToStep
  <2>2. k \in 0..k
    BY <1>1
  <2>3. QED
    BY <1>4, <1>6, <2>1, <2>2
<1>8. /\ cm \in Nat /\ cu \in Nat /\ mountedCount \in 0..255
      /\ Cardinality(up) \in Nat /\ Cardinality(up) <= MaxHidDevice /\ MaxHidDevice \in 1..255
      /\ M(k) \in Nat /\ U(k) \in Nat /\ am \in Nat /\ au \in Nat
  BY <1>1, CountTypes DEF cm, cu, am, au, One
<1>9. Calls("deviceMounted")' + am = cm /\ Calls("deviceMounted")' \in Nat
  <2>1. Calls("deviceMounted")' = UpTo(c, n, "deviceMounted")
    BY DEF Calls, c, n
  <2>2. cm = UpTo(callbacks, n + 1, "deviceMounted")
    BY <1>1 DEF Calls, cm
  <2>3. UpTo(c, n, "deviceMounted") \in Nat
    BY <1>1, UpToNat
  <2>4. UpTo(callbacks, n + 1, "deviceMounted") = UpTo(c, n, "deviceMounted") + am
    BY <1>5 DEF am
  <2>5. QED
    BY <2>1, <2>2, <2>3, <2>4, <1>8
<1>10. Calls("deviceUnmounted")' + au = cu /\ Calls("deviceUnmounted")' \in Nat
  <2>1. Calls("deviceUnmounted")' = UpTo(c, n, "deviceUnmounted")
    BY DEF Calls, c, n
  <2>2. cu = UpTo(callbacks, n + 1, "deviceUnmounted")
    BY <1>1 DEF Calls, cu
  <2>3. UpTo(c, n, "deviceUnmounted") \in Nat
    BY <1>1, UpToNat
  <2>4. UpTo(callbacks, n + 1, "deviceUnmounted") = UpTo(c, n, "deviceUnmounted") + au
    BY <1>5 DEF au
  <2>5. QED
    BY <2>1, <2>2, <2>3, <2>4, <1>8
<1>11. /\ cm + cu <= 1
       /\ mountedCount + M(k) + cm = Cardinality(up) + U(k) + cu
  BY DEF CountInv, cm, cu, k
<1>12. /\ UpTo(p, k + 1, "deviceMounted") = M(k) + am
       /\ UpTo(p, k + 1, "deviceUnmounted") = U(k) + au
  BY <1>7 DEF M, U, am, au
<1>13. NeverWraps'
  <2> SUFFICES ASSUME NEW j \in 0..k + 1
               PROVE  /\ UpTo(p, j, "deviceUnmounted") <= mountedCount + UpTo(p, j, "deviceMounted")
                      /\ mountedCount + UpTo(p, j, "deviceMounted")
                           <= UpTo(p, j, "deviceUnmounted") + MaxHidDevice
    BY <1>2, <1>4 DEF NeverWraps, M, U, p
  <2>1. CASE j \in 0..k
    <3>1. U(j) <= mountedCount + M(j) /\ mountedCount + M(j) <= U(j) + MaxHidDevice
      BY <2>1 DEF CountInv, NeverWraps, k
    <3>2. UpTo(p, j, "deviceUnmounted") = U(j) /\ UpTo(p, j, "deviceMounted") = M(j)
      BY <1>6, <2>1 DEF M, U
    <3>3. QED
      BY <3>1, <3>2
  <2>2. CASE j = k + 1
    <3>1. U(k) <= mountedCount + M(k) /\ mountedCount + M(k) <= U(k) + MaxHidDevice
      <4>1. k \in 0..Len(actions)
        BY <1>1 DEF k
      <4>2. QED
        BY <4>1 DEF CountInv, NeverWraps
    <3>2. am <= cm /\ au <= cu
      BY <1>8, <1>9, <1>10
    <3>3. \/ am = 0 /\ au = 0
          \/ am + au = 1 /\ am = cm /\ au = cu
      BY <1>8, <1>11, <3>2
    <3>4. /\ U(k) + au <= mountedCount + (M(k) + am)
          /\ mountedCount + (M(k) + am) <= (U(k) + au) + MaxHidDevice
      BY <1>8, <1>11, <3>1, <3>3
    <3>5. QED
      BY <1>12, <2>2, <3>4
  <2>3. QED
    BY <1>1, <2>1, <2>2
<1>14. mountedCount' + M(Len(actions))' + Calls("deviceMounted")'
         = Cardinality(up)' + U(Len(actions))' + Calls("deviceUnmounted")'
  <2>1. M(Len(actions))' = M(k) + am /\ U(Len(actions))' = U(k) + au
    BY <1>4, <1>12 DEF M, U, p
  <2>2. mountedCount' = mountedCount /\ Cardinality(up)' = Cardinality(up)
    BY <1>2
  <2>3. QED
    BY <1>8, <1>9, <1>10, <1>11, <2>1, <2>2, SMTT(20)
<1>15. Calls("deviceMounted")' + Calls("deviceUnmounted")' <= 1
  BY <1>8, <1>9, <1>10, <1>11
<1>16. QED
  BY <1>13, <1>14, <1>15 DEF CountInv

(* Taking an action counts what it was.                                     *)
LEMMA TakeCounts ==
  ASSUME TypeOK, NEW op, Take(op), NEW k \in 0..Len(actions')
  PROVE  /\ M(k + 1) = UpTo(actions', k, "deviceMounted") + One([op |-> op], "deviceMounted")
         /\ U(k + 1) = UpTo(actions', k, "deviceUnmounted") + One([op |-> op], "deviceUnmounted")
         /\ UpTo(actions', k, "deviceMounted") \in Nat
         /\ UpTo(actions', k, "deviceUnmounted") \in Nat
<1> DEFINE p == actions'
           n == Len(actions')
<1>1. n \in Nat /\ \A i \in 1..n : p[i] = actions[i + 1]
  BY TakeFacts
<1>2. actions[1].op = op
  BY TakeFacts
<1>3. k \in 0..n /\ k \in Nat
  BY <1>1
<1> HIDE DEF p, n
<1>4. ASSUME NEW o PROVE UpTo(actions, k + 1, o) = UpTo(p, k, o) + One([op |-> op], o)
  <2>1. UpTo(actions, k + 1, o) = UpTo(p, k, o) + One(actions[1], o)
    BY <1>1, <1>3, UpToTaken
  <2>2. One(actions[1], o) = One([op |-> op], o)
    BY <1>2 DEF One
  <2>3. QED
    BY <2>1, <2>2
<1>5. UpTo(p, k, "deviceMounted") \in Nat /\ UpTo(p, k, "deviceUnmounted") \in Nat
  BY <1>3, UpToNat
<1>6. QED
  BY <1>4, <1>5 DEF M, U, p

Counted(op) ==
  \/ op = "deviceMounted" /\ mountedCount' = (mountedCount + 1) % 256
  \/ op = "deviceUnmounted" /\ mountedCount' = (mountedCount + 255) % 256
  \/ op \notin {"deviceMounted", "deviceUnmounted"} /\ UNCHANGED mountedCount

LEMMA TakeCount ==
  ASSUME TypeOK, CountInv, NEW op, Take(op), UNCHANGED <<up, callbacks>>,
         Counted(op)
  PROVE  CountInv'
<1> DEFINE m(k) == UpTo(actions', k, "deviceMounted")
           u(k) == UpTo(actions', k, "deviceUnmounted")
           om == One([op |-> op], "deviceMounted")
           ou == One([op |-> op], "deviceUnmounted")
           n == Len(actions')
<1>1. Len(actions) \in Nat \ {0} /\ n = Len(actions) - 1 /\ n \in Nat /\ n + 1 = Len(actions)
  BY TakeFacts
<1>2. /\ op = "deviceMounted" => om = 1 /\ ou = 0
      /\ op = "deviceUnmounted" => om = 0 /\ ou = 1
      /\ op \notin {"deviceMounted", "deviceUnmounted"} => om = 0 /\ ou = 0
  BY DEF One
<1>3. ASSUME NEW k \in 0..n
      PROVE  M(k + 1) = m(k) + om /\ U(k + 1) = u(k) + ou /\ m(k) \in Nat /\ u(k) \in Nat
  BY TakeCounts
<1>4. /\ mountedCount \in 0..255 /\ MaxHidDevice \in 1..255 /\ Cardinality(up) \in Nat
      /\ Calls("deviceMounted") \in Nat /\ Calls("deviceUnmounted") \in Nat
  BY CountTypes
<1>5. ASSUME NEW k \in 0..n
      PROVE  /\ u(k) + ou <= mountedCount + (m(k) + om)
             /\ mountedCount + (m(k) + om) <= (u(k) + ou) + MaxHidDevice
  <2>1. k + 1 \in 0..Len(actions)
    BY <1>1
  <2>2. U(k + 1) <= mountedCount + M(k + 1) /\ mountedCount + M(k + 1) <= U(k + 1) + MaxHidDevice
    BY <2>1 DEF CountInv, NeverWraps
  <2>3. QED
    BY <1>3, <2>2
<1>6. m(0) = 0 /\ u(0) = 0 /\ 0 \in 0..n
  <2>1. 1..0 = {}
    OBVIOUS
  <2>2. QED
    BY <1>1, <2>1, UpToNone
<1> HIDE DEF m, u, om, ou, n
<1>7. mountedCount' + ou = mountedCount + om /\ mountedCount' \in Nat
  <2>1. ou <= mountedCount + om /\ mountedCount + om <= ou + MaxHidDevice
    <3>1. u(0) + ou <= mountedCount + (m(0) + om)
          /\ mountedCount + (m(0) + om) <= (u(0) + ou) + MaxHidDevice
      BY <1>5, <1>6
    <3>2. om \in Nat /\ ou \in Nat
      BY <1>2
    <3>3. QED
      BY <1>4, <1>6, <3>1, <3>2
  <2>2. CASE op = "deviceMounted" /\ mountedCount' = (mountedCount + 1) % 256
    <3>1. mountedCount + 1 \in 0..255
      BY <1>2, <1>4, <2>1, <2>2
    <3>2. mountedCount' = mountedCount + 1
      BY <2>2, <3>1
    <3>3. QED
      BY <1>2, <1>4, <2>2, <3>2
  <2>3. CASE op = "deviceUnmounted" /\ mountedCount' = (mountedCount + 255) % 256
    <3>1. mountedCount \in 1..255
      BY <1>2, <1>4, <2>1, <2>3
    <3>2. mountedCount' = mountedCount - 1
      BY <2>3, <3>1
    <3>3. QED
      BY <1>2, <1>4, <2>3, <3>1, <3>2
  <2>4. CASE op \notin {"deviceMounted", "deviceUnmounted"} /\ UNCHANGED mountedCount
    BY <1>2, <1>4, <2>4
  <2>5. QED
    BY <2>2, <2>3, <2>4 DEF Counted
<1>8. om \in Nat /\ ou \in Nat
  BY <1>2
<1>9. NeverWraps'
  <2> SUFFICES ASSUME NEW k \in 0..n
               PROVE  u(k) <= mountedCount' + m(k) /\ mountedCount' + m(k) <= u(k) + MaxHidDevice
    BY DEF NeverWraps, M, U, m, u, n
  <2>1. m(k) \in Nat /\ u(k) \in Nat
    BY <1>3
  <2>2. u(k) + ou <= mountedCount + (m(k) + om)
    BY <1>5
  <2>3. mountedCount + (m(k) + om) <= (u(k) + ou) + MaxHidDevice
    BY <1>5
  <2> DEFINE x == m(k)
             y == u(k)
  <2>4. mountedCount \in Nat /\ mountedCount' \in Nat /\ MaxHidDevice \in Nat
        /\ x \in Nat /\ y \in Nat
    BY <1>4, <1>7, <2>1
  <2>7. y + ou <= mountedCount + (x + om) /\ mountedCount + (x + om) <= (y + ou) + MaxHidDevice
    BY <2>2, <2>3
  <2> HIDE DEF x, y
  <2>5. y <= mountedCount' + x /\ mountedCount' + x <= y + MaxHidDevice
    <3>1. PICK e \in Nat : e = mountedCount'
      BY <2>4
    <3>2. PICK c \in Nat : c = mountedCount
      BY <2>4
    <3>3. e + ou = c + om /\ y + ou <= c + (x + om) /\ c + (x + om) <= (y + ou) + MaxHidDevice
      BY <1>7, <2>7, <3>1, <3>2
    <3>4. y <= e + x /\ e + x <= y + MaxHidDevice
      BY <1>8, <2>4, <3>3
    <3>5. QED
      BY <3>1, <3>4
  <2>6. QED
    BY <2>5 DEF x, y
<1>10. /\ Calls("deviceMounted")' = Calls("deviceMounted")
       /\ Calls("deviceUnmounted")' = Calls("deviceUnmounted") /\ Cardinality(up)' = Cardinality(up)
  BY DEF Calls
<1>11. mountedCount' + M(Len(actions))' + Calls("deviceMounted")'
         = Cardinality(up)' + U(Len(actions))' + Calls("deviceUnmounted")'
  <2>1. M(Len(actions))' = m(n) /\ U(Len(actions))' = u(n)
    BY DEF M, U, m, u, n
  <2>2. n \in 0..n /\ n + 1 = Len(actions)
    BY <1>1
  <2>3. /\ M(Len(actions)) = m(n) + om /\ U(Len(actions)) = u(n) + ou
        /\ m(n) \in Nat /\ u(n) \in Nat
    <3>1. M(n + 1) = m(n) + om /\ U(n + 1) = u(n) + ou /\ m(n) \in Nat /\ u(n) \in Nat
      BY <1>3, <2>2
    <3>2. QED
      BY <2>2, <3>1
  <2>4. mountedCount + M(Len(actions)) + Calls("deviceMounted")
          = Cardinality(up) + U(Len(actions)) + Calls("deviceUnmounted")
    BY DEF CountInv
  <2>5. QED
    <3> DEFINE x == m(n)
               y == u(n)
               a == Calls("deviceMounted")
               b == Calls("deviceUnmounted")
               w == Cardinality(up)
    <3>1. /\ x \in Nat /\ y \in Nat /\ a \in Nat /\ b \in Nat /\ w \in Nat
          /\ mountedCount \in Nat
          /\ mountedCount + (x + om) + a = w + (y + ou) + b
      BY <1>4, <2>3, <2>4
    <3>2. mountedCount' + M(Len(actions))' + Calls("deviceMounted")' = mountedCount' + x + a
          /\ Cardinality(up)' + U(Len(actions))' + Calls("deviceUnmounted")' = w + y + b
      BY <1>10, <2>1
    <3> HIDE DEF x, y, a, b, w
    <3>3. mountedCount' + x + a = w + y + b
      <4>1. PICK e \in Nat : e = mountedCount'
        BY <1>7
      <4>2. PICK c \in Nat : c = mountedCount
        BY <3>1
      <4>3. e + ou = c + om /\ c + (x + om) + a = w + (y + ou) + b
        BY <1>7, <3>1, <4>1, <4>2
      <4>4. e + x + a = w + y + b
        BY <1>8, <3>1, <4>3
      <4>5. QED
        BY <4>1, <4>4
    <3>4. QED
      BY <3>2, <3>3
<1>12. Calls("deviceMounted")' + Calls("deviceUnmounted")' <= 1
  BY <1>10 DEF CountInv
<1>13. QED
  BY <1>9, <1>11, <1>12 DEF CountInv

LEMMA QuietCount ==
  ASSUME TypeOK, TypeOK', CountInv, Quiet
  PROVE  CountInv'
<1> DEFINE p == actions'
           n == Len(actions')
           k == Len(actions)
<1>1. /\ k \in Nat /\ n \in Nat /\ k <= n /\ UNCHANGED <<up, callbacks, mountedCount>>
      /\ \A i \in 1..k : p[i] = actions[i]
      /\ \A i \in 1..n : i > k => p[i].op \notin HostOps
  BY DEF Quiet, TypeOK
<1>2. "deviceMounted" \in HostOps /\ "deviceUnmounted" \in HostOps
  BY DEF HostOps
<1> HIDE DEF p, n
<1>3. ASSUME NEW op \in HostOps, NEW j \in 0..n
      PROVE  UpTo(p, j, op) = UpTo(actions, IF j <= k THEN j ELSE k, op)
  <2> DEFINE i0 == IF j <= k THEN j ELSE k
  <2>1. j \in Nat /\ i0 \in Nat /\ i0 <= j
    BY <1>1
  <2>5. \A i \in 1..i0 : p[i] = actions[i]
    BY <1>1
  <2>2. \A i \in 1..j : i > i0 => p[i].op # op
    BY <1>1
  <2> HIDE DEF i0
  <2>3. UpTo(p, j, op) = UpTo(actions, i0, op)
    BY <2>1, <2>2, <2>5, UpToExtend
  <2>4. QED
    BY <2>3 DEF i0
<1>4. NeverWraps'
  <2> SUFFICES ASSUME NEW j \in 0..n
               PROVE  /\ UpTo(p, j, "deviceUnmounted") <= mountedCount + UpTo(p, j, "deviceMounted")
                      /\ mountedCount + UpTo(p, j, "deviceMounted")
                           <= UpTo(p, j, "deviceUnmounted") + MaxHidDevice
    BY <1>1 DEF NeverWraps, M, U, p, n
  <2> DEFINE i == IF j <= k THEN j ELSE k
  <2>1. i \in 0..k
    BY <1>1
  <2>2. UpTo(p, j, "deviceMounted") = M(i) /\ UpTo(p, j, "deviceUnmounted") = U(i)
    BY <1>2, <1>3 DEF M, U
  <2> HIDE DEF i
  <2>3. QED
    BY <2>1, <2>2 DEF CountInv, NeverWraps
<1>5. M(Len(actions))' = M(k) /\ U(Len(actions))' = U(k)
  <2>1. n \in 0..n /\ (IF n <= k THEN n ELSE k) = k
    BY <1>1
  <2>2. UpTo(p, n, "deviceMounted") = M(k) /\ UpTo(p, n, "deviceUnmounted") = U(k)
    BY <1>2, <1>3, <2>1 DEF M, U
  <2>3. QED
    BY <2>2 DEF M, U, p, n
<1>6. QED
  BY <1>1, <1>4, <1>5 DEF CountInv, Calls

LEMMA NextCount == TypeOK /\ CountInv /\ ActionRoom /\ [Next]_vars => CountInv'
<1> SUFFICES ASSUME TypeOK, CountInv, ActionRoom, [Next]_vars PROVE CountInv'
  OBVIOUS
<1>1. CASE DeviceMounted \/ DeviceUnmounted
  <2>1. /\ DeviceMounted => mountedCount' = (mountedCount + 1) % 256
        /\ DeviceUnmounted => mountedCount' = (mountedCount + 255) % 256
    BY DEF DeviceMounted, DeviceUnmounted
  <2>2. QED
    BY <1>1, <2>1, HostOpTakes, TakeCount DEF Counted
<1>2. CASE HidMount \/ HidUmount
  BY <1>2, HostOpTakes, TakeCount DEF Counted
<1>3. CASE ComputerReady /\ UNCHANGED <<up, callbacks, table, mountedCount>>
  BY <1>3, TakeCount DEF ComputerReady, Counted
<1>4. ASSUME NEW op, op \notin HostOps \cup {"computerReady"}, Take(op),
             UNCHANGED <<up, callbacks, table, mountedCount>>
      PROVE  CountInv'
  BY <1>4, TakeCount DEF HostOps, Counted
<1>5. CASE Quiet
  BY <1>5, NextTypes, QuietCount
<1>6. QED
  BY <1>1, <1>2, <1>3, <1>4, <1>5, PlugCount, UnplugCount, HostCount, ActionSteps

LEMMA InitCount == Init => CountInv
<1> SUFFICES ASSUME Init PROVE CountInv
  OBVIOUS
<1>1. /\ Len(actions) = 0 /\ Len(callbacks) = 0 /\ mountedCount = 0 /\ Cardinality(up) = 0
  BY FS_EmptySet DEF Init
<1>2. ASSUME NEW q, NEW op PROVE UpTo(q, 0, op) = 0
  <2>1. 1..0 = {}
    OBVIOUS
  <2>2. QED
    BY <2>1, UpToNone
<1>3. M(0) = 0 /\ U(0) = 0 /\ \A op : Calls(op) = 0
  BY <1>1, <1>2 DEF M, U, Calls
<1>4. MaxHidDevice \in Nat
  BY KvmAssumption
<1>5. NeverWraps
  BY <1>1, <1>3, <1>4 DEF NeverWraps
<1>6. QED
  BY <1>1, <1>3, <1>5 DEF CountInv

LEMMA CountedExact == TypeOK /\ CountInv => CountExact
<1> SUFFICES ASSUME TypeOK, CountInv PROVE CountExact
  OBVIOUS
<1>1. DOMAIN actions = 1..Len(actions) /\ DOMAIN callbacks = 1..Len(callbacks)
  BY DEF TypeOK
<1>2. /\ Queued("deviceMounted") = M(Len(actions)) + Calls("deviceMounted")
      /\ Queued("deviceUnmounted") = U(Len(actions)) + Calls("deviceUnmounted")
  BY <1>1 DEF Queued, CountOf, M, U, Calls, UpTo
<1>3. /\ M(Len(actions)) \in Nat /\ U(Len(actions)) \in Nat /\ mountedCount \in 0..255
      /\ Calls("deviceMounted") \in Nat /\ Calls("deviceUnmounted") \in Nat
      /\ Cardinality(up) \in Nat
  BY CountTypes
<1>4. mountedCount + M(Len(actions)) + Calls("deviceMounted")
        = Cardinality(up) + U(Len(actions)) + Calls("deviceUnmounted")
  BY DEF CountInv
<1>5. QED
  BY <1>2, <1>3, <1>4 DEF CountExact

(* device_mounted_count, the uint8_t on which kvm_switch_controller.c decides *)
(* to start the USB devices, is the number of devices that are plugged in,    *)
(* but for the events core 0 has yet to take from a queue with room; it never *)
(* wraps on the way, for up to 255 device addresses.                         *)
THEOREM CountRight == Spec /\ []ActionRoom => []CountExact
<1>1. Init => TypeOK /\ CountInv
  BY InitTypes, InitCount
<1>2. TypeOK /\ CountInv /\ ActionRoom /\ [Next]_vars => (TypeOK /\ CountInv)'
  BY NextTypes, NextCount
<1>3. TypeOK /\ CountInv => CountExact
  BY CountedExact
<1>4. QED
  BY <1>1, <1>2, <1>3, PTL DEF Spec

-----------------------------------------------------------------------------
(* The start of the USB devices that a new device asks for.                 *)

MountedAfter(q, i) == \E j \in 1..Len(q) : j > i /\ q[j].op = "deviceMounted"
StartComes == startDue \/ MountedAfter(actions, 0) \/ MountedAfter(callbacks, 0)

(* The mount of an interface comes before that of its device.               *)
MountsAnnounced ==
  /\ \A i \in 1..Len(actions) : actions[i].op = "hidMount" =>
       MountedAfter(actions, i) \/ MountedAfter(callbacks, 0)
  /\ \A i \in 1..Len(callbacks) : callbacks[i].op = "hidMount" => MountedAfter(callbacks, i)

LEMMA AfterKept ==
  ASSUME NEW p, NEW q, NEW i, Len(q) \in Nat, Len(p) \in Nat, Len(q) <= Len(p),
         \A j \in 1..Len(q) : p[j] = q[j], MountedAfter(q, i)
  PROVE  MountedAfter(p, i)
<1>1. PICK j \in 1..Len(q) : j > i /\ q[j].op = "deviceMounted"
  BY DEF MountedAfter
<1>2. j \in 1..Len(p) /\ p[j] = q[j]
  OBVIOUS
<1>3. QED
  BY <1>1, <1>2 DEF MountedAfter

LEMMA AfterShifted ==
  ASSUME NEW p, NEW q, NEW i \in Nat, Len(p) \in Nat, Len(q) = Len(p) + 1,
         \A j \in 1..Len(p) : p[j] = q[j + 1], MountedAfter(q, i),
         i > 0 \/ q[1].op # "deviceMounted"
  PROVE  MountedAfter(p, IF i = 0 THEN 0 ELSE i - 1)
<1>1. PICK j \in 1..Len(q) : j > i /\ q[j].op = "deviceMounted"
  BY DEF MountedAfter
<1>2. j # 1
  BY <1>1
<1>3. j - 1 \in 1..Len(p) /\ (j - 1) + 1 = j
  BY <1>2
<1>4. p[j - 1].op = "deviceMounted"
  BY <1>1, <1>3
<1>5. j - 1 > IF i = 0 THEN 0 ELSE i - 1
  BY <1>1, <1>3
<1>6. QED
  BY <1>3, <1>4, <1>5 DEF MountedAfter

LEMMA PlugStarts ==
  ASSUME NEW d \in Device, Plug(d)
  PROVE  /\ MountedAfter(callbacks', 0)
         /\ \A i \in 1..Len(callbacks') : callbacks'[i].op = "hidMount" => MountedAfter(callbacks', i)
<1> DEFINE c == callbacks'
           k == MaxInterface
<1>1. /\ Len(c) = k + 1 /\ c[k + 1] = [op |-> "deviceMounted"] /\ k \in Nat
  BY PlugCallbacks, KvmAssumption
<1> HIDE DEF c, k
<1>2. k + 1 \in 1..Len(c) /\ k + 1 > 0 /\ c[k + 1].op = "deviceMounted"
  BY <1>1
<1>3. MountedAfter(c, 0)
  BY <1>2 DEF MountedAfter
<1>4. ASSUME NEW i \in 1..Len(c), c[i].op = "hidMount" PROVE MountedAfter(c, i)
  <2>1. i # k + 1
    BY <1>2, <1>4
  <2>2. k + 1 > i
    BY <1>1, <2>1
  <2>3. QED
    BY <1>2, <2>2 DEF MountedAfter
<1>5. QED
  BY <1>3, <1>4 DEF c

(* The callback that comes first is queued, the others stay.                *)
LEMMA CallbackStarts ==
  ASSUME TypeOK, ActionRoom, HostCallback
  PROVE  /\ Len(actions) \in Nat /\ Len(actions') = Len(actions) + 1
         /\ actions'[Len(actions) + 1] = callbacks[1]
         /\ \A i \in 1..Len(actions) : actions'[i] = actions[i]
         /\ Len(callbacks') \in Nat /\ Len(callbacks) = Len(callbacks') + 1
         /\ \A i \in 1..Len(callbacks') : callbacks'[i] = callbacks[i + 1]
         /\ MountedAfter(callbacks, 0) =>
              MountedAfter(callbacks', 0) \/ callbacks[1].op = "deviceMounted"
<1>1. /\ callbacks[1] \in Action /\ actions' = Append(actions, callbacks[1])
      /\ Len(callbacks) \in Nat \ {0} /\ Len(callbacks') = Len(callbacks) - 1
      /\ \A i \in 1..Len(callbacks') : callbacks'[i] = callbacks[i + 1]
  BY CallbackFacts DEF ActionRoom
<1>2. actions \in Seq(Action) /\ Len(actions) \in Nat
  BY DEF TypeOK
<1>3. /\ Len(actions') = Len(actions) + 1 /\ actions'[Len(actions) + 1] = callbacks[1]
      /\ \A i \in 1..Len(actions) : actions'[i] = actions[i]
  BY <1>1, <1>2, AppendProperties
<1>4. ASSUME MountedAfter(callbacks, 0), callbacks[1].op # "deviceMounted"
      PROVE  MountedAfter(callbacks', 0)
  <2> DEFINE p == callbacks'
             q == callbacks
  <2>1. Len(p) \in Nat /\ Len(q) = Len(p) + 1 /\ \A i \in 1..Len(p) : p[i] = q[i + 1]
    BY <1>1
  <2>2. MountedAfter(q, 0) /\ q[1].op # "deviceMounted" /\ 0 \in Nat
    BY <1>4
  <2> HIDE DEF p, q
  <2>3. MountedAfter(p, IF 0 = 0 THEN 0 ELSE 0 - 1)
    BY <2>1, <2>2, AfterShifted
  <2>4. QED
    BY <2>3 DEF p
<1>5. QED
  BY <1>1, <1>2, <1>3, <1>4

LEMMA InitMountsAnnounced == Init => MountsAnnounced
BY DEF Init, MountsAnnounced

LEMMA NextMountsAnnounced ==
  TypeOK /\ MountsAnnounced /\ ActionRoom /\ [Next]_vars => MountsAnnounced'
<1> SUFFICES ASSUME TypeOK, MountsAnnounced, ActionRoom, [Next]_vars PROVE MountsAnnounced'
  OBVIOUS
<1>0. Len(actions) \in Nat /\ Len(actions') \in Nat
  <2>1. TypeOK'
    BY NextTypes
  <2>2. QED
    BY <2>1 DEF TypeOK
<1>1. ASSUME NEW d \in Device, Plug(d) PROVE MountsAnnounced'
  <2>1. UNCHANGED actions
    BY <1>1 DEF Plug
  <2>2. QED
    BY <1>1, <2>1, PlugStarts DEF MountsAnnounced
<1>2. ASSUME NEW d \in Device, Unplug(d) PROVE MountsAnnounced'
  <2>1. UNCHANGED actions /\ callbacks = << >>
    BY <1>2 DEF Unplug
  <2>2. ~MountedAfter(callbacks, 0)
    BY <2>1 DEF MountedAfter
  <2>3. ASSUME NEW i \in 1..Len(callbacks'), callbacks'[i].op = "hidMount" PROVE FALSE
    <3> DEFINE c == callbacks'
    <3>1. /\ Len(c) = MaxInterface + 1 /\ c[1] = [op |-> "deviceUnmounted"]
          /\ \A j \in 1..MaxInterface :
               c[j + 1] = [op |-> "hidUmount", hid |-> [dev |-> d, itf |-> j - 1]]
          /\ MaxInterface \in Nat
      BY <1>2, UnplugCallbacks, KvmAssumption
    <3>2. i # 1
      BY <2>3, <3>1
    <3>3. i - 1 \in 1..MaxInterface /\ (i - 1) + 1 = i
      BY <3>1, <3>2
    <3>4. c[(i - 1) + 1] = [op |-> "hidUmount", hid |-> [dev |-> d, itf |-> (i - 1) - 1]]
      BY <3>1, <3>3
    <3>5. c[i].op = "hidUmount"
      BY <3>3, <3>4
    <3>6. QED
      BY <2>3, <3>5
  <2>4. QED
    BY <2>1, <2>2, <2>3 DEF MountsAnnounced
<1>3. CASE HostCallback
  <2> DEFINE k == Len(actions)
             p == actions'
             c == callbacks'
  <2>1. /\ k \in Nat /\ Len(p) = k + 1 /\ p[k + 1] = callbacks[1]
        /\ \A i \in 1..k : p[i] = actions[i]
        /\ Len(c) \in Nat /\ Len(callbacks) = Len(c) + 1
        /\ \A i \in 1..Len(c) : c[i] = callbacks[i + 1]
        /\ MountedAfter(callbacks, 0) =>
             MountedAfter(c, 0) \/ callbacks[1].op = "deviceMounted"
    BY <1>3, CallbackStarts
  <2>2. ASSUME NEW i \in 1..k, MountedAfter(actions, i) PROVE MountedAfter(p, i)
    BY <1>0, <2>1, <2>2, AfterKept
  <2> HIDE DEF p, c
  <2>3. ASSUME NEW i \in 1..k, callbacks[1].op = "deviceMounted" PROVE MountedAfter(p, i)
    <3>1. k + 1 \in 1..Len(p) /\ k + 1 > i /\ p[k + 1].op = "deviceMounted"
      BY <2>1, <2>3
    <3>2. QED
      BY <3>1 DEF MountedAfter
  <2>4. ASSUME NEW i \in 1..k, p[i].op = "hidMount" PROVE MountedAfter(p, i) \/ MountedAfter(c, 0)
    <3>1. MountedAfter(actions, i) \/ MountedAfter(callbacks, 0)
      BY <2>1, <2>4 DEF MountsAnnounced, k
    <3>2. QED
      BY <2>1, <2>2, <2>3, <3>1
  <2>5. ASSUME NEW i \in 1..Len(callbacks), callbacks[i].op = "hidMount"
        PROVE  MountedAfter(c, i - 1)
    <3> DEFINE q == callbacks
    <3>1. Len(c) \in Nat /\ Len(q) = Len(c) + 1 /\ \A j \in 1..Len(c) : c[j] = q[j + 1]
      BY <2>1
    <3>2. MountedAfter(q, i) /\ i \in Nat /\ i > 0
      BY <2>5 DEF MountsAnnounced
    <3> HIDE DEF q
    <3>3. MountedAfter(c, IF i = 0 THEN 0 ELSE i - 1)
      BY <3>1, <3>2, AfterShifted
    <3>4. QED
      BY <3>2, <3>3
  <2>6. p[k + 1].op = "hidMount" => MountedAfter(c, 0)
    <3>1. 1 \in 1..Len(callbacks) /\ 1 - 1 = 0
      BY <2>1
    <3>2. QED
      BY <2>1, <2>5, <3>1
  <2>7. ASSUME NEW i \in 1..Len(c), c[i].op = "hidMount" PROVE MountedAfter(c, i)
    <3>1. i + 1 \in 1..Len(callbacks) /\ c[i] = callbacks[i + 1] /\ (i + 1) - 1 = i
      BY <2>1
    <3>2. QED
      BY <2>5, <2>7, <3>1
  <2>8. \A i \in 1..Len(p) : i \in 1..k \/ i = k + 1
    BY <2>1
  <2>9. \A i \in 1..Len(p) : p[i].op = "hidMount" => MountedAfter(p, i) \/ MountedAfter(c, 0)
    BY <2>4, <2>6, <2>8
  <2>10. QED
    BY <2>7, <2>9 DEF MountsAnnounced, p, c
<1>4. ASSUME NEW op, Take(op), UNCHANGED callbacks PROVE MountsAnnounced'
  <2> DEFINE p == actions'
             q == actions
  <2>1. /\ Len(q) = Len(p) + 1 /\ Len(p) \in Nat
        /\ \A i \in 1..Len(p) : i + 1 \in 1..Len(q) /\ p[i] = q[i + 1]
    BY <1>4, TakeFacts
  <2>2. \A i \in 1..Len(q) : q[i].op = "hidMount" => MountedAfter(q, i) \/ MountedAfter(callbacks, 0)
    BY DEF MountsAnnounced
  <2> HIDE DEF p, q
  <2>3. ASSUME NEW i \in 1..Len(p), p[i].op = "hidMount"
        PROVE  MountedAfter(p, i) \/ MountedAfter(callbacks, 0)
    <3>1. MountedAfter(q, i + 1) \/ MountedAfter(callbacks, 0)
      BY <2>1, <2>2, <2>3
    <3>2. ASSUME MountedAfter(q, i + 1) PROVE MountedAfter(p, i)
      <4>1. i + 1 \in Nat /\ i + 1 > 0 /\ (IF i + 1 = 0 THEN 0 ELSE (i + 1) - 1) = i
        OBVIOUS
      <4>2. MountedAfter(p, IF i + 1 = 0 THEN 0 ELSE (i + 1) - 1)
        BY <2>1, <3>2, <4>1, AfterShifted
      <4>3. QED
        BY <4>1, <4>2
    <3>3. QED
      BY <3>1, <3>2
  <2>4. QED
    BY <1>4, <2>3 DEF MountsAnnounced, p
<1>5. CASE Quiet
  <2>1. /\ Len(actions) <= Len(actions') /\ UNCHANGED callbacks
        /\ \A i \in 1..Len(actions) : actions'[i] = actions[i]
        /\ \A i \in 1..Len(actions') : i > Len(actions) => actions'[i].op # "hidMount"
    BY <1>5 DEF Quiet, HostOps, HidOps
  <2>2. ASSUME NEW i, MountedAfter(actions, i) PROVE MountedAfter(actions', i)
    BY <1>0, <2>1, <2>2, AfterKept
  <2>3. \A i \in 1..Len(actions') : i \in 1..Len(actions) \/ i > Len(actions)
    BY <1>0
  <2>4. QED
    BY <2>1, <2>2, <2>3 DEF MountsAnnounced
<1>6. QED
  BY <1>1, <1>2, <1>3, <1>4, <1>5, ActionSteps, HostOpTakes DEF ComputerReady

LEMMA StartDueStays ==
  ASSUME startDue, [Next]_vars
  PROVE  startDue' \/ StartUsbDevices
<1> USE DEF hostVars, switchVars, linkVars, computerVars
<1>1. CASE Core1
  BY <1>1 DEF Core1, Plug, Unplug, HostCallback, HostReport
<1>2. CASE Task
  BY <1>2 DEF Task, DeviceMounted, DeviceUnmounted, HidMount, HidUmount, HidReport, ComputerReady,
              ComputerSetting, UsbDeviceMounted
<1>3. CASE \E n \in Node : CtrlHandles(n) \/ NodeHandles(n) \/ NodeRestart(n)
  BY <1>3 DEF CtrlHandles, NodeHandles, NodeRestart
<1>4. CASE \/ \E c \in Computer : Enumerate(c)
           \/ \E c \in Computer, s \in Slot, k \in Kind, v \in Value : ComputerSets(c, s, k, v)
           \/ UNCHANGED vars
  BY <1>4 DEF Enumerate, ComputerSets, vars
<1> HIDE DEF hostVars, switchVars, linkVars, computerVars
<1>5. QED
  BY <1>1, <1>2, <1>3, <1>4 DEF Next

(* The start that is to come stays so until it comes.                       *)
LEMMA StartStays ==
  ASSUME TypeOK, ActionRoom, [Next]_vars, StartComes
  PROVE  StartComes' \/ StartUsbDevices
<1>0. Len(actions) \in Nat /\ Len(actions') \in Nat
  <2>1. TypeOK'
    BY NextTypes
  <2>2. QED
    BY <2>1 DEF TypeOK
<1>1. CASE startDue
  BY <1>1, StartDueStays DEF StartComes
<1>2. ASSUME Len(actions) <= Len(actions'), \A j \in 1..Len(actions) : actions'[j] = actions[j],
             MountedAfter(actions, 0)
      PROVE  StartComes'
  <2>1. MountedAfter(actions', 0)
    BY <1>0, <1>2, AfterKept
  <2>2. QED
    BY <2>1 DEF StartComes
<1>3. ASSUME NEW d \in Device, Plug(d) \/ Unplug(d), MountedAfter(actions, 0) \/ MountedAfter(callbacks, 0)
      PROVE  StartComes'
  <2>1. actions' = actions /\ callbacks = << >>
    BY <1>3 DEF Plug, Unplug
  <2>2. ~MountedAfter(callbacks, 0)
    BY <2>1 DEF MountedAfter
  <2>3. QED
    BY <1>0, <1>2, <1>3, <2>1, <2>2
<1>4. ASSUME HostCallback, MountedAfter(actions, 0) \/ MountedAfter(callbacks, 0)
      PROVE  StartComes'
  <2>1. /\ Len(actions') = Len(actions) + 1 /\ actions'[Len(actions) + 1] = callbacks[1]
        /\ \A i \in 1..Len(actions) : actions'[i] = actions[i]
        /\ MountedAfter(callbacks, 0) =>
             MountedAfter(callbacks', 0) \/ callbacks[1].op = "deviceMounted"
    BY <1>4, CallbackStarts
  <2>2. CASE MountedAfter(actions, 0)
    BY <1>0, <1>2, <2>1, <2>2
  <2>3. CASE callbacks[1].op = "deviceMounted"
    <3>1. /\ Len(actions) + 1 \in 1..Len(actions') /\ Len(actions) + 1 > 0
          /\ actions'[Len(actions) + 1].op = "deviceMounted"
      BY <1>0, <2>1, <2>3
    <3>2. QED
      BY <3>1 DEF StartComes, MountedAfter
  <2>4. QED
    BY <1>4, <2>1, <2>2, <2>3 DEF StartComes
<1>5. ASSUME DeviceMounted PROVE StartComes'
  BY <1>5 DEF DeviceMounted, StartComes
<1>6. ASSUME NEW op, Take(op), op # "deviceMounted", UNCHANGED callbacks,
             MountedAfter(actions, 0) \/ MountedAfter(callbacks, 0)
      PROVE  StartComes'
  <2> DEFINE p == actions'
             q == actions
  <2>1. /\ Len(q) = Len(p) + 1 /\ Len(p) \in Nat /\ q[1].op = op
        /\ \A i \in 1..Len(p) : p[i] = q[i + 1]
    BY <1>6, TakeFacts
  <2> HIDE DEF p, q
  <2>2. ASSUME MountedAfter(q, 0) PROVE MountedAfter(p, 0)
    <3>1. 0 \in Nat /\ q[1].op # "deviceMounted" /\ (IF 0 = 0 THEN 0 ELSE 0 - 1) = 0
      BY <1>6, <2>1
    <3>2. MountedAfter(p, IF 0 = 0 THEN 0 ELSE 0 - 1)
      BY <2>1, <2>2, <3>1, AfterShifted
    <3>3. QED
      BY <3>1, <3>2
  <2>3. QED
    BY <1>6, <2>2 DEF StartComes, p, q
<1>7. ASSUME Quiet, MountedAfter(actions, 0) \/ MountedAfter(callbacks, 0)
      PROVE  StartComes'
  <2>1. MountedAfter(callbacks, 0) => MountedAfter(callbacks', 0)
    BY <1>7 DEF Quiet
  <2>2. QED
    BY <1>2, <1>7, <2>1 DEF Quiet, StartComes
<1>8. ASSUME MountedAfter(actions, 0) \/ MountedAfter(callbacks, 0),
             DeviceUnmounted \/ HidMount \/ HidUmount \/ (ComputerReady /\ UNCHANGED callbacks)
      PROVE  StartComes'
  <2>1. /\ UNCHANGED callbacks
        /\ \/ Take("deviceUnmounted") \/ Take("hidMount") \/ Take("hidUmount")
           \/ Take("computerReady")
    BY <1>8, HostOpTakes DEF ComputerReady
  <2>2. QED
    BY <1>6, <1>8, <2>1
<1>9. ASSUME MountedAfter(actions, 0) \/ MountedAfter(callbacks, 0)
      PROVE  StartComes'
  <2>1. ASSUME NEW op, op \notin HostOps \cup {"computerReady"}, Take(op), UNCHANGED callbacks
        PROVE  StartComes'
    <3>1. op # "deviceMounted"
      BY <2>1 DEF HostOps
    <3>2. QED
      BY <1>6, <1>9, <2>1, <3>1
  <2>2. \/ \E d \in Device : Plug(d) \/ Unplug(d)
        \/ HostCallback
        \/ DeviceMounted
        \/ DeviceUnmounted \/ HidMount \/ HidUmount \/ (ComputerReady /\ UNCHANGED callbacks)
        \/ \E op : op \notin HostOps \cup {"computerReady"} /\ Take(op) /\ UNCHANGED callbacks
        \/ Quiet
    BY ActionSteps
  <2>3. CASE \E d \in Device : Plug(d) \/ Unplug(d)
    BY <1>3, <1>9, <2>3
  <2>4. CASE HostCallback
    BY <1>4, <1>9, <2>4
  <2>5. CASE DeviceUnmounted \/ HidMount \/ HidUmount \/ (ComputerReady /\ UNCHANGED callbacks)
    BY <1>8, <1>9, <2>5
  <2>6. CASE Quiet
    BY <1>7, <1>9, <2>6
  <2>7. CASE \E op : op \notin HostOps \cup {"computerReady"} /\ Take(op) /\ UNCHANGED callbacks
    <3>1. PICK op : op \notin HostOps \cup {"computerReady"} /\ Take(op) /\ UNCHANGED callbacks
      BY <2>7
    <3>2. QED
      BY <2>1, <3>1
  <2>8. CASE DeviceMounted
    BY <1>5, <2>8
  <2>9. QED
    BY <2>2, <2>3, <2>4, <2>5, <2>6, <2>7, <2>8
<1>10. QED
  BY <1>1, <1>9 DEF StartComes

(* A new interface brings a start.                                         *)
LEMMA MountStarts ==
  ASSUME TypeOK, MountsAnnounced, ActionRoom, [Next]_vars, HidMount
  PROVE  StartComes'
<1>1. Take("hidMount") /\ UNCHANGED callbacks
  BY HostOpTakes
<1>2. actions[1].op = "hidMount" /\ 1 \in 1..Len(actions)
  BY <1>1, TakeFacts
<1>3. MountedAfter(actions, 1) \/ MountedAfter(callbacks, 0)
  BY <1>2 DEF MountsAnnounced
<1>4. StartComes
  BY <1>3 DEF StartComes, MountedAfter
<1>5. ~StartUsbDevices
  <2> SUFFICES ASSUME StartUsbDevices PROVE FALSE
    OBVIOUS
  <2>1. actions' = actions
    BY DEF StartUsbDevices
  <2>2. Len(actions') = Len(actions) - 1 /\ Len(actions) \in Nat
    BY <1>1, TakeFacts
  <2>3. QED
    BY <2>1, <2>2
<1>6. QED
  BY <1>4, <1>5, StartStays

(* Unless a start is to come, the local computer knows every interface of     *)
(* the table, or is about to: no slot is another interface's to it.          *)
LocalSlot(s) ==
  /\ usbReady /\ exposed[Local][s] \in {None, table[s]}
  /\ Local \in connecting \/ exposed[Local][s] = table[s]
LocalStarts == StartComes \/ \A s \in EnabledSlots(table) : LocalSlot(s)

(* What a step does to what a computer has enumerated.                      *)
LEMMA ExposedSteps ==
  ASSUME TypeOK, [Next]_vars, NEW c \in Computer
  PROVE  \/ exposed'[c] = exposed[c] /\ (c \in connecting' <=> c \in connecting)
         \/ c = Local /\ StartUsbDevices
         \/ c \in Node /\ (NodeHandles(c) \/ NodeRestart(c))
         \/ Enumerate(c) /\ c \notin connecting'
            /\ exposed'[c] = IF c = Local THEN table ELSE nodeTable[c]
<1> USE DEF hostVars, switchVars, linkVars, computerVars
<1>0. exposed \in [Computer -> Table]
  BY DEF TypeOK
<1>1. CASE UNCHANGED <<connecting, exposed>>
  BY <1>1
<1>2. CASE Core1
  BY <1>2 DEF Core1, Plug, Unplug, HostCallback, HostReport
<1>3. CASE DeviceMounted \/ DeviceUnmounted \/ HidMount \/ HidUmount \/ HidReport \/ ComputerReady
           \/ ComputerSetting \/ UsbDeviceMounted
  BY <1>3 DEF DeviceMounted, DeviceUnmounted, HidMount, HidUmount, HidReport, ComputerReady,
              ComputerSetting, UsbDeviceMounted
<1>4. CASE StartUsbDevices
  BY <1>0, <1>4 DEF StartUsbDevices, ConnectUsb
<1>5. ASSUME NEW n \in Node, CtrlHandles(n) PROVE UNCHANGED <<connecting, exposed>>
  BY <1>5 DEF CtrlHandles
<1>6. ASSUME NEW n \in Node, NodeHandles(n), n # c
      PROVE  exposed'[c] = exposed[c] /\ (c \in connecting' <=> c \in connecting)
  BY <1>0, <1>6 DEF NodeHandles, ConnectUsb
<1>7. ASSUME NEW n \in Node, NodeRestart(n), n # c
      PROVE  exposed'[c] = exposed[c] /\ (c \in connecting' <=> c \in connecting)
  BY <1>0, <1>7 DEF NodeRestart
<1>8. ASSUME NEW d \in Computer, Enumerate(d)
      PROVE  \/ exposed'[c] = exposed[c] /\ (c \in connecting' <=> c \in connecting)
             \/ /\ d = c /\ c \notin connecting'
                /\ exposed'[c] = IF c = Local THEN table ELSE nodeTable[c]
  BY <1>0, <1>8 DEF Enumerate
<1>9. ASSUME NEW d \in Computer, NEW s \in Slot, NEW k \in Kind, NEW v \in Value,
             ComputerSets(d, s, k, v)
      PROVE  UNCHANGED <<connecting, exposed>>
  BY <1>9 DEF ComputerSets
<1>10. UNCHANGED vars => UNCHANGED <<connecting, exposed>>
  BY DEF vars
<1> HIDE DEF hostVars, switchVars, linkVars, computerVars
<1>11. QED
  BY <1>1, <1>2, <1>3, <1>4, <1>5, <1>6, <1>7, <1>8, <1>9, <1>10 DEF Next, Task

(* The table only grows by a mount.                                        *)
LEMMA TableSteps ==
  ASSUME TypeOK, [Next]_vars
  PROVE  Shrinks \/ HidMount
<1> USE DEF hostVars, switchVars, linkVars, computerVars
<1>1. CASE Core1 \/ DeviceMounted \/ DeviceUnmounted \/ HidReport \/ ComputerReady
           \/ ComputerSetting \/ UsbDeviceMounted \/ StartUsbDevices
  <2>1. UNCHANGED table
    BY <1>1 DEF Core1, Plug, Unplug, HostCallback, HostReport, DeviceMounted, DeviceUnmounted,
       HidReport, ComputerReady, ComputerSetting, UsbDeviceMounted, StartUsbDevices
  <2>2. QED
    BY <2>1, TableShrinks
<1>2. CASE \/ \E n \in Node : CtrlHandles(n) \/ NodeHandles(n) \/ NodeRestart(n)
           \/ \E c \in Computer : Enumerate(c)
           \/ \E c \in Computer, s \in Slot, k \in Kind, v \in Value : ComputerSets(c, s, k, v)
           \/ UNCHANGED vars
  <2>1. UNCHANGED table
    BY <1>2 DEF CtrlHandles, NodeHandles, NodeRestart, Enumerate, ComputerSets, vars
  <2>2. QED
    BY <2>1, TableShrinks
<1> HIDE DEF hostVars, switchVars, linkVars, computerVars
<1>3. QED
  BY <1>1, <1>2, TableShrinks DEF Next, Task

LEMMA ReadySteps ==
  ASSUME [Next]_vars
  PROVE  UNCHANGED usbReady \/ StartUsbDevices
<1> USE DEF hostVars, switchVars, linkVars, computerVars
<1>1. CASE Core1
  BY <1>1 DEF Core1, Plug, Unplug, HostCallback, HostReport
<1>2. CASE Task
  BY <1>2 DEF Task, DeviceMounted, DeviceUnmounted, HidMount, HidUmount, HidReport, ComputerReady,
              ComputerSetting, UsbDeviceMounted
<1>3. CASE \/ \E n \in Node : CtrlHandles(n) \/ NodeHandles(n) \/ NodeRestart(n)
           \/ \E c \in Computer : Enumerate(c)
           \/ \E c \in Computer, s \in Slot, k \in Kind, v \in Value : ComputerSets(c, s, k, v)
           \/ UNCHANGED vars
  BY <1>3 DEF CtrlHandles, NodeHandles, NodeRestart, Enumerate, ComputerSets, vars
<1> HIDE DEF hostVars, switchVars, linkVars, computerVars
<1>4. QED
  BY <1>1, <1>2, <1>3 DEF Next

LEMMA LocalIsComputer == Local \in Computer /\ Local \notin Node
BY KvmAssumption DEF Computer, Local, Node

LEMMA InitLocalStarts == Init => LocalStarts
BY DEF Init, LocalStarts, EnabledSlots, NoHid

LEMMA NextLocalStarts ==
  TypeOK /\ MountsAnnounced /\ LocalStarts /\ ActionRoom /\ [Next]_vars => LocalStarts'
<1> SUFFICES ASSUME TypeOK, MountsAnnounced, LocalStarts, ActionRoom, [Next]_vars,
                    ~StartComes', NEW s \in EnabledSlots(table')
             PROVE  LocalSlot(s)'
  BY DEF LocalStarts
<1>1. Shrinks /\ s \in EnabledSlots(table) /\ table'[s] = table[s] /\ s \in Slot
  BY TableSteps, MountStarts DEF Shrinks, EnabledSlots
<1>2. CASE StartUsbDevices
  <2>1. /\ usbReady' = TRUE /\ connecting' = connecting \cup {Local}
        /\ exposed' = [exposed EXCEPT ![Local] = NoHid]
    BY <1>2 DEF StartUsbDevices, ConnectUsb
  <2>2. exposed'[Local][s] = None
    BY <1>1, <2>1, LocalIsComputer DEF TypeOK, NoHid
  <2>3. QED
    BY <2>1, <2>2 DEF LocalSlot
<1>3. CASE ~StartUsbDevices
  <2>1. LocalSlot(s)
    BY <1>1, <1>3, StartStays DEF LocalStarts
  <2>2. usbReady' = usbReady
    BY <1>3, ReadySteps
  <2>3. CASE exposed'[Local] = exposed[Local] /\ (Local \in connecting' <=> Local \in connecting)
    BY <1>1, <2>1, <2>2, <2>3 DEF LocalSlot
  <2>4. CASE Enumerate(Local) /\ exposed'[Local] = table
    <3>1. table' = table
      BY <2>4 DEF Enumerate, switchVars
    <3>2. QED
      BY <2>1, <2>2, <2>4, <3>1 DEF LocalSlot
  <2>5. QED
    BY <1>3, <2>3, <2>4, ExposedSteps, LocalIsComputer
<1>4. QED
  BY <1>2, <1>3

LEMMA ManyQueued ==
  ASSUME TypeOK, MountedAfter(actions, 0) \/ MountedAfter(callbacks, 0)
  PROVE  Queued("deviceMounted") > 0
<1> DEFINE S(q) == {i \in DOMAIN q : q[i].op = "deviceMounted"}
<1>1. ASSUME NEW q \in Seq(Action)
      PROVE  /\ Cardinality(S(q)) \in Nat
             /\ MountedAfter(q, 0) => Cardinality(S(q)) > 0
  <2>1. DOMAIN q = 1..Len(q) /\ Len(q) \in Nat
    OBVIOUS
  <2>2. IsFiniteSet(1..Len(q)) /\ S(q) \in SUBSET (1..Len(q))
    BY <2>1, FS_Interval
  <2>3. IsFiniteSet(S(q)) /\ Cardinality(S(q)) \in Nat
    BY <2>2, FS_Subset, FS_CardinalityType
  <2>4. MountedAfter(q, 0) => S(q) # {}
    BY <2>1 DEF MountedAfter
  <2> HIDE DEF S
  <2>5. S(q) # {} => Cardinality(S(q)) # 0
    BY <2>3, FS_EmptySet
  <2>6. QED
    BY <2>3, <2>4, <2>5
<1>2. actions \in Seq(Action) /\ callbacks \in Seq(Action)
  BY DEF TypeOK
<1>3. Queued("deviceMounted") = Cardinality(S(actions)) + Cardinality(S(callbacks))
  BY DEF Queued, CountOf
<1> HIDE DEF S
<1>4. QED
  BY <1>1, <1>2, <1>3

LEMMA MixedRight == TypeOK /\ LocalStarts => MixedOnlyUntilRestart
<1> SUFFICES ASSUME TypeOK, LocalStarts, actions # << >>, Head(actions).op = "report",
                    NEW s \in SlotsOf(table, Head(actions).hid)
             PROVE  \/ exposed[Local][s] \in {None, Head(actions).hid}
                    \/ startDue \/ Queued("deviceMounted") > 0
  BY DEF MixedOnlyUntilRestart
<1>1. Head(actions) \in Action
  BY HeadTypes DEF TypeOK
<1>2. Head(actions).hid \in Hid
  BY <1>1, ActionsRead
<1>3. s \in EnabledSlots(table) /\ table[s] = Head(actions).hid
  BY <1>2, NamesAssumption DEF SlotsOf, EnabledSlots
<1>4. CASE StartComes
  BY <1>4, ManyQueued DEF StartComes
<1>5. CASE LocalSlot(s)
  BY <1>3, <1>5 DEF LocalSlot
<1>6. QED
  BY <1>3, <1>4, <1>5 DEF LocalStarts

(* The local computer never takes a report with the descriptor of another     *)
(* interface of the same slot, unless the restart of usb_device.c that the    *)
(* new device asks for is under way or will come: no mount of a device is     *)
(* lost, whatever core 1 queues meanwhile, as long as the queue has room.    *)
THEOREM MixedUntilRestart == Spec /\ []ActionRoom => []MixedOnlyUntilRestart
<1> DEFINE I == TypeOK /\ MountsAnnounced /\ LocalStarts
<1>1. Init => I
  BY InitTypes, InitMountsAnnounced, InitLocalStarts
<1>2. I /\ ActionRoom /\ [Next]_vars => I'
  BY NextTypes, NextMountsAnnounced, NextLocalStarts
<1>3. I => MixedOnlyUntilRestart
  BY MixedRight
<1>4. QED
  BY <1>1, <1>2, <1>3, PTL DEF Spec

-----------------------------------------------------------------------------
(* What the computers behind the nodes enumerate.                          *)

(* Unless a start is to come, or the node is yet to be told, the node is told *)
(* to start after all it is told of the slot, or its computer knows it.      *)
NoMountAfter(q, i, s) == \A j \in 1..Len(q) : j > i => ~IsMount(q[j], s)
StartLast(q, s) == \E i \in 1..Len(q) : q[i].op = "start" /\ NoMountAfter(q, i, s)
Known(n, s) == n \in connecting \/ exposed[n][s] = table[s]
NodeSlot(n, s) ==
  StartLast(toNode[n], s) \/ (NoMountAfter(toNode[n], 0, s) /\ Known(n, s))
NodeStarts ==
  StartComes \/ \A n \in Node : InitPending(n) \/ \A s \in EnabledSlots(table) : NodeSlot(n, s)

LEMMA StartLastAppend ==
  ASSUME NEW q \in Seq(ToNodeMsg), NEW m \in ToNodeMsg, m.op # "mount", NEW s
  PROVE  /\ StartLast(q, s) => StartLast(Append(q, m), s)
         /\ NoMountAfter(q, 0, s) => NoMountAfter(Append(q, m), 0, s)
         /\ m.op = "start" => StartLast(Append(q, m), s)
<1> DEFINE p == Append(q, m)
           k == Len(q)
<1>1. /\ k \in Nat /\ Len(p) = k + 1 /\ p[k + 1] = m
      /\ \A i \in 1..k : p[i] = q[i]
  BY AppendProperties
<1> HIDE DEF p, k
<1>2. ASSUME NEW i \in 0..k, NoMountAfter(q, i, s) PROVE NoMountAfter(p, i, s)
  <2> SUFFICES ASSUME NEW j \in 1..k + 1, j > i PROVE ~IsMount(p[j], s)
    BY <1>1 DEF NoMountAfter
  <2>1. CASE j = k + 1
    BY <1>1, <2>1 DEF IsMount
  <2>2. CASE j # k + 1
    <3>1. j \in 1..k /\ p[j] = q[j]
      BY <1>1, <2>2
    <3>2. QED
      BY <1>2, <3>1 DEF NoMountAfter, k
  <2>3. QED
    BY <2>1, <2>2
<1>3. ASSUME StartLast(q, s) PROVE StartLast(p, s)
  <2>1. PICK i \in 1..k : q[i].op = "start" /\ NoMountAfter(q, i, s)
    BY <1>3 DEF StartLast, k
  <2>2. i \in 0..k /\ i \in 1..Len(p) /\ p[i] = q[i]
    BY <1>1
  <2>3. NoMountAfter(p, i, s)
    BY <1>2, <2>1, <2>2
  <2>4. QED
    BY <2>1, <2>2, <2>3 DEF StartLast
<1>4. ASSUME m.op = "start" PROVE StartLast(p, s)
  <2>1. k + 1 \in 1..Len(p) /\ p[k + 1].op = "start" /\ \A j \in 1..Len(p) : ~(j > k + 1)
    BY <1>1, <1>4
  <2>2. QED
    BY <2>1 DEF StartLast, NoMountAfter
<1>5. 0 \in 0..k
  BY <1>1
<1>6. QED
  BY <1>2, <1>3, <1>4, <1>5 DEF p

LEMMA StartLastTail ==
  ASSUME NEW q \in Seq(ToNodeMsg), q # << >>, NEW s
  PROVE  /\ NoMountAfter(q, 0, s) => NoMountAfter(Tail(q), 0, s)
         /\ StartLast(q, s) => \/ StartLast(Tail(q), s)
                               \/ Head(q).op = "start" /\ NoMountAfter(Tail(q), 0, s)
<1> DEFINE p == Tail(q)
<1>1. /\ Head(q) = q[1] /\ Len(q) \in Nat \ {0} /\ Len(p) = Len(q) - 1
      /\ \A i \in 1..Len(q) - 1 : p[i] = q[i + 1]
  BY HeadTypes
<1> HIDE DEF p
<1>2. ASSUME NEW i \in 1..Len(q), NoMountAfter(q, i, s) PROVE NoMountAfter(p, i - 1, s)
  <2> SUFFICES ASSUME NEW j \in 1..Len(p), j > i - 1 PROVE ~IsMount(p[j], s)
    BY DEF NoMountAfter
  <2>1. j \in 1..Len(q) - 1 /\ j + 1 \in 1..Len(q) /\ j + 1 > i
    BY <1>1
  <2>2. p[j] = q[j + 1]
    BY <1>1, <2>1
  <2>3. QED
    BY <1>2, <2>1, <2>2 DEF NoMountAfter
<1>3. ASSUME NoMountAfter(q, 0, s) PROVE NoMountAfter(p, 0, s)
  <2>1. 1 \in 1..Len(q) /\ 1 - 1 = 0 /\ NoMountAfter(q, 1, s)
    BY <1>1, <1>3 DEF NoMountAfter
  <2>2. QED
    BY <1>2, <2>1
<1>4. ASSUME StartLast(q, s)
      PROVE  StartLast(p, s) \/ (Head(q).op = "start" /\ NoMountAfter(p, 0, s))
  <2>1. PICK i \in 1..Len(q) : q[i].op = "start" /\ NoMountAfter(q, i, s)
    BY <1>4 DEF StartLast
  <2>2. NoMountAfter(p, i - 1, s)
    BY <1>2, <2>1
  <2>3. CASE i = 1
    BY <1>1, <2>1, <2>2, <2>3
  <2>4. CASE i # 1
    <3>1. i - 1 \in 1..Len(q) - 1 /\ i - 1 \in 1..Len(p) /\ (i - 1) + 1 = i
      BY <1>1, <2>4
    <3>2. p[i - 1] = q[i]
      BY <1>1, <3>1
    <3>3. QED
      BY <2>1, <2>2, <3>1, <3>2 DEF StartLast
  <2>5. QED
    BY <2>3, <2>4
<1>5. QED
  BY <1>3, <1>4 DEF p

(* A node that is told everything while the USB devices run is started last. *)
LEMMA StartAnnounced ==
  ASSUME TypeOK, usbReady, NEW q \in Seq(ToNodeMsg), Len(q) <= MessageQueueSize,
         Len(q) + Len(Announcement) <= MessageQueueSize, NEW s
  PROVE  StartLast(EnqueueAll(q, Announcement), s)
<1> DEFINE a == Announcement
           n == Cardinality(EnabledSlots(table))
           p == EnqueueAll(q, a)
<1>1. a \in Seq(ToNodeMsg) /\ n \in Nat /\ Len(a) = n + 1 /\ a[n + 1] = StartMsg
  BY AnnouncementFacts
<1>2. MessageQueueSize \in Nat /\ Len(q) \in Nat /\ Len(q) + Len(a) <= MessageQueueSize
  BY KvmAssumption
<1> HIDE DEF a, n
<1>3. /\ Len(p) = Len(q) + Len(a)
      /\ \A i \in 1..Len(p) : i > Len(q) => p[i] = a[i - Len(q)]
  BY <1>1, <1>2, FittingFacts DEF EnqueueAll
<1> HIDE DEF p
<1> DEFINE last == Len(q) + (n + 1)
<1>4. Len(p) = last /\ last \in 1..Len(p) /\ last > Len(q) /\ last - Len(q) = n + 1
  BY <1>1, <1>2, <1>3
<1> HIDE DEF last
<1>5. p[last] = StartMsg
  BY <1>1, <1>3, <1>4
<1>6. \A j \in 1..Len(p) : ~(j > last)
  BY <1>4
<1>7. StartLast(p, s)
  BY <1>4, <1>5, <1>6 DEF StartLast, NoMountAfter, StartMsg
<1>8. QED
  BY <1>7 DEF p, a

LEMMA InitNodeStarts == Init => NodeStarts
<1> SUFFICES ASSUME Init, NEW n \in Node PROVE InitPending(n)
  BY DEF NodeStarts
<1>1. toCtrl[n] = <<[op |-> "init"]>>
  BY DEF Init
<1>2. QED
  BY <1>1 DEF InitPending

(* A node, when it is neither told everything nor of a new interface.       *)
LEMMA NodeSlotStays ==
  ASSUME Connections, AllTold, MessageRoom, [Next]_vars, NEW n \in Node,
         ~HidMount, ~ReadyNow(n), ~StartUsbDevices, ~InitPending(n), ~InitPending(n)',
         NEW s \in EnabledSlots(table), table'[s] = table[s], NodeSlot(n, s)
  PROVE  NodeSlot(n, s)'
<1> DEFINE q == toNode[n]
<1>1. /\ TypeOK /\ ReadyConnected /\ q \in Seq(ToNodeMsg) /\ s \in Slot
      /\ n \in Computer /\ n # Local
      /\ toNode \in [Node -> Seq(ToNodeMsg)] /\ exposed \in [Computer -> Table]
  BY DEF Connections, TypeOK, EnabledSlots, Node
<1>2. toCtrl'[n] # <<[op |-> "init"]>>
  <2> SUFFICES ASSUME toCtrl'[n] = <<[op |-> "init"]>> PROVE FALSE
    OBVIOUS
  <2>1. 1 \in DOMAIN toCtrl'[n] /\ toCtrl'[n][1].op = "init"
    OBVIOUS
  <2>2. QED
    BY <2>1 DEF InitPending
<1> HIDE DEF q
<1>3. StartLast(q, s) \/ (NoMountAfter(q, 0, s) /\ Known(n, s))
  BY DEF NodeSlot, q
<1>4. CASE NodeHandles(n)
  <2>1. q # << >> /\ toNode'[n] = Tail(q)
    BY <1>1, <1>4 DEF NodeHandles, q
  <2>2. /\ NoMountAfter(q, 0, s) => NoMountAfter(Tail(q), 0, s)
        /\ StartLast(q, s) => \/ StartLast(Tail(q), s)
                              \/ Head(q).op = "start" /\ NoMountAfter(Tail(q), 0, s)
    BY <1>1, <2>1, StartLastTail
  <2>3. Head(q).op = "start" => n \in connecting'
    BY <1>4 DEF NodeHandles, ConnectUsb, q
  <2>4. Head(q).op # "start" => UNCHANGED <<connecting, exposed>>
    BY <1>4 DEF NodeHandles, computerVars, q
  <2>5. Known(n, s) => Known(n, s)'
    BY <2>3, <2>4 DEF Known
  <2>6. Head(q).op = "start" => Known(n, s)'
    BY <2>3 DEF Known
  <2>7. QED
    BY <1>3, <2>1, <2>2, <2>5, <2>6 DEF NodeSlot
<1>5. CASE Enumerate(n)
  <2>1. /\ toNode'[n] = q /\ exposed'[n] = nodeTable[n]
    BY <1>1, <1>5 DEF Enumerate, q
  <2>2. Held(nodeTable[n], q, Len(q), s) = table[s]
    BY DEF AllTold, Told, q
  <2>3. ASSUME NoMountAfter(q, 0, s) PROVE Known(n, s)'
    <3>1. Len(q) \in Nat /\ \A i \in 1..Len(q) : ~IsMount(q[i], s)
      BY <1>1, <2>3 DEF NoMountAfter
    <3>2. Held(nodeTable[n], q, Len(q), s) = nodeTable[n][s]
      BY <3>1, HeldNone
    <3>3. QED
      BY <2>1, <2>2, <3>2 DEF Known
  <2>4. QED
    BY <1>3, <2>1, <2>3 DEF NodeSlot
<1>6. CASE ~NodeHandles(n) /\ exposed'[n] = exposed[n] /\ (n \in connecting' <=> n \in connecting)
  <2>1. Known(n, s) => Known(n, s)'
    BY <1>6 DEF Known
  <2>2. CASE toNode'[n] = q
    BY <1>3, <2>1, <2>2 DEF NodeSlot
  <2>3. ASSUME NEW m \in ToNodeMsg, m.op # "mount", toNode'[n] = Append(q, m)
        PROVE  NodeSlot(n, s)'
    <3>1. /\ StartLast(q, s) => StartLast(Append(q, m), s)
          /\ NoMountAfter(q, 0, s) => NoMountAfter(Append(q, m), 0, s)
      BY <1>1, <2>3, StartLastAppend
    <3>2. QED
      BY <1>3, <2>1, <2>3, <3>1 DEF NodeSlot
  <2>4. \/ toNode'[n] = q
        \/ \E m \in ToNodeMsg : m.op # "mount" /\ toNode'[n] = Append(q, m)
    BY <1>1, <1>2, <1>6, LinkSteps DEF Same, Added, q
  <2>5. QED
    BY <2>2, <2>3, <2>4
<1>7. ~NodeRestart(n)
  <2> SUFFICES ASSUME NodeRestart(n) PROVE FALSE
    OBVIOUS
  <2>1. toCtrl \in [Node -> Seq(ToCtrlMsg)]
    BY <1>1 DEF TypeOK
  <2>2. toCtrl'[n] = <<[op |-> "init"]>>
    BY <2>1 DEF NodeRestart
  <2>3. QED
    BY <1>2, <2>2
<1>8. QED
  BY <1>1, <1>4, <1>5, <1>6, <1>7, ExposedSteps

LEMMA NextNodeStarts ==
  ASSUME Connections, AllTold, MountsAnnounced, LocalStarts, NodeStarts,
         MessageRoom, ActionRoom, [Next]_vars
  PROVE  NodeStarts'
<1> SUFFICES ASSUME ~StartComes', NEW n \in Node, ~InitPending(n)',
                    NEW s \in EnabledSlots(table')
             PROVE  NodeSlot(n, s)'
  BY DEF NodeStarts
<1>1. /\ TypeOK /\ CallbackOps /\ toNode[n] \in Seq(ToNodeMsg) /\ Unconnected
      /\ Len(toNode[n]) <= MessageQueueSize
  BY DEF Connections, TypeOK
<1>2. ~HidMount
  BY <1>1, MountStarts
<1>3. s \in EnabledSlots(table) /\ table'[s] = table[s]
  BY <1>1, <1>2, TableSteps DEF Shrinks
<1>4. CASE ReadyNow(n)
  <2>1. /\ toNode'[n] = EnqueueAll(toNode[n], Announcement)
        /\ Len(toNode[n]) + Len(Announcement) <= MessageQueueSize
    BY <1>4 DEF ReadyNow, ComputerReady, Take, MessageRoom
  <2>2. ~StartUsbDevices
    BY <1>4 DEF ReadyNow, ComputerReady, Take, StartUsbDevices, switchVars
  <2>3. usbReady
    BY <1>1, <1>3, <2>2, StartStays DEF LocalStarts, LocalSlot
  <2>4. StartLast(toNode'[n], s)
    BY <1>1, <2>1, <2>3, StartAnnounced
  <2>5. QED
    BY <2>4 DEF NodeSlot
<1>5. CASE StartUsbDevices
  <2>1. UNCHANGED <<actions, toCtrl>> /\ Broadcast(StartMsg)
    BY <1>5 DEF StartUsbDevices
  <2>2. ~InitPending(n)
    BY <2>1 DEF InitPending
  <2>3. n \in connected
    BY <1>1, <2>2, PendingParts DEF Unconnected
  <2>4. StartMsg \in ToNodeMsg /\ StartMsg.op = "start"
    BY MessagesMade DEF StartMsg
  <2>5. toNode'[n] = Append(toNode[n], StartMsg)
    BY <1>1, <2>1, <2>3, <2>4, BroadcastFacts
  <2>6. StartLast(Append(toNode[n], StartMsg), s)
    BY <1>1, <2>4, StartLastAppend
  <2>7. QED
    BY <2>5, <2>6 DEF NodeSlot
<1>6. CASE ~ReadyNow(n) /\ ~StartUsbDevices
  <2>1. ~InitPending(n)
    BY <1>1, <1>6, PendingStays
  <2>2. NodeSlot(n, s)
    BY <1>1, <1>3, <1>6, <2>1, StartStays DEF NodeStarts
  <2>3. QED
    BY <1>2, <1>3, <1>6, <2>1, <2>2, NodeSlotStays
<1>7. QED
  BY <1>4, <1>5, <1>6

LEMMA AllExposed ==
  TypeOK /\ LocalStarts /\ NodeStarts /\ TableFollowsHost => EveryHidExposed
<1> SUFFICES ASSUME TypeOK, LocalStarts, NodeStarts, TableFollowsHost, Settled,
                    NEW c \in Computer, NEW h \in Hid, h.dev \in up
             PROVE  SlotsOf(exposed[c], h) # {}
  BY DEF EveryHidExposed
<1>1. /\ callbacks = << >> /\ actions = << >> /\ ~startDue /\ connecting = {}
      /\ \A n \in Node : toNode[n] = << >> /\ toCtrl[n] = << >>
  BY DEF Settled
<1>2. ~StartComes
  BY <1>1 DEF StartComes, MountedAfter
<1>3. SlotsOf(table, h) # {}
  <2>1. InTableSoon(h)
    BY DEF TableFollowsHost
  <2>2. {i \in DOMAIN (actions \o callbacks) : Concerns((actions \o callbacks)[i], h)} = {}
    BY <1>1
  <2>3. QED
    BY <2>1, <2>2 DEF InTableSoon
<1>4. PICK s \in Slot : table[s] = h
  BY <1>3 DEF SlotsOf
<1>5. s \in EnabledSlots(table)
  BY <1>4, NamesAssumption DEF EnabledSlots
<1>6. CASE c = Local
  BY <1>1, <1>2, <1>4, <1>5, <1>6 DEF LocalStarts, LocalSlot, SlotsOf
<1>7. CASE c # Local
  <2>1. c \in Node
    BY <1>7 DEF Node
  <2>2. ~InitPending(c)
    BY <1>1, <2>1 DEF InitPending
  <2>3. NodeSlot(c, s)
    BY <1>2, <1>5, <2>1, <2>2 DEF NodeStarts
  <2>4. ~StartLast(toNode[c], s)
    BY <1>1, <2>1 DEF StartLast
  <2>5. exposed[c][s] = table[s]
    BY <1>1, <2>3, <2>4 DEF NodeSlot, Known
  <2>6. QED
    BY <1>4, <2>5 DEF SlotsOf
<1>8. QED
  BY <1>6, <1>7

(* "the controller reads the HID report descriptor for every HID interface    *)
(* and then exposes the report descriptors as its own on the computer side"   *)
(* (doc/technical.md:48-50): when core 0, the links and the computers have     *)
(* handled everything, every computer has enumerated every interface that is  *)
(* plugged in, whatever came before, provided no queue and no table was full. *)
THEOREM EveryHidComes ==
  Spec /\ []MessageRoom /\ []ActionRoom /\ []TableRoom => []EveryHidExposed
<1> DEFINE I == /\ Connections /\ AllTold /\ MountsAnnounced /\ LocalStarts /\ NodeStarts
                /\ OneCall /\ NotTwice /\ NotMissed
           Room == MessageRoom /\ ActionRoom /\ TableRoom
<1>1. Init => I
  BY InitConnections, InitAllTold, InitMountsAnnounced, InitLocalStarts, InitNodeStarts,
     InitHotplug
<1>2. I /\ Room /\ [Next]_vars => I'
  <2> SUFFICES ASSUME I, Room, [Next]_vars PROVE I'
    OBVIOUS
  <2>1. TypeOK /\ MessageRoom /\ ActionRoom /\ TableRoom
    BY DEF Connections
  <2>2. Connections' /\ AllTold'
    BY <2>1, NextConnections, NextAllTold
  <2>3. MountsAnnounced' /\ LocalStarts'
    BY <2>1, NextMountsAnnounced, NextLocalStarts
  <2>4. NodeStarts'
    BY <2>1, NextNodeStarts
  <2>5. OneCall' /\ NotTwice' /\ NotMissed'
    BY <2>1, NextOneCall, NextNotTwice, NextNotMissed
  <2>6. QED
    BY <2>2, <2>3, <2>4, <2>5
<1>3. I => EveryHidExposed
  BY FollowsHost, AllExposed DEF Connections
<1>4. QED
  BY <1>1, <1>2, <1>3, PTL DEF Spec

-----------------------------------------------------------------------------
(* The reports a node sends with the descriptors its computer enumerated.   *)

HasStart(q) == \E i \in 1..Len(q) : q[i].op = "start"
StartAfter(q, j) == \E i \in 1..Len(q) : i > j /\ q[i].op = "start"
MountsStarted(q) == \A j \in 1..Len(q) : q[j].op = "mount" => StartAfter(q, j)

(* e is what the computer has enumerated, t the table of the controller.    *)
TableShown(t, e) == \A s \in EnabledSlots(t) : e[s] \in {None, t[s]}
ReportsShown(e, q) ==
  \A i \in 1..Len(q) : q[i].op = "report" => e[q[i].slot] \in {None, q[i].hid}
Shows(t, e, q) == MountsStarted(q) /\ (HasStart(q) \/ (TableShown(t, e) /\ ReportsShown(e, q)))

(* Unless a start is to come, or is in the queue, the node's computer knows   *)
(* no slot, of the table or of a report under way, as another interface's.    *)
NodesShow == StartComes \/ \A n \in Node : Shows(table, exposed[n], toNode[n])
NotExposed == \A n \in Node : n \notin connected => exposed[n] = NoHid

LEMMA ShowsAppend ==
  ASSUME NEW q \in Seq(ToNodeMsg), NEW m \in ToNodeMsg, NEW e
  PROVE  /\ m.op = "start" => HasStart(Append(q, m)) /\ MountsStarted(Append(q, m))
         /\ m.op # "mount" /\ MountsStarted(q) => MountsStarted(Append(q, m))
         /\ HasStart(q) => HasStart(Append(q, m))
         /\ /\ ReportsShown(e, q)
            /\ m.op = "report" => e[m.slot] \in {None, m.hid}
            => ReportsShown(e, Append(q, m))
<1> DEFINE p == Append(q, m)
           k == Len(q)
<1>1. /\ k \in Nat /\ Len(p) = k + 1 /\ p[k + 1] = m
      /\ \A i \in 1..k : p[i] = q[i]
  BY AppendProperties
<1>2. \A i \in 1..k + 1 : i = k + 1 \/ i \in 1..k
  BY <1>1
<1> HIDE DEF p
<1>3. HasStart(q) => HasStart(p)
  BY <1>1 DEF HasStart
<1>4. ASSUME NEW j \in 1..k, StartAfter(q, j) PROVE StartAfter(p, j)
  BY <1>1, <1>4 DEF StartAfter
<1>5. ASSUME m.op # "mount", MountsStarted(q) PROVE MountsStarted(p)
  <2> SUFFICES ASSUME NEW j \in 1..k + 1, p[j].op = "mount" PROVE StartAfter(p, j)
    BY <1>1 DEF MountsStarted
  <2>1. j \in 1..k /\ q[j].op = "mount"
    BY <1>1, <1>2, <1>5
  <2>2. QED
    BY <1>4, <1>5, <2>1 DEF MountsStarted
<1>6. ASSUME m.op = "start" PROVE HasStart(p) /\ MountsStarted(p)
  <2>1. k + 1 \in 1..Len(p) /\ p[k + 1].op = "start"
    BY <1>1, <1>6
  <2>2. ASSUME NEW j \in 1..Len(p), p[j].op = "mount" PROVE StartAfter(p, j)
    <3>1. j \in 1..k + 1 /\ j # k + 1
      BY <1>1, <1>6, <2>2
    <3>2. k + 1 > j
      BY <1>1, <3>1
    <3>3. QED
      BY <2>1, <3>2 DEF StartAfter
  <2>3. QED
    BY <2>1, <2>2 DEF HasStart, MountsStarted
<1>7. ASSUME ReportsShown(e, q), m.op = "report" => e[m.slot] \in {None, m.hid}
      PROVE  ReportsShown(e, p)
  <2> SUFFICES ASSUME NEW i \in 1..k + 1, p[i].op = "report" PROVE e[p[i].slot] \in {None, p[i].hid}
    BY <1>1 DEF ReportsShown
  <2>1. CASE i = k + 1
    BY <1>1, <1>7, <2>1
  <2>2. CASE i \in 1..k
    BY <1>1, <1>7, <2>2 DEF ReportsShown
  <2>3. QED
    BY <1>2, <2>1, <2>2
<1>8. QED
  BY <1>3, <1>5, <1>6, <1>7 DEF p

LEMMA ShowsTail ==
  ASSUME NEW q \in Seq(ToNodeMsg), q # << >>, NEW e
  PROVE  /\ MountsStarted(q) => MountsStarted(Tail(q))
         /\ Head(q).op # "start" /\ HasStart(q) => HasStart(Tail(q))
         /\ ReportsShown(e, q) => ReportsShown(e, Tail(q))
<1> DEFINE p == Tail(q)
           k == Len(q) - 1
<1>1. /\ Head(q) = q[1] /\ k \in Nat /\ Len(q) = k + 1 /\ Len(p) = k
      /\ \A i \in 1..k : p[i] = q[i + 1]
  BY HeadTypes
<1> HIDE DEF p, k
<1>2. \A i \in 1..k : i + 1 \in 1..k + 1
  BY <1>1
<1>3. \A i \in 1..k + 1 : i = 1 \/ (i - 1 \in 1..k /\ p[i - 1] = q[i])
  <2> SUFFICES ASSUME NEW i \in 1..k + 1, i # 1 PROVE i - 1 \in 1..k /\ p[i - 1] = q[i]
    OBVIOUS
  <2>1. i - 1 \in 1..k /\ (i - 1) + 1 = i
    BY <1>1
  <2>2. QED
    BY <1>1, <2>1
<1>4. ASSUME MountsStarted(q) PROVE MountsStarted(p)
  <2> SUFFICES ASSUME NEW j \in 1..k, p[j].op = "mount" PROVE StartAfter(p, j)
    BY <1>1 DEF MountsStarted
  <2>1. j + 1 \in 1..k + 1 /\ q[j + 1].op = "mount"
    BY <1>1, <1>2
  <2>2. PICK i \in 1..k + 1 : i > j + 1 /\ q[i].op = "start"
    BY <1>1, <1>4, <2>1 DEF MountsStarted, StartAfter
  <2>3. i - 1 \in 1..k /\ p[i - 1] = q[i] /\ i - 1 > j
    BY <1>3, <2>2
  <2>4. QED
    BY <1>1, <2>2, <2>3 DEF StartAfter
<1>5. ASSUME Head(q).op # "start", HasStart(q) PROVE HasStart(p)
  <2>1. PICK i \in 1..k + 1 : q[i].op = "start"
    BY <1>1, <1>5 DEF HasStart
  <2>2. i - 1 \in 1..k /\ p[i - 1] = q[i]
    BY <1>1, <1>3, <1>5, <2>1
  <2>3. QED
    BY <1>1, <2>1, <2>2 DEF HasStart
<1>6. ASSUME ReportsShown(e, q) PROVE ReportsShown(e, p)
  BY <1>1, <1>2, <1>6 DEF ReportsShown
<1>7. QED
  BY <1>4, <1>5, <1>6 DEF p

LEMMA ShowsNothing ==
  ASSUME NEW t, NEW q \in Seq(ToNodeMsg)
  PROVE  /\ TableShown(t, NoHid) /\ ReportsShown(NoHid, q)
         /\ MountsStarted(<< >>) /\ Shows(t, NoHid, << >>)
<1>1. \A s \in Slot : NoHid[s] = None
  BY DEF NoHid
<1>2. TableShown(t, NoHid)
  BY <1>1 DEF TableShown, EnabledSlots
<1>3. ASSUME NEW p \in Seq(ToNodeMsg) PROVE ReportsShown(NoHid, p)
  <2>1. \A i \in 1..Len(p) : p[i] \in ToNodeMsg
    OBVIOUS
  <2>2. \A i \in 1..Len(p) : p[i].op = "report" => p[i].slot \in Slot
    BY <2>1, MessagesRead
  <2>3. QED
    BY <1>1, <2>2 DEF ReportsShown
<1>4. MountsStarted(<< >>) /\ << >> \in Seq(ToNodeMsg)
  BY DEF MountsStarted
<1>5. QED
  BY <1>2, <1>3, <1>4 DEF Shows

LEMMA InitNodesShow == Init => NodesShow /\ NotExposed
<1> SUFFICES ASSUME Init, NEW n \in Node
             PROVE  Shows(table, exposed[n], toNode[n]) /\ exposed[n] = NoHid
  BY DEF NodesShow, NotExposed
<1>1. exposed[n] = NoHid /\ toNode[n] = << >>
  BY DEF Init, Node
<1>2. << >> \in Seq(ToNodeMsg)
  OBVIOUS
<1>3. Shows(table, NoHid, << >>)
  BY <1>2, ShowsNothing
<1>4. QED
  BY <1>1, <1>3

LEMMA NextNotExposed ==
  ASSUME Connections, NotExposed, MessageRoom, [Next]_vars
  PROVE  NotExposed'
<1> SUFFICES ASSUME NEW n \in Node, n \notin connected' PROVE exposed'[n] = NoHid
  BY DEF NotExposed
<1>1. /\ TypeOK /\ n \in Computer /\ n # Local /\ n \notin connected
      /\ toNode[n] = << >> /\ nodeTable[n] = NoHid /\ exposed[n] = NoHid
  BY ConnectedGrows DEF Connections, Unconnected, NotExposed, Node
<1>2. ~NodeHandles(n)
  BY <1>1 DEF NodeHandles
<1>3. NodeRestart(n) => exposed'[n] = NoHid
  BY <1>1 DEF NodeRestart, TypeOK
<1>4. QED
  BY <1>1, <1>2, <1>3, ExposedSteps

(* A node that is told everything shows it, for the announcement is empty     *)
(* or ends with a start.                                                   *)
LEMMA ShowsAnnounced ==
  ASSUME TypeOK, NEW n \in Node, NEW e, Shows(table, e, toNode[n]),
         Len(toNode[n]) + Len(Announcement) <= MessageQueueSize,
         usbReady \/ EnabledSlots(table) = {}
  PROVE  Shows(table, e, EnqueueAll(toNode[n], Announcement))
<1> DEFINE a == Announcement
           k == Cardinality(EnabledSlots(table))
           q == toNode[n]
           p == EnqueueAll(q, a)
<1>1. /\ a \in Seq(ToNodeMsg) /\ k \in Nat
      /\ Len(a) = k + IF usbReady THEN 1 ELSE 0
      /\ usbReady => a[k + 1] = StartMsg
  BY AnnouncementFacts
<1>2. /\ MessageQueueSize \in Nat /\ q \in Seq(ToNodeMsg) /\ Len(q) <= MessageQueueSize
      /\ Len(q) \in Nat /\ Len(q) + Len(a) <= MessageQueueSize
  BY KvmAssumption DEF TypeOK
<1>3. Shows(table, e, q)
  OBVIOUS
<1>4. EnabledSlots(table) = {} => k = 0
  BY FS_EmptySet
<1> HIDE DEF a, k, q
<1>5. /\ p \in Seq(ToNodeMsg) /\ Len(p) = Len(q) + Len(a)
      /\ \A i \in 1..Len(q) : p[i] = q[i]
      /\ \A i \in 1..Len(p) : i > Len(q) => p[i] = a[i - Len(q)]
  BY <1>1, <1>2, FittingFacts DEF EnqueueAll
<1> HIDE DEF p
<1>6. CASE usbReady
  <2> DEFINE last == Len(q) + (k + 1)
  <2>1. Len(p) = last /\ last \in 1..Len(p) /\ last > Len(q) /\ last - Len(q) = k + 1
    BY <1>1, <1>2, <1>5, <1>6
  <2> HIDE DEF last
  <2>2. p[last] = StartMsg
    BY <1>1, <1>5, <1>6, <2>1
  <2>3. p[last].op = "start"
    BY <2>2 DEF StartMsg
  <2>4. HasStart(p)
    BY <2>1, <2>3 DEF HasStart
  <2>5. ASSUME NEW j \in 1..Len(p), p[j].op = "mount" PROVE StartAfter(p, j)
    <3>1. j # last
      BY <2>3, <2>5
    <3>2. last > j
      BY <2>1, <3>1
    <3>3. QED
      BY <2>1, <2>3, <3>2 DEF StartAfter
  <2>6. QED
    BY <2>4, <2>5 DEF Shows, MountsStarted, p, q, a
<1>7. CASE ~usbReady
  <2>1. Len(p) = Len(q)
    BY <1>1, <1>2, <1>4, <1>5, <1>7
  <2>2. p = q
    BY <1>2, <1>5, <2>1
  <2>3. QED
    BY <1>3, <2>2 DEF p, q, a
<1>8. QED
  BY <1>6, <1>7

(* ... and so does one whose computer enumerates what it knows, when there   *)
(* is no start, and so no mount, in its queue.                              *)
LEMMA ShowsEnumerated ==
  ASSUME NEW t, NEW nt, NEW q \in Seq(ToNodeMsg), MountsStarted(q),
         NoOther(t, nt, q), ReportsRight(nt, q)
  PROVE  Shows(t, nt, q)
<1> SUFFICES ASSUME ~HasStart(q) PROVE TableShown(t, nt) /\ ReportsShown(nt, q)
  BY DEF Shows
<1>1. \A i \in 1..Len(q) : q[i].op # "mount"
  BY DEF MountsStarted, HasStart, StartAfter
<1>2. Len(q) \in Nat
  OBVIOUS
<1>3. ASSUME NEW k \in 0..Len(q), NEW s PROVE Held(nt, q, k, s) = nt[s]
  <2>1. k \in Nat /\ \A i \in 1..k : ~IsMount(q[i], s)
    BY <1>1, <1>2 DEF IsMount
  <2>2. QED
    BY <2>1, HeldNone
<1>4. TableShown(t, nt)
  <2>1. Len(q) \in 0..Len(q)
    BY <1>2
  <2>2. QED
    BY <1>3, <2>1 DEF NoOther, TableShown
<1>5. ReportsShown(nt, q)
  <2> SUFFICES ASSUME NEW i \in 1..Len(q), q[i].op = "report"
               PROVE  nt[q[i].slot] \in {None, q[i].hid}
    BY DEF ReportsShown
  <2>1. Held(nt, q, i, q[i].slot) \in {None, q[i].hid} /\ i \in 0..Len(q)
    BY <1>2 DEF ReportsRight
  <2>2. QED
    BY <1>3, <2>1
<1>6. QED
  BY <1>4, <1>5

LEMMA NextNodesShow ==
  ASSUME Connections, Replicas, MountsAnnounced, LocalStarts, NotExposed, NodesShow,
         MessageRoom, ActionRoom, [Next]_vars
  PROVE  NodesShow'
<1> DEFINE Goal(n) == Shows(table', exposed'[n], toNode'[n])
<1> SUFFICES ASSUME ~StartComes', NEW n \in Node PROVE Goal(n)
  BY DEF NodesShow
<1> DEFINE q == toNode[n]
           e == exposed[n]
<1>1. /\ TypeOK /\ ReadyConnected /\ Unconnected /\ q \in Seq(ToNodeMsg)
      /\ n \in Computer /\ n # Local /\ exposed \in [Computer -> Table]
  BY DEF Connections, TypeOK, Node
<1>2. ~HidMount
  BY <1>1, MountStarts
<1>3. Shrinks
  BY <1>1, <1>2, TableSteps
<1>4. TableShown(table, e) => TableShown(table', e)
  BY <1>3 DEF Shrinks, TableShown
<1>5. CASE StartUsbDevices
  <2>1. /\ Broadcast(StartMsg) /\ exposed' = [exposed EXCEPT ![Local] = NoHid]
        /\ StartMsg \in ToNodeMsg /\ StartMsg.op = "start"
    BY <1>5, MessagesMade DEF StartUsbDevices, ConnectUsb, StartMsg
  <2>2. toNode'[n] = IF n \in connected THEN Append(q, StartMsg) ELSE q
    BY <1>1, <2>1, BroadcastFacts
  <2>3. CASE n \in connected
    BY <1>1, <2>1, <2>2, <2>3, ShowsAppend DEF Shows
  <2>4. CASE n \notin connected
    <3>1. q = << >> /\ exposed'[n] = NoHid
      BY <1>1, <2>1, <2>4 DEF Unconnected, NotExposed
    <3>2. QED
      BY <1>1, <2>2, <2>4, <3>1, ShowsNothing
  <2>5. QED
    BY <2>3, <2>4
<1>6. CASE ~StartUsbDevices
  <2>1. ~StartComes /\ Shows(table, e, q)
    BY <1>1, <1>6, StartStays DEF NodesShow
  <2> HIDE DEF q, e
  <2>2. Shows(table', e, q)
    BY <1>4, <2>1 DEF Shows
  <2>3. CASE NodeHandles(n)
    <3>1. q # << >> /\ toNode'[n] = Tail(q) /\ table' = table
      BY <1>1, <2>3 DEF NodeHandles, switchVars, TypeOK, q
    <3>2. MountsStarted(Tail(q))
      BY <1>1, <2>1, <3>1, ShowsTail DEF Shows
    <3>3. CASE Head(q).op = "start"
      <4>1. exposed'[n] = NoHid
        BY <1>1, <2>3, <3>3 DEF NodeHandles, ConnectUsb, q
      <4>2. Tail(q) \in Seq(ToNodeMsg)
        BY <1>1, <3>1, HeadTypes
      <4>3. QED
        BY <3>1, <3>2, <4>1, <4>2, ShowsNothing DEF Shows
    <3>4. CASE Head(q).op # "start"
      <4>1. exposed'[n] = e
        BY <2>3, <3>4 DEF NodeHandles, computerVars, q, e
      <4>2. QED
        BY <1>1, <2>1, <3>1, <3>2, <3>4, <4>1, ShowsTail DEF Shows
    <3>5. QED
      BY <3>3, <3>4
  <2>4. CASE NodeRestart(n)
    <3>1. exposed'[n] = NoHid /\ toNode'[n] = q
      BY <1>1, <2>4 DEF NodeRestart, q
    <3>2. QED
      BY <1>1, <2>1, <3>1, ShowsNothing DEF Shows
  <2>5. CASE Enumerate(n)
    <3>1. exposed'[n] = nodeTable[n] /\ toNode'[n] = q /\ table' = table
      BY <1>1, <2>5 DEF Enumerate, switchVars, q
    <3>2. NoOther(table, nodeTable[n], q) /\ ReportsRight(nodeTable[n], q)
      BY DEF Replicas, q
    <3>3. QED
      BY <1>1, <2>1, <3>1, <3>2, ShowsEnumerated DEF Shows
  <2>6. CASE ReadyNow(n)
    <3>1. /\ toNode'[n] = EnqueueAll(q, Announcement) /\ exposed'[n] = e /\ table' = table
          /\ Len(q) + Len(Announcement) <= MessageQueueSize
      BY <2>6 DEF ReadyNow, ComputerReady, Take, MessageRoom, computerVars, switchVars, q, e
    <3>2. usbReady \/ EnabledSlots(table) = {}
      BY <2>1 DEF LocalStarts, LocalSlot
    <3>3. Shows(table, e, EnqueueAll(q, Announcement))
      BY <1>1, <2>1, <3>1, <3>2, ShowsAnnounced DEF q
    <3>4. QED
      BY <3>1, <3>3
  <2>7. CASE ~NodeHandles(n) /\ exposed'[n] = e /\ ~ReadyNow(n)
    <3>1. CASE toNode'[n] = q
      BY <2>2, <2>7, <3>1
    <3>2. ASSUME NEW m \in ToNodeMsg, m.op # "mount", toNode'[n] = Append(q, m), table' = table,
                 m.op = "report" => m.slot \in EnabledSlots(table) /\ table[m.slot] = m.hid
          PROVE  Goal(n)
      <4>1. /\ MountsStarted(Append(q, m)) /\ (HasStart(q) => HasStart(Append(q, m)))
            /\ /\ ReportsShown(e, q)
               /\ m.op = "report" => e[m.slot] \in {None, m.hid}
               => ReportsShown(e, Append(q, m))
        BY <1>1, <2>1, <3>2, ShowsAppend DEF Shows
      <4>2. CASE HasStart(q)
        BY <3>2, <4>1, <4>2 DEF Shows
      <4>3. CASE TableShown(table, e) /\ ReportsShown(e, q)
        <5>1. m.op = "report" => e[m.slot] \in {None, m.hid}
          BY <3>2, <4>3 DEF TableShown
        <5>2. QED
          BY <2>7, <3>2, <4>1, <4>3, <5>1 DEF Shows
      <4>4. QED
        BY <2>1, <4>2, <4>3 DEF Shows
    <3>3. \/ toNode'[n] = q
          \/ \E m \in ToNodeMsg :
               /\ m.op # "mount" /\ toNode'[n] = Append(q, m) /\ table' = table
               /\ m.op = "report" => m.slot \in EnabledSlots(table) /\ table[m.slot] = m.hid
      BY <1>1, <1>2, <2>7, LinkSteps DEF Same, Added, q
    <3>4. QED
      BY <3>1, <3>2, <3>3
  <2>8. QED
    BY <1>1, <1>6, <2>3, <2>4, <2>5, <2>6, <2>7, ExposedSteps DEF e
<1>7. QED
  BY <1>5, <1>6

LEMMA NodesMix == TypeOK /\ NodesShow => NodeMixedOnlyUntilStart
<1> SUFFICES ASSUME TypeOK, NodesShow, NEW n \in Node, toNode[n] # << >>,
                    Head(toNode[n]).op = "report"
             PROVE  \/ exposed[n][Head(toNode[n]).slot] \in {None, Head(toNode[n]).hid}
                    \/ \E i \in DOMAIN toNode[n] : toNode[n][i].op = "start"
                    \/ startDue \/ Queued("deviceMounted") > 0
  BY DEF NodeMixedOnlyUntilStart
<1> DEFINE q == toNode[n]
<1>1. q \in Seq(ToNodeMsg) /\ q # << >> /\ Head(q).op = "report"
  BY DEF TypeOK
<1>2. Head(q) = q[1] /\ Len(q) \in Nat \ {0} /\ DOMAIN q = 1..Len(q)
  BY <1>1, HeadTypes
<1>3. CASE StartComes
  BY <1>3, ManyQueued DEF StartComes
<1>4. CASE HasStart(q)
  BY <1>2, <1>4 DEF HasStart
<1>5. CASE ReportsShown(exposed[n], q)
  <2>1. 1 \in 1..Len(q)
    BY <1>2
  <2>2. QED
    BY <1>1, <1>2, <1>5, <2>1 DEF ReportsShown
<1>6. QED
  BY <1>3, <1>4, <1>5 DEF NodesShow, Shows

(* A computer behind a node never takes a report with the descriptor of       *)
(* another interface of the same slot (kvm_switch_node.c:50-58), unless the   *)
(* start that the new interface's device asks for is to come or is in the     *)
(* node's queue: whatever the number of nodes, restarts, unmounts and reused  *)
(* slots, as long as the queues have room.                                  *)
THEOREM NodesMixUntilStart ==
  Spec /\ []MessageRoom /\ []ActionRoom => []NodeMixedOnlyUntilStart
<1> DEFINE I == /\ Connections /\ Replicas /\ MountsAnnounced /\ LocalStarts
                /\ NotExposed /\ NodesShow
<1>1. Init => I
  BY InitConnections, InitReplicas, InitMountsAnnounced, InitLocalStarts, InitNodesShow
<1>2. I /\ MessageRoom /\ ActionRoom /\ [Next]_vars => I'
  <2> SUFFICES ASSUME I, MessageRoom, ActionRoom, [Next]_vars PROVE I'
    OBVIOUS
  <2>1. TypeOK
    BY DEF Connections
  <2>2. Connections' /\ Replicas'
    BY NextConnections, NextReplicas
  <2>3. MountsAnnounced' /\ LocalStarts'
    BY <2>1, NextMountsAnnounced, NextLocalStarts
  <2>4. NotExposed' /\ NodesShow'
    BY NextNotExposed, NextNodesShow
  <2>5. QED
    BY <2>2, <2>3, <2>4
<1>3. I => NodeMixedOnlyUntilStart
  BY NodesMix DEF Connections
<1>4. QED
  BY <1>1, <1>2, <1>3, PTL DEF Spec
=============================================================================
