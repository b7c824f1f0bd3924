--------------------------- MODULE UsbHost_proofs ---------------------------
(***************************************************************************)
(* Proofs about UsbHost, for every set of devices, every size of the queue  *)
(* and every number of requests, plugs, unplugs and reports.               *)
(***************************************************************************)
EXTENDS UsbHost, CommonLemmas, SequenceTheorems

(* What core 1 tells core 0. *)
Message ==
  [op : {"hidMount", "hidUnmount"}, dev : Device]
    \cup [op : Name, dev : Device, name : 0..MaxPlugs]

Types ==
  /\ TypeOK
  /\ toCore0 \in Seq(Message)
  /\ plugs \in 0..MaxPlugs /\ plugged \in [Device -> 0..MaxPlugs]
  /\ unplugs \in Nat

(* TinyUSB has one control pipe, and core 1 waits for it: a transfer is of  *)
(* a mounted device, nothing is enumerated and nothing processed meanwhile. *)
(* A string request stays at the head of the queue until it returns.       *)
OnePipe ==
  /\ transfer # None => /\ transfer.op \in Setting /\ transfer.dev \in mounted
                        /\ enumerating = None /\ ~shouldProcess
  /\ enumerating # None => enumerating \notin mounted
  /\ asking # "no" => queue # << >> /\ Head(queue).op \in Name /\ shouldProcess

(* The last request that is pending carries what was asked for last: the    *)
(* last in the queue, or else the transfer.                                *)
Asks(a, d, k) == a.dev = d /\ a.op = k
LastPendingWanted ==
  \A d \in mounted, k \in Setting :
    /\ \A i \in DOMAIN queue :
         Asks(queue[i], d, k) /\ (\A j \in DOMAIN queue : j > i => ~Asks(queue[j], d, k))
           => queue[i].value = wanted[d][k]
    /\ (\A i \in DOMAIN queue : ~Asks(queue[i], d, k)) /\ transfer # None /\ Asks(transfer, d, k)
         => transfer.value = wanted[d][k]

SettingInv == LastPendingWanted /\ LastRequestWins

(* A name that core 0 has, or is about to get with no unmount after it, and *)
(* the one just answered are those of the device at this address, unless    *)
(* core 0 missed that an earlier one left.                                 *)
NameRight(d, name) == d \in mounted /\ name = plugged[d]
NoUnmountFrom(i, d) ==
  \A j \in DOMAIN toCore0 : j >= i => ~(toCore0[j].op = "hidUnmount" /\ toCore0[j].dev = d)
NamesInv ==
  /\ \A d \in Device, n \in Name :
       names[d][n] # 0 /\ NoUnmountFrom(1, d) /\ d \notin stale => NameRight(d, names[d][n])
  /\ \A i \in DOMAIN toCore0 :
       toCore0[i].op \in Name /\ NoUnmountFrom(i, toCore0[i].dev) /\ toCore0[i].dev \notin stale
         => NameRight(toCore0[i].dev, toCore0[i].name)
  /\ asking = "done" /\ answer # 0 /\ Head(queue).dev \notin stale
       => NameRight(Head(queue).dev, answer)

HostInv == Types /\ OnePipe /\ SettingInv /\ NamesInv /\ PausedWithReason

-----------------------------------------------------------------------------

(* Strings and settings are told apart, and what is queued is an action.    *)
LEMMA ActionFacts ==
  /\ Setting \cap Name = {}
  /\ \A a \in Action : /\ a.dev \in Device /\ a.value \in Value
                       /\ a.op \in Setting \cup Name
  /\ \A d \in Device, k \in Setting, v \in Value :
       /\ SetAction(d, k, v) \in Action
       /\ SetAction(d, k, v) = [op |-> k, dev |-> d, value |-> v]
  /\ \A d \in Device, n \in Name :
       /\ StringRequest(d, n) \in Action
       /\ StringRequest(d, n) = [op |-> n, dev |-> d, value |-> 0]
  /\ None \notin Action
<1>1. Setting \cap Name = {} /\ 0 \in Value
  BY DEF Setting, Name, Value
<1>2. ASSUME NEW d \in Device, NEW k \in Setting, NEW v \in Value
      PROVE  /\ SetAction(d, k, v) \in Action
             /\ SetAction(d, k, v) = [op |-> k, dev |-> d, value |-> v]
  BY DEF Action, SetAction
<1>3. ASSUME NEW d \in Device, NEW n \in Name
      PROVE  /\ StringRequest(d, n) \in Action
             /\ StringRequest(d, n) = [op |-> n, dev |-> d, value |-> 0]
  BY DEF Action, StringRequest
<1>4. ASSUME NEW a \in Action
      PROVE  a.dev \in Device /\ a.value \in Value /\ a.op \in Setting \cup Name
  BY <1>1 DEF Action, SetAction, StringRequest
<1>5. QED
  BY <1>1, <1>2, <1>3, <1>4, NoneIsNoAction

LEMMA AcceptFacts ==
  ASSUME NEW q \in Seq(Action), Len(q) <= QueueSize, NEW a \in Action
  PROVE  /\ Accept(q, a) \in Seq(Action) /\ Len(Accept(q, a)) <= QueueSize
         /\ \A i \in DOMAIN q : Accept(q, a)[i] = q[i]
         /\ DOMAIN q \subseteq DOMAIN Accept(q, a)
         /\ \A i \in DOMAIN Accept(q, a) : i \in DOMAIN q \/ (i = Len(q) + 1 /\ Accept(q, a)[i] = a)
         /\ Accept(q, a) = q \/ Accept(q, a) = Append(q, a)
BY UsbHostAssumption DEF Accept

LEMMA FreshType == \A d \in Device : Fresh(d) \in [Setting -> Value]
BY DEF Fresh, Value

LEMMA OfferFacts ==
  ASSUME toCore0 \in Seq(Message), Len(toCore0) <= Core0Size, NEW m \in Message, Offer(m)
  PROVE  /\ toCore0' \in Seq(Message) /\ Len(toCore0') <= Core0Size
         /\ toCore0' = toCore0 \/ toCore0' = Append(toCore0, m)
BY UsbHostAssumption DEF Offer

(* What is queued behind it leaves the head of the queue alone. *)
LEMMA HeadStays ==
  ASSUME NEW q \in Seq(Action), Len(q) <= QueueSize, q # << >>, NEW a \in Action
  PROVE  Accept(q, a) # << >> /\ Head(Accept(q, a)) = Head(q)
BY DEF Accept

LEMMA InitHostInv == Init => HostInv
<1> SUFFICES ASSUME Init PROVE HostInv
  OBVIOUS
<1> USE UsbHostAssumption DEF Init
<1>1. Types
  BY FreshType DEF Types, TypeOK, Nameless, Value
<1>2. OnePipe
  BY DEF OnePipe
<1>3. SettingInv
  BY DEF SettingInv, LastPendingWanted, LastRequestWins
<1>4. NamesInv
  BY DEF NamesInv, Nameless, Name
<1>5. PausedWithReason
  BY DEF PausedWithReason
<1>6. QED
  BY <1>1, <1>2, <1>3, <1>4, <1>5 DEF HostInv

LEMMA NextTypes == Types /\ OnePipe /\ [Next]_vars => Types'
<1> SUFFICES ASSUME Types, OnePipe, [Next]_vars PROVE Types'
  OBVIOUS
<1> USE UsbHostAssumption, ActionFacts DEF Types, TypeOK,
        actionVars, stringVars, deviceVars, core0Vars, reportVars, countVars
<1>1. ASSUME NEW d \in Device, NEW k \in Setting, NEW v \in Value, Request(d, k, v)
      PROVE  Types'
  <2>1. queue' \in Seq(Action) /\ Len(queue') <= QueueSize
    BY <1>1, AcceptFacts DEF Request
  <2>2. wanted' \in [Device -> [Setting -> Value]]
    BY <1>1 DEF Request
  <2>3. QED
    BY <1>1, <2>1, <2>2 DEF Request
<1>2. ASSUME NEW d \in Device, Attach(d) PROVE Types'
  BY <1>2 DEF Attach
<1>3. ASSUME NEW d \in Device, Unplug(d) PROVE Types'
  <2>1. [op |-> "hidUnmount", dev |-> d] \in Message
    BY DEF Message
  <2>2. toCore0' \in Seq(Message) /\ Len(toCore0') <= Core0Size
        /\ transfer' \in Action \cup {None} /\ stale' \subseteq Device
    <3>1. transfer' \in {transfer, None} /\ stale' \subseteq Device
      BY <1>3 DEF Unplug
    <3>2. UNCHANGED toCore0 \/ Offer([op |-> "hidUnmount", dev |-> d])
      BY <1>3 DEF Unplug
    <3>3. toCore0' \in Seq(Message) /\ Len(toCore0') <= Core0Size
      BY <2>1, <3>2, OfferFacts
    <3>4. QED
      BY <3>1, <3>3, ZenonT(30)
  <2>3. enumerating' \in Device \cup {None} /\ mounted' \subseteq Device
        /\ listening' \subseteq mounted'
    BY <1>3 DEF Unplug, OnePipe
  <2>4. QED
    BY <1>3, <2>2, <2>3 DEF Unplug
<1>4. ASSUME NEW d \in Device, NEW empty \in BOOLEAN, ReportReceived(d, empty)
      PROVE  Types'
  <2>1. emptyCount' \in 0..255
    BY <1>4 DEF ReportReceived
  <2>2. QED
    BY <1>4, <2>1 DEF ReportReceived
<1>5. CASE Core0
  <2> DEFINE m == Head(toCore0)
  <2>1. m \in Message /\ toCore0' \in Seq(Message) /\ Len(toCore0') <= Core0Size
    BY <1>5, HeadTailProperties DEF Core0
  <2>2. m.dev \in Device
    BY <2>1 DEF Message
  <2>3. CASE m.op = "hidMount"
    <3>1. known' = known \cup {m.dev} /\ names' = names
      BY <1>5, <2>3 DEF Core0
    <3>2. QED
      BY <1>5, <2>1, <2>2, <3>1 DEF Core0
  <2>4. CASE m.op = "hidUnmount"
    <3>1. known' = known \ {m.dev} /\ names' = [names EXCEPT ![m.dev] = Nameless]
      BY <1>5, <2>4 DEF Core0, AfterUnmount
    <3>2. Nameless \in [Name -> 0..MaxPlugs]
      BY DEF Nameless
    <3>3. QED
      BY <1>5, <2>1, <2>2, <3>1, <3>2 DEF Core0
  <2>5. CASE m.op \in Name
    <3>1. m.name \in 0..MaxPlugs
      BY <2>1, <2>5 DEF Message, Name
    <3>2. known' = known /\ names' = [names EXCEPT ![m.dev][m.op] = m.name]
      BY <1>5, <2>5 DEF Core0, Name
    <3>3. QED
      BY <1>5, <2>1, <2>2, <2>5, <3>1, <3>2 DEF Core0
  <2>6. QED
    BY <2>1, <2>3, <2>4, <2>5 DEF Message
<1>6. CASE ProcessSet
  <2> DEFINE a == Head(queue)
  <2>1. a \in Action /\ Tail(queue) \in Seq(Action) /\ Len(Tail(queue)) <= QueueSize
    BY <1>6, HeadTailProperties DEF ProcessSet, Processing
  <2>2. /\ queue' \in {queue, Tail(queue)} /\ transfer' \in {transfer, a}
        /\ shouldProcess' \in BOOLEAN
    BY <1>6 DEF ProcessSet, AfterRefusal
  <2> HIDE DEF a
  <2>3. QED
    BY <1>6, <2>1, <2>2, ZenonT(30) DEF ProcessSet
<1>7. CASE StartString
  BY <1>7 DEF StartString
<1>8. CASE AnswerString
  BY <1>8 DEF AnswerString, OnePipe
<1>9. CASE ReturnString
  <2> DEFINE a == Head(queue)
             m == [op |-> a.op, dev |-> a.dev, name |-> answer]
  <2>1. /\ a \in Action /\ a.op \in Name
        /\ Tail(queue) \in Seq(Action) /\ Len(Tail(queue)) <= QueueSize
    BY <1>9, HeadTailProperties DEF ReturnString, OnePipe
  <2>2. m \in Message
    BY <2>1 DEF Message
  <2>3. /\ queue' \in {queue, Tail(queue)} /\ shouldProcess' \in BOOLEAN
        /\ UNCHANGED toCore0 \/ Offer(m)
    BY <1>9 DEF ReturnString
  <2> HIDE DEF a, m
  <2>4. toCore0' \in Seq(Message) /\ Len(toCore0') <= Core0Size
    BY <2>2, <2>3, OfferFacts
  <2>5. asking' \in {"no", "waiting", "done"} /\ answer' \in 0..MaxPlugs
    BY <1>9 DEF ReturnString
  <2>6. queue' \in Seq(Action) /\ Len(queue') <= QueueSize
    BY <2>1, <2>3
  <2>7. QED
    BY <1>9, <2>3, <2>4, <2>5, <2>6, ZenonT(30) DEF ReturnString
<1>10. CASE Mount
  <2> DEFINE d == enumerating
             q == Accept(queue, StringRequest(d, "manufacturer"))
  <2>1. d \in Device
    BY <1>10 DEF Mount
  <2>2. StringRequest(d, "manufacturer") \in Action /\ StringRequest(d, "product") \in Action
    BY <2>1 DEF Name
  <2>3. q \in Seq(Action) /\ Len(q) <= QueueSize
    BY <2>2, AcceptFacts
  <2>4. queue' \in Seq(Action) /\ Len(queue') <= QueueSize
    <3>1. queue' = Accept(q, StringRequest(d, "product"))
      BY <1>10 DEF Mount
    <3> HIDE DEF q, d
    <3>2. QED
      BY <2>2, <2>3, <3>1, AcceptFacts
  <2>5. \A k \in Setting : Leftover(d, k) \in Value
    <3> SUFFICES ASSUME NEW k \in Setting PROVE Leftover(d, k) \in Value
      OBVIOUS
    <3> DEFINE later == {i \in DOMAIN queue : queue[i].dev = d /\ queue[i].op = k}
    <3>1. later # {} => Max(later) \in 1..Len(queue)
      <4>1. later \in SUBSET (1..Len(queue)) /\ Len(queue) \in Nat
        OBVIOUS
      <4> HIDE DEF later
      <4>2. QED
        BY <4>1, FirstAndLast
    <3>2. \A i \in 1..Len(queue) : queue[i].value \in Value
      OBVIOUS
    <3> HIDE DEF later
    <3>3. QED
      BY <2>1, <3>1, <3>2, FreshType DEF Leftover, later
  <2>6. setting' \in [Device -> [Setting -> Value]] /\ wanted' \in [Device -> [Setting -> Value]]
    BY <1>10, <2>1, <2>5, FreshType DEF Mount
  <2>7. [op |-> "hidMount", dev |-> d] \in Message
    BY <2>1 DEF Message
  <2>8. toCore0' \in Seq(Message) /\ Len(toCore0') <= Core0Size
    BY <1>10, <2>7, OfferFacts DEF Mount
  <2>9. QED
    BY <1>10, <2>1, <2>4, <2>6, <2>8 DEF Mount, AfterMount
<1>11. CASE Complete
  BY <1>11 DEF Complete, AfterComplete, OnePipe
<1>12. CASE UNCHANGED vars
  BY <1>12 DEF vars
<1> HIDE DEF Types
<1>13. QED
  BY <1>1, <1>2, <1>3, <1>4, <1>5, <1>6, <1>7, <1>8, <1>9, <1>10, <1>11, <1>12 DEF Next

LEMMA NextOnePipe == Types /\ OnePipe /\ [Next]_vars => OnePipe'
<1> SUFFICES ASSUME Types, OnePipe, [Next]_vars PROVE OnePipe'
  OBVIOUS
<1> USE DEF OnePipe
<1>0. queue \in Seq(Action) /\ Len(queue) <= QueueSize
  BY DEF Types, TypeOK
<1>1. CASE UNCHANGED <<queue, transfer, enumerating, mounted, shouldProcess, asking>>
  BY <1>1
<1>2. ASSUME NEW d \in Device, NEW k \in Setting, NEW v \in Value, Request(d, k, v)
      PROVE  OnePipe'
  <2>1. asking # "no" => queue' # << >> /\ Head(queue') = Head(queue)
    BY <1>0, <1>2, ActionFacts, HeadStays DEF Request
  <2>2. QED
    BY <1>2, <2>1 DEF Request, stringVars, deviceVars
<1>3. ASSUME NEW d \in Device, Attach(d) PROVE OnePipe'
  BY <1>3 DEF Attach, PipeFree, actionVars, stringVars, deviceVars
<1>4. ASSUME NEW d \in Device, Unplug(d) PROVE OnePipe'
  <2>1. /\ UNCHANGED <<queue, shouldProcess, asking>> /\ transfer' \in {transfer, None}
    BY <1>4 DEF Unplug, stringVars
  <2>2. CASE d = enumerating /\ enumerating' = None /\ UNCHANGED <<mounted, transfer>>
    BY <2>1, <2>2, UsbHostAssumption
  <2>3. CASE /\ mounted' = mounted \ {d} /\ enumerating' = enumerating
             /\ transfer' = IF transfer # None /\ transfer.dev = d THEN None ELSE transfer
    BY <2>1, <2>3
  <2>4. QED
    BY <1>4, <2>2, <2>3 DEF Unplug
<1>5. CASE ProcessSet
  BY <1>5 DEF ProcessSet, Processing, Startable, PipeFree, stringVars, deviceVars
<1>6. CASE StartString
  BY <1>6 DEF StartString, Processing, Startable, PipeFree, deviceVars
<1>7. CASE AnswerString
  BY <1>7 DEF AnswerString, actionVars, deviceVars
<1>8. CASE ReturnString
  BY <1>8 DEF ReturnString, deviceVars
<1>9. CASE Mount
  <2>1. /\ enumerating \in Device
        /\ queue' = Accept(Accept(queue, StringRequest(enumerating, "manufacturer")),
                           StringRequest(enumerating, "product"))
    BY <1>9 DEF Mount, Types, TypeOK
  <2>2. \A n \in Name : StringRequest(enumerating, n) \in Action
    BY <2>1, ActionFacts
  <2>3. asking # "no" => queue' # << >> /\ Head(queue') = Head(queue)
    BY <1>0, <2>1, <2>2, AcceptFacts, HeadStays DEF Name
  <2>4. QED
    BY <1>9, <2>3 DEF Mount, AfterMount, stringVars
<1>10. CASE Complete
  BY <1>10 DEF Complete, stringVars
<1>11. QED
  BY <1>1, <1>2, <1>3, <1>4, <1>5, <1>6, <1>7, <1>8, <1>9, <1>10
     DEF Next, Core0, ReportReceived, vars, actionVars, stringVars, deviceVars

LEMMA NextPaused ==
  Types /\ OnePipe /\ PausedWithReason /\ [Next]_vars => PausedWithReason'
<1> SUFFICES ASSUME Types, OnePipe, PausedWithReason, [Next]_vars PROVE PausedWithReason'
  OBVIOUS
<1> USE DEF PausedWithReason
<1>0. queue \in Seq(Action) /\ unplugs \in Nat
  BY DEF Types, TypeOK
<1>1. CASE UNCHANGED <<queue, shouldProcess, transfer, unplugs>>
  BY <1>1
<1>2. ASSUME NEW d \in Device, NEW k \in Setting, NEW v \in Value, Request(d, k, v)
      PROVE  PausedWithReason'
  <2>1. SetAction(d, k, v) \in Action
    BY ActionFacts
  <2>2. queue # << >> => queue' # << >> /\ Head(queue') = Head(queue)
    BY <1>0, <1>2, <2>1 DEF Request, Accept
  <2>3. QED
    BY <1>2, <2>2 DEF Request
<1>3. ASSUME NEW d \in Device, Unplug(d) PROVE PausedWithReason'
  BY <1>0, <1>3 DEF Unplug
<1>4. CASE ProcessSet
  <2>1. Head(queue) \in Action
    BY <1>0, <1>4, HeadTailProperties DEF ProcessSet, Processing
  <2>2. \/ transfer' = transfer /\ shouldProcess' = shouldProcess
        \/ transfer' = Head(queue)
    BY <1>4 DEF ProcessSet
  <2>3. QED
    BY <1>4, <2>1, <2>2, ActionFacts DEF ProcessSet, Processing
<1>5. CASE StartString
  BY <1>5 DEF StartString, Processing
<1>6. CASE ReturnString
  BY <1>6 DEF ReturnString, OnePipe
<1>7. CASE Mount
  BY <1>7 DEF Mount, AfterMount
<1>8. CASE Complete
  BY <1>8 DEF Complete, AfterComplete
<1>9. QED
  BY <1>1, <1>2, <1>3, <1>4, <1>5, <1>6, <1>7, <1>8
     DEF Next, Attach, Core0, AnswerString, ReportReceived, vars, actionVars, countVars

LEMMA NextNamesInv == Types /\ OnePipe /\ NamesInv /\ [Next]_vars => NamesInv'
<1> SUFFICES ASSUME Types, OnePipe, NamesInv, [Next]_vars PROVE NamesInv'
  OBVIOUS
<1>0. /\ toCore0 \in Seq(Message) /\ Len(toCore0) <= Core0Size /\ names \in [Device -> [Name -> 0..MaxPlugs]]
      /\ plugged \in [Device -> 0..MaxPlugs]
      /\ \A m \in Message : m.dev \in Device /\ m.op \in Name \cup {"hidMount", "hidUnmount"}
      /\ Name \cap {"hidMount", "hidUnmount"} = {}
  BY DEF Types, TypeOK, Message, Name
<1>1. CASE UNCHANGED <<toCore0, names, mounted, plugged, stale>>
           /\ (asking' = "done" => asking = "done" /\ answer' = answer /\ Head(queue').dev = Head(queue).dev)
  BY <1>1 DEF NamesInv, NoUnmountFrom, NameRight
(* The request that is answered stays at the head. *)
<1>9. (\E d \in Device, k \in Setting, v \in Value : Request(d, k, v)) \/ Mount =>
        UNCHANGED <<asking, answer>>
        /\ (asking # "no" => Head(queue) = Head(queue'))
  <2>1. queue \in Seq(Action) /\ Len(queue) <= QueueSize
    BY DEF Types, TypeOK
  <2>2. ASSUME NEW d \in Device, NEW k \in Setting, NEW v \in Value, Request(d, k, v)
        PROVE  asking # "no" => Head(queue) = Head(queue')
    BY <2>1, <2>2, ActionFacts, HeadStays DEF Request, OnePipe
  <2>3. ASSUME Mount PROVE asking # "no" => Head(queue) = Head(queue')
    <3>1. /\ enumerating \in Device
          /\ queue' = Accept(Accept(queue, StringRequest(enumerating, "manufacturer")),
                             StringRequest(enumerating, "product"))
      BY <2>3 DEF Mount, Types, TypeOK
    <3>2. \A n \in Name : StringRequest(enumerating, n) \in Action
      BY <3>1, ActionFacts
    <3> DEFINE s1 == StringRequest(enumerating, "manufacturer")
               s2 == StringRequest(enumerating, "product")
    <3>3. s1 \in Action /\ s2 \in Action
      BY <3>2 DEF Name
    <3> HIDE DEF s1, s2
    <3>4. queue' = Accept(Accept(queue, s1), s2)
      BY <3>1 DEF s1, s2
    <3>5. Accept(queue, s1) \in Seq(Action) /\ Len(Accept(queue, s1)) <= QueueSize
      BY <2>1, <3>3, AcceptFacts
    <3>6. queue # << >> => Head(queue') = Head(queue)
      BY <2>1, <3>3, <3>4, <3>5, HeadStays
    <3>7. QED
      BY <3>6 DEF OnePipe
  <2>4. QED
    BY <2>2, <2>3 DEF Request, Mount, stringVars
<1>2. ASSUME NEW d \in Device, Unplug(d) PROVE NamesInv'
  <2>0. UNCHANGED <<names, plugged, queue, asking, answer>>
    BY <1>2 DEF Unplug, stringVars
  <2>1. CASE UNCHANGED <<toCore0, mounted, stale>>
    BY <1>1, <2>0, <2>1
  <2>2. CASE /\ mounted' = mounted \ {d} /\ toCore0' = toCore0 /\ stale' = stale \cup {d}
    <3>1. \A name : \A e \in Device \ {d} : NameRight(e, name) => NameRight(e, name)'
      BY <2>0, <2>2 DEF NameRight
    <3>2. \A e \in Device, i \in DOMAIN toCore0 \cup {1} : NoUnmountFrom(i, e)' <=> NoUnmountFrom(i, e)
      BY <2>2 DEF NoUnmountFrom
    <3>3. ASSUME NEW e \in Device, NEW n \in Name, names'[e][n] # 0, NoUnmountFrom(1, e)',
                 e \notin stale'
          PROVE  NameRight(e, names[e][n])'
      BY <2>0, <2>2, <3>1, <3>2, <3>3 DEF NamesInv
    <3>4. ASSUME NEW i \in DOMAIN toCore0', toCore0'[i].op \in Name,
                 NoUnmountFrom(i, toCore0[i].dev)', toCore0[i].dev \notin stale'
          PROVE  NameRight(toCore0[i].dev, toCore0[i].name)'
      <4>1. i \in DOMAIN toCore0 /\ toCore0[i] \in Message
        BY <1>0, <2>2, <3>4
      <4>2. QED
        BY <1>0, <2>0, <2>2, <3>1, <3>2, <3>4, <4>1 DEF NamesInv
    <3>5. ASSUME asking' = "done", answer' # 0, Head(queue').dev \notin stale'
          PROVE  NameRight(Head(queue).dev, answer)'
      <4>1. Head(queue).dev \in Device
        BY <2>0, <3>5, ActionFacts, HeadTailProperties DEF OnePipe, Types, TypeOK
      <4>2. QED
        BY <2>0, <2>2, <3>1, <3>5, <4>1 DEF NamesInv
    <3>6. QED
      BY <2>0, <2>2, <3>3, <3>4, <3>5 DEF NamesInv
  <2>3. CASE /\ mounted' = mounted \ {d}
             /\ toCore0' = Append(toCore0, [op |-> "hidUnmount", dev |-> d])
             /\ stale \ {d} \subseteq stale' /\ (Overtakes(d) => d \in stale')
    <3>1. [op |-> "hidUnmount", dev |-> d] \in Message
      BY DEF Message
    <3>2. /\ DOMAIN toCore0' = 1..Len(toCore0) + 1 /\ DOMAIN toCore0 = 1..Len(toCore0)
          /\ \A i \in DOMAIN toCore0 : toCore0'[i] = toCore0[i]
          /\ toCore0'[Len(toCore0) + 1] = [op |-> "hidUnmount", dev |-> d]
          /\ Len(toCore0) \in Nat
      BY <1>0, <2>3, <3>1, AppendProperties
    <3>3. \A e \in Device, i \in 1..Len(toCore0) + 1 :
            NoUnmountFrom(i, e)' => e # d /\ NoUnmountFrom(i, e)
      BY <3>2 DEF NoUnmountFrom
    <3>5. \A name : \A e \in Device \ {d} : NameRight(e, name) => NameRight(e, name)'
      BY <2>0, <2>3 DEF NameRight
    <3>6. ASSUME NEW e \in Device, NEW n \in Name, names'[e][n] # 0, NoUnmountFrom(1, e)',
                 e \notin stale'
          PROVE  NameRight(e, names[e][n])'
      BY <2>0, <2>3, <3>2, <3>3, <3>5, <3>6 DEF NamesInv
    <3>7. ASSUME NEW i \in DOMAIN toCore0', toCore0'[i].op \in Name,
                 NoUnmountFrom(i, toCore0[i].dev)', toCore0'[i].dev \notin stale'
          PROVE  NameRight(toCore0[i].dev, toCore0[i].name)'
      <4>1. i \in DOMAIN toCore0
        BY <1>0, <3>2, <3>7
      <4>2. toCore0[i] \in Message /\ toCore0'[i] = toCore0[i]
        BY <1>0, <3>2, <4>1
      <4>3. NoUnmountFrom(i, toCore0[i].dev) /\ toCore0[i].dev # d /\ toCore0[i].dev \in Device
        BY <1>0, <3>2, <3>3, <3>7, <4>1, <4>2
      <4>4. toCore0[i].op \in Name /\ toCore0[i].dev \notin stale
        BY <2>3, <3>7, <4>2, <4>3
      <4>5. NameRight(toCore0[i].dev, toCore0[i].name)
        BY <4>1, <4>3, <4>4 DEF NamesInv
      <4>6. QED
        BY <2>0, <2>3, <4>2, <4>3, <4>5 DEF NameRight
    <3>8. ASSUME asking' = "done", answer' # 0, Head(queue').dev \notin stale'
          PROVE  NameRight(Head(queue).dev, answer)'
      <4>1. Head(queue).dev \in Device
        BY <2>0, <3>8, ActionFacts, HeadTailProperties DEF OnePipe, Types, TypeOK
      <4>2. Head(queue).dev # d
        BY <2>0, <2>3, <3>8 DEF Overtakes
      <4>3. QED
        BY <2>0, <2>3, <3>5, <3>8, <4>1, <4>2 DEF NamesInv
    <3>9. QED
      BY <2>0, <3>6, <3>7, <3>8 DEF NamesInv
  <2>4. QED
    <3>1. CASE UNCHANGED <<mounted, transfer, toCore0, stale>>
      BY <2>1, <3>1
    <3>2. CASE /\ mounted' = mounted \ {d} /\ Offer([op |-> "hidUnmount", dev |-> d])
               /\ stale' = IF toCore0' = toCore0 \/ Overtakes(d)
                           THEN stale \cup {d} ELSE stale \ {d}
      <4>1. [op |-> "hidUnmount", dev |-> d] \in Message
        BY DEF Message
      <4>2. \/ toCore0' = toCore0
            \/ toCore0' = Append(toCore0, [op |-> "hidUnmount", dev |-> d])
        BY <1>0, <3>2, <4>1, OfferFacts
      <4>3. QED
        BY <2>2, <2>3, <3>2, <4>2
    <3>3. QED
      BY <1>2, <3>1, <3>2 DEF Unplug
<1>3. CASE Core0
  <2> DEFINE m == Head(toCore0)
  <2>1. /\ toCore0 # << >> /\ m \in Message /\ m = toCore0[1]
        /\ DOMAIN toCore0 = 1..Len(toCore0) /\ Len(toCore0) \in Nat \ {0}
        /\ DOMAIN toCore0' = 1..Len(toCore0) - 1
        /\ \A i \in DOMAIN toCore0' : i + 1 \in DOMAIN toCore0 /\ toCore0'[i] = toCore0[i + 1]
    BY <1>0, <1>3, HeadTailProperties DEF Core0
  <2>2. UNCHANGED <<mounted, plugged, stale, queue, asking, answer>>
    BY <1>3 DEF Core0, deviceVars, actionVars, stringVars
  <2>3. \A d, name : NameRight(d, name)' <=> NameRight(d, name)
    BY <2>2 DEF NameRight
  <2>4. \A d \in Device, i \in 1..Len(toCore0) :
          NoUnmountFrom(i, d)' => NoUnmountFrom(i + 1, d)
    <3> SUFFICES ASSUME NEW d \in Device, NEW i \in 1..Len(toCore0), NoUnmountFrom(i, d)',
                        NEW j \in DOMAIN toCore0, j >= i + 1
                 PROVE  ~(toCore0[j].op = "hidUnmount" /\ toCore0[j].dev = d)
      BY DEF NoUnmountFrom
    <3>1. j - 1 \in DOMAIN toCore0' /\ j - 1 >= i /\ toCore0'[j - 1] = toCore0[j]
      BY <2>1
    <3>2. QED
      BY <3>1 DEF NoUnmountFrom
  <2>5. ASSUME NEW i \in DOMAIN toCore0', toCore0'[i].op \in Name,
               NoUnmountFrom(i, toCore0[i].dev)', toCore0'[i].dev \notin stale
        PROVE  NameRight(toCore0[i].dev, toCore0[i].name)'
    <3>1. /\ i \in 1..Len(toCore0) /\ i + 1 \in DOMAIN toCore0 /\ toCore0'[i] = toCore0[i + 1]
          /\ toCore0[i + 1].dev \in Device
      BY <1>0, <2>1
    <3>2. NoUnmountFrom(i + 1, toCore0[i + 1].dev)
      BY <2>4, <2>5, <3>1
    <3>3. QED
      BY <2>2, <2>5, <3>1, <3>2 DEF NamesInv, NameRight
  <2>6. ASSUME NEW d \in Device, NEW n \in Name, names'[d][n] # 0, NoUnmountFrom(1, d)',
               d \notin stale
        PROVE  NameRight(d, names[d][n])'
    <3>1. NoUnmountFrom(2, d)
      BY <2>1, <2>4, <2>6
    <3>2. ~(m.op = "hidUnmount" /\ m.dev = d) => NoUnmountFrom(1, d)
      BY <2>1, <3>1 DEF NoUnmountFrom
    <3>3. CASE m.op = "hidMount"
      <4>1. names' = names
        BY <1>3, <3>3 DEF Core0
      <4>2. QED
        BY <2>2, <2>6, <3>2, <3>3, <4>1 DEF NamesInv, NameRight
    <3>4. CASE m.op = "hidUnmount"
      <4>1. names' = [names EXCEPT ![m.dev] = Nameless]
        BY <1>3, <3>4 DEF Core0, AfterUnmount
      <4>2. m.dev # d
        BY <1>0, <2>6, <4>1 DEF Nameless
      <4>3. names'[d] = names[d]
        BY <1>0, <4>1, <4>2
      <4>4. QED
        BY <2>2, <2>6, <3>2, <4>2, <4>3 DEF NamesInv, NameRight
    <3>5. CASE m.op \in Name
      <4>1. names' = [names EXCEPT ![m.dev][m.op] = m.name]
        BY <1>3, <3>5 DEF Core0, Name
      <4>2. NoUnmountFrom(1, d)
        BY <1>0, <3>2, <3>5
      <4>3. CASE m.dev = d /\ m.op = n
        <5>1. names'[d][n] = m.name
          BY <1>0, <4>1, <4>3
        <5>2. NameRight(d, m.name)
          BY <2>1, <2>6, <3>5, <4>2, <4>3 DEF NamesInv
        <5>3. QED
          BY <2>2, <5>1, <5>2 DEF NameRight
      <4>4. CASE ~(m.dev = d /\ m.op = n)
        <5>1. names'[d][n] = names[d][n]
          BY <1>0, <4>1, <4>4
        <5>2. QED
          BY <2>2, <2>6, <4>2, <5>1 DEF NamesInv, NameRight
      <4>5. QED
        BY <4>3, <4>4
    <3>6. QED
      BY <1>0, <2>1, <3>3, <3>4, <3>5
  <2>7. QED
    BY <2>2, <2>3, <2>5, <2>6 DEF NamesInv
<1>4. CASE AnswerString
  <2>1. /\ asking' = "done" /\ UNCHANGED <<toCore0, names, mounted, plugged, stale, queue>>
        /\ answer' # 0 => NameRight(Head(queue).dev, answer')
    BY <1>4 DEF AnswerString, NameRight, core0Vars, deviceVars, actionVars
  <2>2. QED
    BY <2>1 DEF NamesInv, NoUnmountFrom, NameRight
<1>6. CASE ReturnString
  <2> DEFINE d == Head(queue).dev
             m == [op |-> Head(queue).op, dev |-> d, name |-> answer]
  <2>1. UNCHANGED <<names, mounted, plugged, stale>> /\ asking = "done" /\ asking' # "done"
    BY <1>6 DEF ReturnString, deviceVars
  <2>2. CASE toCore0' = toCore0
    BY <1>1, <2>1, <2>2
  <2>3. CASE toCore0' # toCore0
    <3>1. /\ Offer(m) /\ Head(queue).op \in Name /\ answer # 0
          /\ d \in Device /\ answer \in 0..MaxPlugs
      <4>1. Head(queue) \in Action
        BY <1>6, HeadTailProperties DEF ReturnString, OnePipe, Types, TypeOK
      <4>2. QED
        BY <1>6, <2>3, <4>1, ActionFacts DEF ReturnString, OnePipe, Types, TypeOK
    <3>2. /\ m \in Message /\ m.op # "hidUnmount" /\ m.op \in Name
          /\ m.dev \notin stale => NameRight(m.dev, m.name)
      BY <1>0, <2>1, <3>1 DEF Message, NamesInv
    <3> HIDE DEF m
    <3>3. /\ DOMAIN toCore0' = 1..Len(toCore0) + 1 /\ DOMAIN toCore0 = 1..Len(toCore0)
          /\ \A i \in DOMAIN toCore0 : toCore0'[i] = toCore0[i]
          /\ toCore0'[Len(toCore0) + 1] = m /\ Len(toCore0) \in Nat
      <4>1. toCore0' = Append(toCore0, m)
        BY <1>0, <2>3, <3>1, <3>2, OfferFacts
      <4>2. QED
        BY <1>0, <3>2, <4>1, AppendProperties
    <3>4. \A e \in Device, i \in 1..Len(toCore0) + 1 :
            NoUnmountFrom(i, e)' => NoUnmountFrom(i, e)
      BY <3>3 DEF NoUnmountFrom
    <3>6. ASSUME NEW i \in DOMAIN toCore0', toCore0'[i].op \in Name,
                 NoUnmountFrom(i, toCore0[i].dev)', toCore0'[i].dev \notin stale
          PROVE  NameRight(toCore0'[i].dev, toCore0'[i].name)
      <4>1. CASE i = Len(toCore0) + 1
        BY <3>2, <3>3, <3>6, <4>1
      <4>2. CASE i \in DOMAIN toCore0
        <5>1. toCore0'[i] = toCore0[i] /\ toCore0[i].dev \in Device
          BY <1>0, <3>3, <4>2
        <5>2. NoUnmountFrom(i, toCore0[i].dev)
          BY <3>3, <3>4, <3>6, <4>2, <5>1
        <5>3. QED
          BY <3>6, <4>2, <5>1, <5>2 DEF NamesInv
      <4>3. QED
        BY <3>3, <3>6, <4>1, <4>2
    <3>7. ASSUME NEW e \in Device, NEW n \in Name, names'[e][n] # 0, NoUnmountFrom(1, e)',
                 e \notin stale
          PROVE  NameRight(e, names[e][n])
      BY <2>1, <3>3, <3>4, <3>7 DEF NamesInv
    <3>8. \A e, name : NameRight(e, name) => NameRight(e, name)'
      BY <2>1 DEF NameRight
    <3>9. /\ \A i \in DOMAIN toCore0' :
               toCore0'[i].op \in Name /\ NoUnmountFrom(i, toCore0[i].dev)'
                 /\ toCore0'[i].dev \notin stale => NameRight(toCore0[i].dev, toCore0[i].name)'
          /\ \A e \in Device, n \in Name :
               names'[e][n] # 0 /\ NoUnmountFrom(1, e)' /\ e \notin stale
                 => NameRight(e, names[e][n])'
      BY <2>1, <3>6, <3>7 DEF NameRight
    <3>10. QED
      BY <2>1, <3>9 DEF NamesInv
  <2>4. QED
    BY <2>2, <2>3
<1>5. CASE Mount
  <2> DEFINE d == enumerating
             m == [op |-> "hidMount", dev |-> d]
  <2>1. /\ d \in Device /\ d \notin mounted /\ mounted' = mounted \cup {d}
        /\ plugged' = [plugged EXCEPT ![d] = plugs]
        /\ names' = names /\ stale' = stale /\ Offer(m)
    BY <1>5 DEF Mount, OnePipe, Types, TypeOK
  <2>2. m \in Message /\ m.op \notin Name /\ m.op # "hidUnmount"
    BY <2>1 DEF Message, Name
  <2> HIDE DEF m
  <2>3. /\ DOMAIN toCore0 \subseteq DOMAIN toCore0'
        /\ \A i \in DOMAIN toCore0 : toCore0'[i] = toCore0[i]
        /\ \A i \in DOMAIN toCore0' : i \in DOMAIN toCore0 \/ toCore0'[i] = m
    <3>1. toCore0' = toCore0 \/ toCore0' = Append(toCore0, m)
      BY <1>0, <2>1, <2>2, OfferFacts
    <3>2. CASE toCore0' = Append(toCore0, m)
      BY <1>0, <2>2, <3>2, AppendProperties
    <3>3. QED
      BY <3>1, <3>2
  <2>4. \A e \in Device, i \in DOMAIN toCore0 \cup {1} :
          NoUnmountFrom(i, e)' => NoUnmountFrom(i, e)
    BY <2>3 DEF NoUnmountFrom
  <2>5. \A name : \A e \in Device : NameRight(e, name) => NameRight(e, name)'
    BY <1>0, <2>1 DEF NameRight
  <2>6. ASSUME NEW i \in DOMAIN toCore0', toCore0'[i].op \in Name,
               NoUnmountFrom(i, toCore0[i].dev)', toCore0'[i].dev \notin stale
        PROVE  NameRight(toCore0[i].dev, toCore0[i].name)'
    <3>1. i \in DOMAIN toCore0
      BY <2>2, <2>3, <2>6
    <3>2. toCore0'[i] = toCore0[i] /\ toCore0[i].dev \in Device
      BY <1>0, <2>3, <3>1
    <3>3. NoUnmountFrom(i, toCore0[i].dev)
      BY <2>3, <2>4, <2>6, <3>1, <3>2
    <3>4. NameRight(toCore0[i].dev, toCore0[i].name)
      BY <2>6, <3>1, <3>2, <3>3 DEF NamesInv
    <3>5. NameRight(toCore0[i].dev, toCore0[i].name)'
      BY <2>3, <2>5, <3>1, <3>2, <3>4 DEF NameRight
    <3>6. QED
      BY <3>2, <3>5
  <2>7. ASSUME NEW e \in Device, NEW n \in Name, names'[e][n] # 0, NoUnmountFrom(1, e)',
               e \notin stale
        PROVE  NameRight(e, names[e][n])'
    <3>1. NameRight(e, names[e][n])
      BY <2>1, <2>3, <2>4, <2>7 DEF NamesInv
    <3>2. QED
      BY <1>0, <2>1, <3>1 DEF NameRight
  <2>8. ASSUME asking' = "done", answer' # 0, Head(queue').dev \notin stale
        PROVE  NameRight(Head(queue).dev, answer)'
    <3>1. /\ Head(queue') = Head(queue) /\ asking = "done" /\ answer' = answer
      BY <1>5, <1>9, <2>8
    <3>2. Head(queue).dev \in Device
      BY <3>1, ActionFacts, HeadTailProperties DEF OnePipe, Types, TypeOK
    <3>3. NameRight(Head(queue).dev, answer)
      BY <2>8, <3>1 DEF NamesInv
    <3>4. NameRight(Head(queue).dev, answer) => NameRight(Head(queue).dev, answer)'
      BY <1>0, <2>1, <3>1, <3>2 DEF NameRight
    <3>5. QED
      BY <3>3, <3>4
  <2>9. QED
    BY <2>1, <2>6, <2>7, <2>8 DEF NamesInv
<1>7. CASE ProcessSet \/ StartString
  BY <1>1, <1>7 DEF ProcessSet, StartString, Processing, core0Vars, deviceVars, stringVars
<1>8. CASE \E d \in Device, k \in Setting, v \in Value : Request(d, k, v)
  BY <1>1, <1>8, <1>9 DEF Request, core0Vars, deviceVars
<1>10. QED
  BY <1>1, <1>2, <1>3, <1>4, <1>5, <1>6, <1>7, <1>8
     DEF Next, Attach, ReportReceived, Complete, vars,
         actionVars, deviceVars, core0Vars, stringVars

LEMMA NextSettingInv == Types /\ OnePipe /\ SettingInv /\ [Next]_vars => SettingInv'
<1> SUFFICES ASSUME Types, OnePipe, SettingInv, [Next]_vars PROVE SettingInv'
  OBVIOUS
<1>0. /\ queue \in Seq(Action) /\ Len(queue) \in Nat /\ Len(queue) <= QueueSize
      /\ DOMAIN queue = 1..Len(queue)
      /\ setting \in [Device -> [Setting -> Value]] /\ wanted \in [Device -> [Setting -> Value]]
      /\ mounted \subseteq Device
  BY DEF Types, TypeOK
<1>1. CASE UNCHANGED <<queue, transfer, mounted, setting, wanted>>
  BY <1>1 DEF SettingInv, LastPendingWanted, LastRequestWins, Pending, Asks
<1>2. ASSUME NEW d \in Device, NEW k \in Setting, NEW v \in Value, Request(d, k, v)
      PROVE  SettingInv'
  <2> DEFINE a == SetAction(d, k, v)
  <2>1. UNCHANGED <<transfer, mounted, setting>>
    BY <1>2 DEF Request, actionVars, deviceVars
  <2>2. a \in Action /\ a.dev = d /\ a.op = k /\ a.value = v
    BY ActionFacts
  <2> HIDE DEF a
  <2>3. CASE queue' = queue
    BY <1>1, <1>2, <2>1, <2>3 DEF Request
  <2>4. CASE queue' # queue
    <3>1. queue' = Append(queue, a) /\ wanted' = [wanted EXCEPT ![d][k] = v]
      BY <1>2, <2>4 DEF Request, Accept, a
    <3>2. /\ DOMAIN queue' = 1..Len(queue) + 1
          /\ \A i \in DOMAIN queue : queue'[i] = queue[i]
          /\ queue'[Len(queue) + 1] = a
      BY <1>0, <2>2, <3>1, AppendProperties
    <3>3. ASSUME NEW e \in mounted, NEW l \in Setting, NEW i \in DOMAIN queue',
                 Asks(queue'[i], e, l), \A j \in DOMAIN queue' : j > i => ~Asks(queue'[j], e, l)
          PROVE  queue'[i].value = wanted'[e][l]
      <4>1. CASE i = Len(queue) + 1
        BY <1>0, <2>2, <3>1, <3>2, <3>3, <4>1 DEF Asks
      <4>2. CASE i # Len(queue) + 1
        <5>1. i \in DOMAIN queue /\ Len(queue) + 1 > i /\ ~Asks(a, e, l)
          BY <1>0, <3>2, <3>3, <4>2
        <5>2. wanted'[e][l] = wanted[e][l]
          BY <1>0, <2>2, <3>1, <5>1 DEF Asks
        <5>3. \A j \in DOMAIN queue : j > i => ~Asks(queue[j], e, l)
          BY <1>0, <3>2, <3>3
        <5>4. Asks(queue[i], e, l)
          BY <3>2, <3>3, <5>1
        <5>5. queue[i].value = wanted[e][l]
          BY <5>1, <5>3, <5>4 DEF SettingInv, LastPendingWanted
        <5>6. QED
          BY <3>2, <5>1, <5>2, <5>5
      <4>3. QED
        BY <4>1, <4>2
    <3>4. ASSUME NEW e \in mounted, NEW l \in Setting,
                 \A i \in DOMAIN queue' : ~Asks(queue'[i], e, l)
          PROVE  /\ \A i \in DOMAIN queue : ~Asks(queue[i], e, l)
                 /\ wanted'[e][l] = wanted[e][l]
      <4>1. \A i \in DOMAIN queue : ~Asks(queue[i], e, l)
        BY <1>0, <3>2, <3>4
      <4>2. ~Asks(a, e, l)
        <5>1. Len(queue) + 1 \in DOMAIN queue'
          BY <1>0, <3>2
        <5>2. ~Asks(queue'[Len(queue) + 1], e, l)
          BY <3>4, <5>1
        <5>3. QED
          BY <3>2, <5>2
      <4>3. QED
        BY <1>0, <2>2, <3>1, <4>1, <4>2 DEF Asks
    <3>5. LastPendingWanted'
      BY <2>1, <3>3, <3>4 DEF SettingInv, LastPendingWanted, Asks
    <3>6. LastRequestWins'
      BY <2>1, <3>4 DEF SettingInv, LastRequestWins, Pending, Asks
    <3>7. QED
      BY <3>5, <3>6 DEF SettingInv
  <2>5. QED
    BY <2>3, <2>4
<1>3. ASSUME NEW d \in Device, Unplug(d) PROVE SettingInv'
  <2>1. UNCHANGED <<queue, setting, wanted>> /\ mounted' \subseteq mounted
    BY <1>3 DEF Unplug
  <2>2. \A e \in mounted', k \in Setting :
          transfer # None /\ Asks(transfer, e, k) => transfer' = transfer
    BY <1>3, <1>0 DEF Unplug, Asks, OnePipe
  <2>3. transfer' # None => transfer' = transfer
    BY <1>3 DEF Unplug
  <2>4. LastPendingWanted'
    BY <2>1, <2>2, <2>3 DEF SettingInv, LastPendingWanted, Asks
  <2>5. LastRequestWins'
    BY <2>1, <2>2, <2>3 DEF SettingInv, LastRequestWins, Pending, Asks
  <2>6. QED
    BY <2>4, <2>5 DEF SettingInv
(* Taking the head of the queue away changes nothing for the settings the   *)
(* head does not ask for, ...                                              *)
<1>4. ASSUME queue # << >>, queue' = Tail(queue), UNCHANGED <<mounted, wanted>>,
             NEW e \in mounted, NEW l \in Setting
      PROVE  /\ \A i \in DOMAIN queue' :
                  Asks(queue'[i], e, l) /\ (\A j \in DOMAIN queue' : j > i => ~Asks(queue'[j], e, l))
                    => queue'[i].value = wanted'[e][l]
             /\ (\A i \in DOMAIN queue' : ~Asks(queue'[i], e, l)) =>
                  \/ Asks(queue[1], e, l) /\ queue[1].value = wanted'[e][l]
                  \/ ~Asks(queue[1], e, l) /\ \A i \in DOMAIN queue : ~Asks(queue[i], e, l)
  <2>1. /\ Len(queue) \in Nat \ {0} /\ DOMAIN queue' = 1..Len(queue) - 1
        /\ \A i \in DOMAIN queue' : i + 1 \in DOMAIN queue /\ queue'[i] = queue[i + 1]
        /\ \A j \in DOMAIN queue : j = 1 \/ (j - 1 \in DOMAIN queue' /\ queue'[j - 1] = queue[j])
        /\ 1 \in DOMAIN queue
    <3>1. Len(queue) \in Nat \ {0}
      BY <1>0, <1>4, EmptySeq
    <3>2. /\ Len(queue') = Len(queue) - 1 /\ DOMAIN queue' = 1..Len(queue')
          /\ \A i \in 1..Len(queue') : queue'[i] = queue[i + 1]
      BY <1>0, <1>4, HeadTailProperties
    <3>3. QED
      BY <1>0, <3>1, <3>2
  <2>2. ASSUME NEW i \in DOMAIN queue', Asks(queue'[i], e, l),
               \A j \in DOMAIN queue' : j > i => ~Asks(queue'[j], e, l)
        PROVE  queue'[i].value = wanted'[e][l]
    <3>1. \A j \in DOMAIN queue : j > i + 1 => ~Asks(queue[j], e, l)
      BY <1>0, <2>1, <2>2
    <3>2. queue[i + 1].value = wanted[e][l]
      BY <2>1, <2>2, <3>1 DEF SettingInv, LastPendingWanted
    <3>3. QED
      BY <1>4, <2>1, <3>2
  <2>3. ASSUME \A i \in DOMAIN queue' : ~Asks(queue'[i], e, l)
        PROVE  \/ Asks(queue[1], e, l) /\ queue[1].value = wanted'[e][l]
               \/ ~Asks(queue[1], e, l) /\ \A i \in DOMAIN queue : ~Asks(queue[i], e, l)
    <3>1. \A j \in DOMAIN queue : j # 1 => ~Asks(queue[j], e, l)
      BY <2>1, <2>3
    <3>2. CASE Asks(queue[1], e, l)
      <4>1. \A j \in DOMAIN queue : j > 1 => ~Asks(queue[j], e, l)
        BY <1>0, <3>1
      <4>2. queue[1].value = wanted[e][l]
        BY <2>1, <3>2, <4>1 DEF SettingInv, LastPendingWanted
      <4>3. QED
        BY <1>4, <3>2, <4>2
    <3>3. CASE ~Asks(queue[1], e, l)
      BY <3>1, <3>3
    <3>4. QED
      BY <3>2, <3>3
  <2>4. QED
    BY <2>2, <2>3
<1>5. CASE ProcessSet
  <2> DEFINE a == queue[1]
  <2>1. /\ queue # << >> /\ a = Head(queue) /\ a \in Action /\ a.op \in Setting
        /\ transfer = None
        /\ UNCHANGED <<mounted, setting, wanted>>
    BY <1>0, <1>5 DEF ProcessSet, Processing, deviceVars, OnePipe
  <2>2. CASE UNCHANGED <<queue, transfer>>
    BY <1>1, <2>1, <2>2
  <2>3. CASE queue' = Tail(queue) /\ transfer' = transfer /\ Redundant(a)
    <3>1. \A d \in mounted : a.dev = d => a.op = "protocol" /\ setting[d][a.op] = a.value
      BY <2>1, <2>3 DEF Redundant, CurrentProtocol
    <3>2. LastPendingWanted'
      BY <1>4, <2>1, <2>3 DEF LastPendingWanted, Asks
    <3>3. LastRequestWins'
      <4> SUFFICES ASSUME NEW d \in mounted, NEW k \in Setting, ~Pending(d, k)'
                   PROVE  setting[d][k] = wanted[d][k]
        BY <2>1 DEF LastRequestWins
      <4>1. \A i \in DOMAIN queue' : ~Asks(queue'[i], d, k)
        BY DEF Pending, Asks
      <4>2. \/ Asks(a, d, k) /\ a.value = wanted[d][k]
            \/ \A i \in DOMAIN queue : ~Asks(queue[i], d, k)
        BY <1>4, <2>1, <2>3, <4>1
      <4>3. CASE Asks(a, d, k) /\ a.value = wanted[d][k]
        BY <3>1, <4>3 DEF Asks
      <4>4. CASE \A i \in DOMAIN queue : ~Asks(queue[i], d, k)
        BY <2>1, <4>4 DEF SettingInv, LastRequestWins, Pending, Asks
      <4>5. QED
        BY <4>2, <4>3, <4>4
    <3>4. QED
      BY <3>2, <3>3 DEF SettingInv
  <2>4. CASE queue' = Tail(queue) /\ transfer' = a
    <3>1. transfer' # None
      BY <2>1, <2>4, ActionFacts
    <3>2. \A d \in mounted, k \in Setting :
            (\A i \in DOMAIN queue' : ~Asks(queue'[i], d, k)) =>
              \/ Asks(a, d, k) /\ a.value = wanted[d][k]
              \/ ~Asks(a, d, k) /\ \A i \in DOMAIN queue : ~Asks(queue[i], d, k)
      BY <1>4, <2>1, <2>4
    <3>3. LastPendingWanted'
      <4>1. \A d \in mounted, k \in Setting : \A i \in DOMAIN queue' :
              Asks(queue'[i], d, k) /\ (\A j \in DOMAIN queue' : j > i => ~Asks(queue'[j], d, k))
                => queue'[i].value = wanted'[d][k]
        BY <1>4, <2>1, <2>4
      <4>2. QED
        BY <2>1, <2>4, <3>2, <4>1 DEF LastPendingWanted, Asks
    <3>4. LastRequestWins'
      BY <2>1, <2>4, <3>1, <3>2 DEF SettingInv, LastRequestWins, Pending, Asks
    <3>5. QED
      BY <3>3, <3>4 DEF SettingInv
  <2>5. QED
    BY <1>5, <2>1, <2>2, <2>3, <2>4 DEF ProcessSet, AfterRefusal
<1>6. CASE ReturnString
  <2>1. /\ UNCHANGED <<transfer, mounted, setting, wanted>>
        /\ queue # << >> /\ queue[1].op \in Name
        /\ queue' = queue \/ queue' = Tail(queue)
    <3>1. Head(queue) = queue[1]
      OBVIOUS
    <3>2. queue # << >> /\ Head(queue).op \in Name
      BY <1>6 DEF ReturnString, OnePipe
    <3>3. queue' = queue \/ queue' = Tail(queue)
      BY <1>6 DEF ReturnString, OnePipe
    <3>4. UNCHANGED <<transfer, mounted, setting, wanted>>
      BY <1>6 DEF ReturnString, deviceVars
    <3>5. QED
      BY <3>1, <3>2, <3>3, <3>4
  <2>2. \A d, k : k \in Setting => ~Asks(queue[1], d, k)
    BY <2>1, ActionFacts DEF Asks
  <2>3. CASE queue' = Tail(queue)
    <3>1. \A d \in mounted, k \in Setting :
            (\A i \in DOMAIN queue' : ~Asks(queue'[i], d, k)) =>
              \A i \in DOMAIN queue : ~Asks(queue[i], d, k)
      BY <1>4, <2>1, <2>2, <2>3
    <3>2. LastPendingWanted'
      <4>1. \A d \in mounted, k \in Setting : \A i \in DOMAIN queue' :
              Asks(queue'[i], d, k) /\ (\A j \in DOMAIN queue' : j > i => ~Asks(queue'[j], d, k))
                => queue'[i].value = wanted'[d][k]
        BY <1>4, <2>1, <2>3
      <4>2. QED
        BY <2>1, <3>1, <4>1 DEF SettingInv, LastPendingWanted, Asks
    <3>3. LastRequestWins'
      BY <2>1, <3>1 DEF SettingInv, LastRequestWins, Pending, Asks
    <3>4. QED
      BY <3>2, <3>3 DEF SettingInv
  <2>4. QED
    BY <1>1, <2>1, <2>3
(* The device that is mounted was not: its settings are those it starts     *)
(* with, or what is still queued for the address.                          *)
<1>7. CASE Mount
  <2> DEFINE d == enumerating
             s1 == StringRequest(d, "manufacturer")
             s2 == StringRequest(d, "product")
             q == Accept(queue, s1)
  <2>1. /\ d \in Device /\ d \notin mounted /\ mounted' = mounted \cup {d}
        /\ transfer = None /\ transfer' = None /\ queue' = Accept(q, s2)
        /\ setting' = [setting EXCEPT ![d] = Fresh(d)]
        /\ wanted' = [wanted EXCEPT ![d] = [k \in Setting |-> Leftover(d, k)]]
    BY <1>7 DEF Mount, OnePipe, Types, TypeOK
  <2>2. /\ s1 \in Action /\ s2 \in Action
        /\ \A e, k : k \in Setting => ~Asks(s1, e, k) /\ ~Asks(s2, e, k)
    BY <2>1, ActionFacts DEF Name, Asks, Setting
  <2> HIDE DEF s1, s2
  <2>3. /\ q \in Seq(Action) /\ Len(q) <= QueueSize
        /\ DOMAIN queue \subseteq DOMAIN q /\ \A i \in DOMAIN queue : q[i] = queue[i]
        /\ \A i \in DOMAIN q : i \in DOMAIN queue \/ q[i] = s1
    BY <1>0, <2>2, AcceptFacts
  <2> HIDE DEF q
  <2>4. /\ DOMAIN q \subseteq DOMAIN queue' /\ \A i \in DOMAIN q : queue'[i] = q[i]
        /\ \A i \in DOMAIN queue' : i \in DOMAIN q \/ queue'[i] = s2
    BY <2>1, <2>2, <2>3, AcceptFacts
  <2>5. /\ DOMAIN queue \subseteq DOMAIN queue' /\ \A i \in DOMAIN queue : queue'[i] = queue[i]
        /\ \A i \in DOMAIN queue' : i \in DOMAIN queue \/ queue'[i] \in {s1, s2}
    BY <2>3, <2>4
  <2>6. ASSUME NEW e \in mounted, e # d, NEW k \in Setting
        PROVE  wanted'[e][k] = wanted[e][k] /\ setting'[e][k] = setting[e][k]
    BY <1>0, <2>1, <2>6
  <2>7. ASSUME NEW k \in Setting
        PROVE  /\ wanted'[d][k] = Leftover(d, k) /\ setting'[d][k] = Fresh(d)[k]
               /\ (\A i \in DOMAIN queue : ~Asks(queue[i], d, k)) => Leftover(d, k) = Fresh(d)[k]
               /\ \A i \in DOMAIN queue :
                    Asks(queue[i], d, k) /\ (\A j \in DOMAIN queue : j > i => ~Asks(queue[j], d, k))
                      => queue[i].value = Leftover(d, k)
    <3> DEFINE later == {i \in DOMAIN queue : queue[i].dev = d /\ queue[i].op = k}
    <3>1. later \in SUBSET (1..Len(queue)) /\ \A i \in DOMAIN queue : i \in later <=> Asks(queue[i], d, k)
      BY <1>0 DEF Asks
    <3>2. Leftover(d, k) = IF later = {} THEN Fresh(d)[k] ELSE queue[Max(later)].value
      BY DEF Leftover
    <3>3. wanted'[d][k] = Leftover(d, k) /\ setting'[d][k] = Fresh(d)[k]
      BY <1>0, <2>1
    <3> HIDE DEF later
    <3>4. (\A i \in DOMAIN queue : ~Asks(queue[i], d, k)) => Leftover(d, k) = Fresh(d)[k]
      BY <1>0, <3>1, <3>2
    <3>5. ASSUME NEW i \in DOMAIN queue, Asks(queue[i], d, k),
                 \A j \in DOMAIN queue : j > i => ~Asks(queue[j], d, k)
          PROVE  queue[i].value = Leftover(d, k)
      <4>1. i \in later
        BY <3>1, <3>5
      <4>2. Max(later) \in later /\ \A j \in later : j <= Max(later)
        BY <1>0, <3>1, <4>1, FirstAndLast
      <4>3. Max(later) \in 1..Len(queue) /\ i <= Max(later) /\ ~(Max(later) > i)
        BY <1>0, <3>1, <3>5, <4>1, <4>2
      <4>4. Max(later) = i
        BY <1>0, <4>3
      <4>5. QED
        BY <3>2, <4>1, <4>4
    <3>6. QED
      BY <3>3, <3>4, <3>5
  <2>8. ASSUME NEW e \in mounted', NEW k \in Setting, NEW i \in DOMAIN queue',
               Asks(queue'[i], e, k), \A j \in DOMAIN queue' : j > i => ~Asks(queue'[j], e, k)
        PROVE  queue'[i].value = wanted'[e][k]
    <3>1. i \in DOMAIN queue /\ queue'[i] = queue[i]
      BY <2>2, <2>5, <2>8
    <3>2. Asks(queue[i], e, k) /\ \A j \in DOMAIN queue : j > i => ~Asks(queue[j], e, k)
      BY <2>5, <2>8, <3>1
    <3>3. CASE e = d
      BY <2>7, <3>1, <3>2, <3>3
    <3>4. CASE e # d
      <4>1. e \in mounted
        BY <2>1, <3>4
      <4>2. queue[i].value = wanted[e][k]
        BY <3>1, <3>2, <4>1 DEF SettingInv, LastPendingWanted
      <4>3. QED
        BY <2>6, <3>1, <3>4, <4>1, <4>2
    <3>5. QED
      BY <3>3, <3>4
  <2>9. ASSUME NEW e \in mounted', NEW k \in Setting,
               \A i \in DOMAIN queue' : ~Asks(queue'[i], e, k)
        PROVE  setting'[e][k] = wanted'[e][k]
    <3>1. \A i \in DOMAIN queue : ~Asks(queue[i], e, k)
      BY <2>5, <2>9
    <3>2. CASE e = d
      BY <2>7, <3>1, <3>2
    <3>3. CASE e # d
      <4>1. e \in mounted
        BY <2>1, <3>3
      <4>2. setting[e][k] = wanted[e][k]
        BY <2>1, <3>1, <4>1 DEF SettingInv, LastRequestWins, Pending, Asks
      <4>3. QED
        BY <2>6, <3>3, <4>1, <4>2
    <3>4. QED
      BY <3>2, <3>3
  <2>10. LastPendingWanted'
    BY <2>1, <2>8 DEF LastPendingWanted, Asks
  <2>11. LastRequestWins'
    BY <2>9 DEF LastRequestWins, Pending, Asks
  <2>12. QED
    BY <2>10, <2>11 DEF SettingInv
<1>8. CASE Complete
  <2>1. /\ transfer # None /\ transfer.dev \in Device /\ transfer.op \in Setting
        /\ transfer' = None /\ UNCHANGED <<queue, mounted, wanted>>
        /\ setting' = [setting EXCEPT ![transfer.dev][transfer.op] = transfer.value]
    BY <1>0, <1>8 DEF Complete, OnePipe
  <2>2. LastPendingWanted'
    BY <2>1 DEF SettingInv, LastPendingWanted, Asks
  <2>3. LastRequestWins'
    <3> SUFFICES ASSUME NEW d \in mounted, NEW k \in Setting, ~Pending(d, k)'
                 PROVE  setting'[d][k] = wanted[d][k]
      BY <2>1 DEF LastRequestWins
    <3>1. \A i \in DOMAIN queue : ~Asks(queue[i], d, k)
      BY <2>1 DEF Pending, Asks
    <3>2. CASE Asks(transfer, d, k)
      <4>1. setting'[d][k] = transfer.value
        BY <1>0, <2>1, <3>2 DEF Asks
      <4>2. QED
        BY <2>1, <3>1, <3>2, <4>1 DEF SettingInv, LastPendingWanted
    <3>3. CASE ~Asks(transfer, d, k)
      <4>1. setting'[d][k] = setting[d][k]
        BY <1>0, <2>1, <3>3 DEF Asks
      <4>2. QED
        BY <3>1, <3>3, <4>1 DEF SettingInv, LastRequestWins, Pending, Asks
    <3>4. QED
      BY <3>2, <3>3
  <2>4. QED
    BY <2>2, <2>3 DEF SettingInv
<1>9. QED
  BY <1>1, <1>2, <1>3, <1>5, <1>6, <1>7, <1>8
     DEF Next, Attach, StartString, AnswerString, Core0, ReportReceived, vars, actionVars,
         deviceVars

LEMMA NextHostInv == HostInv /\ [Next]_vars => HostInv'
BY NextTypes, NextOnePipe, NextSettingInv, NextNamesInv, NextPaused DEF HostInv

(* The inductive invariant: well-typed messages to core 0, one pipe, the     *)
(* last pending request is the wanted one, names are those of the devices.  *)
THEOREM HostInvariant == Spec => []HostInv
BY InitHostInv, NextHostInv, PTL DEF Spec

-----------------------------------------------------------------------------

(* The types of the state of the USB host, its queue within its size.       *)
THEOREM TypeCorrect == Spec => []TypeOK
<1>1. HostInv => TypeOK
  BY DEF HostInv, Types
<1>2. QED
  BY <1>1, HostInvariant, PTL

(* usb_host_process_action: a mounted device with nothing pending is set as *)
(* the last accepted request says.                                         *)
THEOREM RequestsWin == Spec => []LastRequestWins
<1>1. HostInv => LastRequestWins
  BY DEF HostInv, SettingInv
<1>2. QED
  BY <1>1, HostInvariant, PTL

(* hid_device_manager: a core 0 that has heard everything has no name of a  *)
(* device that is gone or of an earlier one at the address.  Set aside are   *)
(* the addresses where its full queue dropped the last unmount, or where    *)
(* the device left between its answer and the return of the request.        *)
THEOREM NamesCorrect == Spec => []NamesFollowDevice
<1>1. HostInv => NamesFollowDevice
  <2> SUFFICES ASSUME HostInv, toCore0 = << >>, NEW d \in Device \ stale, NEW n \in Name,
                      names[d][n] # 0
               PROVE  d \in mounted /\ names[d][n] = plugged[d]
    BY DEF NamesFollowDevice
  <2>1. NoUnmountFrom(1, d)
    BY DEF NoUnmountFrom
  <2>2. QED
    BY <2>1 DEF HostInv, NamesInv, NameRight
<1>2. QED
  BY <1>1, HostInvariant, PTL

(* usb_host.c:96: while nothing is pulled out, processing stops only for a   *)
(* transfer or for a string request at the head of the queue.               *)
THEOREM PausesHaveReason == Spec => []PausedWithReason
<1>1. HostInv => PausedWithReason
  BY DEF HostInv
<1>2. QED
  BY <1>1, HostInvariant, PTL
=============================================================================
