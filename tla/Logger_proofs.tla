---------------------------- MODULE Logger_proofs ----------------------------
(***************************************************************************)
(* Proofs about Logger, for rings, headers, records and replies of any size  *)
(* and any number of records.                                               *)
(***************************************************************************)
EXTENDS Logger, CommonLemmas, SequenceTheorems

(* A record takes some cells, as many as fit.                               *)
LEMMA Weights ==
  \A r \in Record \cup {NoRecord} :
    Weight(r) \in Nat /\ Weight(r) >= Header /\ Weight(r) <= Header + MaxBody
BY LoggerAssumption DEF Weight, Record, NoRecord, Body

-----------------------------------------------------------------------------
(* The cells in use of the ring of core 0.                                  *)

SumsOf(f, rs) ==
  f = [i \in 0..Len(rs) |-> IF i = 0 THEN 0 ELSE f[i - 1] + Weight(rs[i])]

(* The recursion of Used has a solution.                                    *)
LEMMA UsedIsSum ==
  ASSUME NEW rs \in Seq(Record)
  PROVE  \E f : SumsOf(f, rs) /\ Used(rs) = f[Len(rs)]
<1> DEFINE Solves(f, n) ==
             f = [i \in 0..n |-> IF i = 0 THEN 0 ELSE f[i - 1] + Weight(rs[i])]
           T == {n \in Nat : \E f : Solves(f, n)}
<1>1. 0 \in T
  <2>1. Solves([i \in 0..0 |-> 0], 0)
    OBVIOUS
  <2>2. QED
    BY <2>1
<1>2. ASSUME NEW n \in Nat, n \in T PROVE n + 1 \in T
  <2>1. PICK f : Solves(f, n)
    BY <1>2
  <2> DEFINE g == [i \in 0..n + 1 |-> IF i = n + 1 THEN f[n] + Weight(rs[n + 1]) ELSE f[i]]
  <2>2. ASSUME NEW i \in 0..n + 1
        PROVE  g[i] = IF i = 0 THEN 0 ELSE g[i - 1] + Weight(rs[i])
    <3>1. CASE i = n + 1
      <4>1. g[i] = f[n] + Weight(rs[n + 1]) /\ i - 1 = n /\ g[n] = f[n] /\ i # 0
        BY <3>1
      <4>2. QED
        BY <3>1, <4>1
    <3>2. CASE i # n + 1
      <4>1. i \in 0..n /\ g[i] = f[i] /\ (i # 0 => g[i - 1] = f[i - 1])
        BY <3>2
      <4>2. f[i] = IF i = 0 THEN 0 ELSE f[i - 1] + Weight(rs[i])
        BY <2>1, <4>1
      <4>3. QED
        BY <4>1, <4>2
    <3>3. QED
      BY <3>1, <3>2
  <2>3. Solves(g, n + 1)
    <3> HIDE DEF g
    <3>1. g = [i \in 0..n + 1 |-> g[i]]
      BY DEF g
    <3>2. QED
      BY <2>2, <3>1
  <2> HIDE DEF g, Solves
  <2>4. QED
    BY <2>3
<1>3. Len(rs) \in T
  <2>1. Len(rs) \in Nat
    OBVIOUS
  <2> HIDE DEF T
  <2>2. QED
    BY <1>1, <1>2, <2>1, NatSetInduction
<1>4. SumsOf(CHOOSE f : SumsOf(f, rs), rs)
  BY <1>3 DEF SumsOf
<1>5. Used(rs) = (CHOOSE f : SumsOf(f, rs))[Len(rs)]
  BY DEF Used, SumsOf
<1>6. QED
  BY <1>4, <1>5

(* What a sum begins with counts for what follows.                          *)
LEMMA SumsShift ==
  ASSUME NEW rs \in Seq(Record), NEW qs \in Seq(Record), NEW f, NEW g,
         SumsOf(f, rs), SumsOf(g, qs), NEW d \in Nat, NEW m \in Nat,
         m <= Len(qs), m + d <= Len(rs), f[d] \in Nat,
         \A i \in 1..m : qs[i] = rs[i + d]
  PROVE  g[m] \in Nat /\ f[m + d] = f[d] + g[m]
<1> DEFINE T == {n \in Nat : n <= m => g[n] \in Nat /\ f[n + d] = f[d] + g[n]}
<1>1. 0 \in T
  BY DEF SumsOf
<1>2. ASSUME NEW n \in Nat, n \in T PROVE n + 1 \in T
  <2> SUFFICES ASSUME n + 1 <= m
               PROVE  g[n + 1] \in Nat /\ f[n + 1 + d] = f[d] + g[n + 1]
    OBVIOUS
  <2> DEFINE w == Weight(qs[n + 1])
  <2>1. n + 1 \in 1..Len(qs) /\ n + 1 + d \in 1..Len(rs) /\ qs[n + 1] = rs[n + 1 + d]
    OBVIOUS
  <2>2. w \in Nat
    <3>1. qs[n + 1] \in Record
      BY <2>1
    <3>2. QED
      BY <3>1, Weights
  <2>3. g[n + 1] = g[n] + w
    BY <2>1 DEF SumsOf
  <2>4. f[n + 1 + d] = f[n + d] + w
    <3>1. n + 1 + d \in 0..Len(rs) /\ n + 1 + d # 0 /\ n + 1 + d - 1 = n + d
      BY <2>1
    <3>2. QED
      BY <2>1, <3>1 DEF SumsOf
  <2>5. g[n] \in Nat /\ f[n + d] = f[d] + g[n]
    BY <1>2
  <2> HIDE DEF w
  <2>6. PICK a \in Nat, b \in Nat : a = f[d] /\ b = g[n]
    BY <2>5
  <2>7. n + 1 + d = n + d + 1
    OBVIOUS
  <2>8. g[n + 1] = b + w /\ f[n + 1 + d] = a + b + w
    BY <2>3, <2>4, <2>5, <2>6
  <2>9. g[n + 1] \in Nat
    <3>1. b + w \in Nat
      BY <2>2, <2>6
    <3>2. QED
      BY <2>8, <3>1, Zenon
  <2>10. f[n + 1 + d] = f[d] + g[n + 1]
    <3>1. a + b + w = a + (b + w)
      BY <2>2, <2>6
    <3>2. QED
      BY <2>6, <2>8, <3>1
  <2>11. QED
    BY <2>9, <2>10
<1>3. m \in T
  <2> HIDE DEF T
  <2>1. QED
    BY <1>1, <1>2, NatSetInduction
<1>4. QED
  BY <1>3

(* The ring of core 0 holds what was put there and not yet taken.           *)
LEMMA UsedFacts ==
  /\ Used(<< >>) = 0
  /\ \A rs \in Seq(Record) : Used(rs) \in Nat
  /\ \A rs \in Seq(Record), r \in Record : Used(Append(rs, r)) = Used(rs) + Weight(r)
  /\ \A rs \in Seq(Record) : rs # << >> => Used(Tail(rs)) <= Used(rs)
<1>1. Used(<< >>) = 0
  <2>1. << >> \in Seq(Record) /\ Len(<< >>) = 0
    OBVIOUS
  <2>2. PICK f : SumsOf(f, << >>) /\ Used(<< >>) = f[0]
    BY <2>1, UsedIsSum
  <2>3. QED
    BY <2>1, <2>2 DEF SumsOf
<1>2. ASSUME NEW rs \in Seq(Record) PROVE Used(rs) \in Nat
  <2>1. PICK f : SumsOf(f, rs) /\ Used(rs) = f[Len(rs)]
    BY UsedIsSum
  <2>2. f[0] = 0 /\ Len(rs) \in Nat /\ Len(rs) <= Len(rs) /\ Len(rs) + 0 <= Len(rs)
    BY <2>1 DEF SumsOf
  <2>3. \A i \in 1..Len(rs) : rs[i] = rs[i + 0]
    OBVIOUS
  <2>4. QED
    BY <2>1, <2>2, <2>3, SumsShift
<1>3. ASSUME NEW rs \in Seq(Record), NEW r \in Record
      PROVE  Used(Append(rs, r)) = Used(rs) + Weight(r)
  <2> DEFINE q == Append(rs, r)
             n == Len(rs)
  <2>1. q \in Seq(Record) /\ n \in Nat /\ Len(q) = n + 1 /\ q[n + 1] = r
    BY AppendProperties
  <2>2. \A i \in 1..n : rs[i] = q[i + 0]
    BY AppendProperties
  <2> HIDE DEF q
  <2>3. PICK f : SumsOf(f, q) /\ Used(q) = f[Len(q)]
    BY <2>1, UsedIsSum
  <2>4. PICK g : SumsOf(g, rs) /\ Used(rs) = g[n]
    BY UsedIsSum
  <2> HIDE DEF n
  <2>5. /\ f[0] = 0 /\ 0 \in Nat /\ f[0] \in Nat
        /\ n <= Len(rs) /\ n + 0 <= Len(q)
    BY <2>1, <2>3 DEF SumsOf, n
  <2>6. g[n] \in Nat /\ f[n + 0] = f[0] + g[n]
    <3>1. SumsOf(f, q) /\ SumsOf(g, rs) /\ q \in Seq(Record) /\ n \in Nat
      BY <2>1, <2>3, <2>4
    <3>2. PICK d \in Nat : d = 0
      OBVIOUS
    <3>3. f[d] \in Nat /\ n + d <= Len(q) /\ \A i \in 1..n : rs[i] = q[i + d]
      BY <2>2, <2>5, <3>2
    <3>4. g[n] \in Nat /\ f[n + d] = f[d] + g[n]
      BY <2>5, <3>1, <3>3, SumsShift
    <3>5. QED
      BY <3>2, <3>4
  <2>7. f[n + 1] = f[n] + Weight(r)
    BY <2>1, <2>3 DEF SumsOf
  <2>8. QED
    BY <2>1, <2>3, <2>4, <2>5, <2>6, <2>7 DEF q
<1>4. ASSUME NEW rs \in Seq(Record), rs # << >> PROVE Used(Tail(rs)) <= Used(rs)
  <2> DEFINE q == Tail(rs)
             n == Len(q)
  <2>1. q \in Seq(Record) /\ n \in Nat /\ Len(rs) = n + 1 /\ \A i \in 1..n : q[i] = rs[i + 1]
    BY <1>4, HeadTailProperties
  <2>2. PICK f : SumsOf(f, rs) /\ Used(rs) = f[Len(rs)]
    BY UsedIsSum
  <2>3. PICK g : SumsOf(g, q) /\ Used(q) = g[n]
    BY <2>1, UsedIsSum
  <2>4. f[1] \in Nat
    <3>1. rs[1] \in Record /\ 1 \in 0..Len(rs) /\ 0 \in 0..Len(rs)
      BY <2>1
    <3>2. f[0] = 0 /\ f[1] = f[0] + Weight(rs[1])
      BY <2>2, <3>1 DEF SumsOf
    <3>3. Weight(rs[1]) \in Nat
      BY <3>1, Weights
    <3>4. QED
      BY <3>2, <3>3
  <2> HIDE DEF q, n
  <2>5. n <= Len(q) /\ n + 1 <= Len(rs)
    BY <2>1 DEF n
  <2>6. g[n] \in Nat /\ f[n + 1] = f[1] + g[n]
    <3>1. SumsOf(f, rs) /\ SumsOf(g, q) /\ q \in Seq(Record) /\ n \in Nat
      BY <2>1, <2>2, <2>3
    <3>2. \A i \in 1..n : q[i] = rs[i + 1]
      BY <2>1
    <3>3. 1 \in Nat
      OBVIOUS
    <3>4. QED
      BY <2>4, <2>5, <3>1, <3>2, <3>3, SumsShift
  <2>7. QED
    BY <2>1, <2>2, <2>3, <2>4, <2>6 DEF q
<1>5. QED
  BY <1>1, <1>2, <1>3, <1>4

-----------------------------------------------------------------------------
(* Types.                                                                  *)

(* What the program counters of the two cores say of their variables.       *)
Core1Counters ==
  /\ ~Dropping => cells1 = << >>
  /\ Dropping => left1 >= 1
  /\ pc1 = "dropStore" => cells1 # << >>
  /\ pc1 \notin {"write", "panic"} => done1 = 0
  /\ pc1 = "write" => done1 < Weight(rec1)
  /\ pc1 = "idle" => rec1 = NoRecord
  /\ pc1 # "idle" => rec1 \in Record /\ rec1.n = logged[1] /\ rec1.time < clock
Core0Counters ==
  /\ pc0 \in {"idle", "dequeue"} => cells0 = << >> /\ inFlight = 0
  /\ pc0 \in {"read", "readStore"} => left0 >= 1
  /\ pc0 = "readStore" => cells0 # << >>
  /\ pc0 = "peek" => Len(cells0) <= Header
  /\ pc0 # "idle" => space >= Header + MaxBody
  
Types == TypeOK /\ Core1Counters /\ Core0Counters

(* A position follows each, another one.                                    *)
LEMMA Positions ==
  /\ Size \in Nat /\ Size > 1 /\ 0 \in Position
  /\ \A p \in Position : p \in Nat /\ Following(p) \in Position /\ Following(p) # p
BY LoggerAssumption DEF Position, Following

(* A header says how long the body is, within its bound.                    *)
LEMMA Bodies ==
  ASSUME NEW cs \in Seq(Cell), Len(cs) = Header
  PROVE  BodyOf(cs) \subseteq Body
<1>1. cs[1] \in Cell
  BY LoggerAssumption
<1>2. cs[1].rec.len \in Body
  BY <1>1, LoggerAssumption DEF Cell, Record, NoRecord, Body
<1>3. QED
  BY <1>2 DEF BodyOf

LEMMA InitTypes == Init => Types
<1> SUFFICES ASSUME Init PROVE Types
  OBVIOUS
<1>1. Blank \in Cell
  BY LoggerAssumption DEF Blank, Cell
<1>2. Used(local) = 0
  BY UsedFacts DEF Init
<1>3. TypeOK
  <2>1. /\ buf \in [Position -> Cell] /\ logged \in [{0, 1} -> Nat]
        /\ rd \in Position /\ wr \in Position /\ reg0 \in Position /\ reg1 \in Position
    BY <1>1, Positions DEF Init
  <2>2. /\ done1 \in 0..Header + MaxBody /\ left1 \in 0..Header + MaxBody
        /\ left0 \in 0..Header + MaxBody /\ space \in 0..ReplySize
        /\ Used(local) <= Size - 1
    BY <1>2, LoggerAssumption DEF Init
  <2>3. /\ cells0 \in Seq(Cell) /\ cells1 \in Seq(Cell) /\ local \in Seq(Record)
        /\ delivered \in Seq(Delivery)
    BY DEF Init
  <2>4. QED
    BY <2>1, <2>2, <2>3 DEF Init, TypeOK
<1>4. QED
  BY <1>3 DEF Init, Types, Core1Counters, Core0Counters, Dropping

(* What an action of one core leaves alone.                                 *)
LEMMA Core1Leaves ==
  ASSUME Types, Core1
  PROVE  /\ UNCHANGED <<core0, local, history>>
         /\ dropRace' = (dropRace \/ (Dropping' /\ Reading))
         /\ Core0Counters'
<1>1. UNCHANGED <<core0, local, history>>
  BY DEF Core1, Log1, EnsureRoom, DropFetch, DropStore, Write
<1>2. dropRace' = (dropRace \/ (Dropping' /\ Reading'))
  BY DEF Core1, Log1, EnsureRoom, DropFetch, DropStore, Write, NotesRace
<1>3. Reading' <=> Reading
  BY <1>1 DEF Reading, core0
<1>4. Core0Counters'
  BY <1>1 DEF Types, Core0Counters, core0, history
<1>5. QED
  BY <1>1, <1>2, <1>3, <1>4

LEMMA Log1Types ==
  ASSUME Types, NEW len \in Body, Log1(len)
  PROVE  TypeOK' /\ Core1Counters'
<1> USE LoggerAssumption
<1>1. /\ logged' \in [{0, 1} -> Nat] /\ logged'[1] \in Nat \ {0} /\ clock' \in Nat /\ clock < clock'
      /\ logged'[1] = logged[1] + 1 /\ logged'[0] = logged[0]
  BY DEF Types, TypeOK, Log1
<1>2. rec1' \in Record /\ rec1'.n = logged'[1] /\ rec1'.time = clock
  BY <1>1 DEF Types, TypeOK, Log1, Record
<1>3. TypeOK'
  BY <1>1, <1>2 DEF Types, TypeOK, Log1, ring, core0, history, NotesRace, Dropping, Reading
<1>4. Core1Counters'
  BY <1>1, <1>2 DEF Types, Core1Counters, Log1, Dropping
<1>5. QED
  BY <1>3, <1>4

LEMMA EnsureRoomTypes ==
  ASSUME Types, EnsureRoom
  PROVE  TypeOK' /\ Core1Counters'
<1> USE LoggerAssumption
<1>1. TypeOK'
  BY DEF Types, TypeOK, EnsureRoom, ring, core0, history, NotesRace, Dropping, Reading
<1>2. Weight(rec1) > 0
  BY Weights DEF Types, TypeOK
<1>3. Core1Counters'
  BY <1>2 DEF Types, Core1Counters, EnsureRoom, Dropping, Weight
<1>4. QED
  BY <1>1, <1>3

LEMMA DropFetchTypes ==
  ASSUME Types, DropFetch
  PROVE  TypeOK' /\ Core1Counters'
<1> USE LoggerAssumption
<1>1. buf[rd] \in Cell /\ cells1 \in Seq(Cell)
  BY DEF Types, TypeOK
<1>2. cells1' \in Seq(Cell) /\ (pc1' = "dropStore" => cells1' # << >>)
  <2>1. CASE rd = wr
    BY <2>1 DEF DropFetch
  <2>2. CASE rd # wr
    <3>1. cells1' = Append(cells1, buf[rd])
      BY <2>2 DEF DropFetch
    <3>2. Append(cells1, buf[rd]) \in Seq(Cell) /\ Append(cells1, buf[rd]) # << >>
      BY <1>1
    <3>3. QED
      BY <3>1, <3>2
  <2>3. QED
    BY <2>1, <2>2
<1>3. TypeOK'
  BY <1>2 DEF Types, TypeOK, DropFetch, ring, core0, history, NotesRace, Dropping, Reading
<1>4. Core1Counters'
  BY <1>2 DEF Types, TypeOK, Core1Counters, DropFetch, Dropping, Weight
<1>5. QED
  BY <1>3, <1>4

LEMMA DropStoreTypes ==
  ASSUME Types, DropStore
  PROVE  TypeOK' /\ Core1Counters'
<1> USE LoggerAssumption
<1>1. rd' \in Position /\ reg1' \in Position
  BY Positions DEF Types, TypeOK, DropStore
<1>2. /\ left1' \in 0..Header + MaxBody /\ (Dropping' => left1' >= 1)
      /\ pc1' \in {"room", "drop"} /\ cells1' \in Seq(Cell) /\ (~Dropping' => cells1' = << >>)
  <2>1. CASE left1 = 1
    <3>1. PICK n \in IF Len(cells1) = Header THEN BodyOf(cells1) ELSE {0} :
            /\ left1' = n
            /\ pc1' = IF n = 0 THEN "room" ELSE "drop"
            /\ cells1' = IF n = 0 THEN << >> ELSE cells1
      BY <2>1 DEF DropStore, AfterDropRead
    <3>2. n \in Body
      BY Bodies DEF Types, TypeOK, Body
    <3>3. n \in 0..Header + MaxBody
      BY <3>2 DEF Body
    <3>4. cells1 \in Seq(Cell)
      BY DEF Types, TypeOK
    <3>5. QED
      BY <3>1, <3>3, <3>4 DEF Dropping
  <2>2. CASE left1 # 1
    BY <2>2 DEF Types, TypeOK, Core1Counters, DropStore, Dropping
  <2>3. QED
    BY <2>1, <2>2
<1>3. TypeOK'
  BY <1>1, <1>2 DEF Types, TypeOK, DropStore, core0, history, NotesRace, Dropping, Reading
<1>4. Core1Counters'
  BY <1>2 DEF Types, TypeOK, Core1Counters, DropStore, Dropping, Weight
<1>5. QED
  BY <1>3, <1>4

LEMMA WriteTypes ==
  ASSUME Types, Write
  PROVE  TypeOK' /\ Core1Counters'
<1> USE LoggerAssumption
<1>1. /\ rec1 \in Record /\ done1 \in Nat /\ done1 < Weight(rec1) /\ Weight(rec1) \in Nat
      /\ Weight(rec1) <= Header + MaxBody /\ cells1 = << >> /\ wr \in Position
      /\ buf \in [Position -> Cell]
  BY Weights DEF Types, TypeOK, Core1Counters, Write, Dropping
<1>2. [rec |-> rec1, part |-> done1 + 1] \in Cell
  BY <1>1 DEF Cell
<1>3. wr' \in Position
  BY <1>1, Positions DEF Write
<1>4. buf' \in [Position -> Cell]
  BY <1>1, <1>2 DEF Write
<1>5. /\ rec1' \in Record \cup {NoRecord} /\ done1' \in 0..Header + MaxBody
      /\ pc1' \in {"write", "idle", "panic"}
      /\ pc1' = "write" => done1' < Weight(rec1) /\ rec1' = rec1
      /\ pc1' = "idle" => done1' = 0 /\ rec1' = NoRecord
      /\ pc1' = "panic" => rec1' = rec1
  BY <1>1 DEF Write
<1>6. TypeOK'
  BY <1>3, <1>4, <1>5 DEF Types, TypeOK, Write, core0, history, NotesRace, Dropping, Reading
<1>7. Core1Counters'
  BY <1>1, <1>5 DEF Types, TypeOK, Core1Counters, Write, Dropping, Weight
<1>8. QED
  BY <1>6, <1>7

LEMMA Core1Types == Types /\ Core1 => Types'
<1> SUFFICES ASSUME Types, Core1 PROVE Types'
  OBVIOUS
<1>1. TypeOK' /\ Core1Counters'
  BY Log1Types, EnsureRoomTypes, DropFetchTypes, DropStoreTypes, WriteTypes DEF Core1
<1>2. QED
  BY <1>1, Core1Leaves DEF Types

(* What an action of the other core leaves alone, but for the position it    *)
(* may move.                                                               *)
LEMMA Core0Leaves ==
  ASSUME Types, Core0
  PROVE  /\ UNCHANGED <<buf, wr, core1, dropped>>
         /\ dropRace' = (dropRace \/ (Dropping /\ Reading'))
         /\ clock \in Nat /\ clock' \in Nat /\ clock <= clock'
         /\ logged' \in [{0, 1} -> Nat] /\ logged'[1] = logged[1]
         /\ Core1Counters'
<1>1. UNCHANGED <<buf, wr, core1, dropped>>
  BY DEF Core0, Log0, GetLogs, Dequeue, Peek, ReadFetch, ReadStore, ring
<1>2. dropRace' = (dropRace \/ (Dropping' /\ Reading'))
  BY DEF Core0, Log0, GetLogs, Dequeue, Peek, ReadFetch, ReadStore, NotesRace
<1>3. Dropping' <=> Dropping
  BY <1>1 DEF Dropping, core1
<1>4. /\ clock \in Nat /\ clock' \in Nat /\ clock <= clock'
      /\ logged' \in [{0, 1} -> Nat] /\ logged'[1] = logged[1]
  <2>1. CASE \E len \in Body : Log0(len)
    <3>1. logged' = [logged EXCEPT ![0] = @ + 1] /\ clock' = clock + 1
      BY <2>1 DEF Log0
    <3>2. logged \in [{0, 1} -> Nat] /\ clock \in Nat
      BY DEF Types, TypeOK
    <3>3. QED
      BY <3>1, <3>2
  <2>2. CASE ~\E len \in Body : Log0(len)
    <3>1. UNCHANGED <<clock, logged>>
      BY <2>2 DEF Core0, GetLogs, Dequeue, Peek, ReadFetch, ReadStore
    <3>2. QED
      BY <3>1 DEF Types, TypeOK
  <2>3. QED
    BY <2>1, <2>2
<1>5. Core1Counters'
  <2>1. rec1 \in Record => rec1.time \in Nat
    BY DEF Record
  <2>2. UNCHANGED <<pc1, rec1, done1, cells1, left1, reg1>>
    BY <1>1 DEF core1
  <2>3. UNCHANGED Weight(rec1)
    BY <2>2
  <2>4. QED
    BY <1>3, <1>4, <2>1, <2>2, <2>3 DEF Types, Core1Counters
<1>6. QED
  BY <1>1, <1>2, <1>3, <1>4, <1>5

(* What the oldest records of core 0 that go leave fits with the new one.   *)
LEMMA Log0Room ==
  ASSUME Types, NEW len \in Body, Log0(len)
  PROVE  /\ local' \in Seq(Record) /\ Used(local') <= Size - 1
         /\ \E k \in 0..Len(local), r \in Record :
              /\ r.time = clock
              /\ local' = Append(SubSeq(local, k + 1, Len(local)), r)
<1> USE LoggerAssumption
<1> DEFINE n == Len(local)
           r == [n |-> logged'[0], time |-> clock, len |-> len]
           Rest(k) == SubSeq(local, k + 1, Len(local))
           Fits(k) == Used(Rest(k)) + Weight(r) <= Size - 1
           gone == CHOOSE k \in 0..n : Fits(k) /\ \A j \in 0..k - 1 : ~Fits(j)
           T == {m \in Nat : \A k \in 0..n : k <= m /\ Fits(k) =>
                   \E l \in 0..n : Fits(l) /\ \A j \in 0..l - 1 : ~Fits(j)}
<1>1. n \in Nat /\ local \in Seq(Record) /\ logged'[0] \in Nat \ {0} /\ clock \in Nat
  <2>1. local \in Seq(Record) /\ clock \in Nat /\ logged \in [{0, 1} -> Nat]
    BY DEF Types, TypeOK
  <2>2. logged' = [logged EXCEPT ![0] = @ + 1]
    BY DEF Log0
  <2>3. logged'[0] = logged[0] + 1 /\ logged[0] \in Nat
    BY <2>1, <2>2
  <2>4. logged'[0] \in Nat \ {0}
    BY <2>3
  <2>5. QED
    BY <2>1, <2>4
<1>2. r \in Record
  BY <1>1 DEF Record
<1>3. local' = Append(Rest(gone), r)
  BY DEF Log0
<1>4. \A k \in 0..n : Rest(k) \in Seq(Record)
  BY <1>1
<1>5. Rest(n) = << >>
  BY <1>1
<1>6. Fits(n)
  <2>1. Used(Rest(n)) = 0
    BY <1>5, UsedFacts
  <2>2. Weight(r) \in Nat /\ Weight(r) <= Header + MaxBody
    BY <1>2, Weights
  <2> HIDE DEF Rest, r
  <2>3. QED
    BY <2>1, <2>2
<1> HIDE DEF Fits, r, n
<1>7. 0 \in T
  <2>1. ASSUME NEW k \in 0..n, k <= 0, Fits(k)
        PROVE  \E l \in 0..n : Fits(l) /\ \A j \in 0..l - 1 : ~Fits(j)
    <3>1. k = 0 /\ 0..k - 1 = {}
      BY <1>1, <2>1
    <3>2. QED
      BY <2>1, <3>1
  <2>2. QED
    BY <2>1
<1>8. ASSUME NEW m \in Nat, m \in T PROVE m + 1 \in T
  <2>1. ASSUME NEW k \in 0..n, k <= m + 1, Fits(k)
        PROVE  \E l \in 0..n : Fits(l) /\ \A j \in 0..l - 1 : ~Fits(j)
    <3>1. CASE \A j \in 0..k - 1 : ~Fits(j)
      BY <2>1, <3>1
    <3>2. CASE \E j \in 0..k - 1 : Fits(j)
      <4>1. PICK j \in 0..k - 1 : Fits(j)
        BY <3>2
      <4>2. j \in 0..n /\ j <= m
        BY <1>1, <2>1
      <4>3. QED
        BY <1>8, <4>1, <4>2
    <3>3. QED
      BY <3>1, <3>2
  <2>2. QED
    BY <2>1
<1>9. n \in T
  <2> HIDE DEF T
  <2>1. QED
    BY <1>1, <1>7, <1>8, NatSetInduction
<1>10. gone \in 0..n /\ Fits(gone)
  <2>1. n \in 0..n /\ n <= n
    BY <1>1
  <2>2. \E l \in 0..n : Fits(l) /\ \A j \in 0..l - 1 : ~Fits(j)
    BY <1>6, <1>9, <2>1
  <2>3. QED
    BY <2>2
<1> HIDE DEF gone, Rest
<1>11. local' \in Seq(Record) /\ Used(local') <= Size - 1
  <2>1. Rest(gone) \in Seq(Record)
    BY <1>4, <1>10
  <2>2. Used(local') = Used(Rest(gone)) + Weight(r)
    BY <1>2, <1>3, <2>1, UsedFacts
  <2>3. local' \in Seq(Record)
    BY <1>2, <1>3, <2>1
  <2>4. QED
    BY <1>10, <2>2, <2>3 DEF Fits
<1>12. r.time = clock
  BY DEF r
<1>13. QED
  BY <1>2, <1>3, <1>10, <1>11, <1>12 DEF Rest, n

LEMMA Log0Types ==
  ASSUME Types, NEW len \in Body, Log0(len)
  PROVE  TypeOK' /\ Core0Counters'
<1>1. local' \in Seq(Record) /\ Used(local') <= Size - 1
  BY Log0Room
<1>2. logged' \in [{0, 1} -> Nat] /\ clock' \in Nat
  BY Core0Leaves DEF Core0
<1>3. TypeOK'
  BY <1>1, <1>2 DEF Types, TypeOK, Log0, ring, core1, core0, history, NotesRace, Dropping, Reading
<1>4. Core0Counters'
  BY DEF Types, Core0Counters, Log0, core0, history
<1>5. QED
  BY <1>3, <1>4

LEMMA GetLogsTypes ==
  ASSUME Types, GetLogs
  PROVE  TypeOK' /\ Core0Counters'
<1> USE LoggerAssumption
<1>1. TypeOK'
  BY DEF Types, TypeOK, GetLogs, ring, core1, history, NotesRace, Dropping, Reading
<1>2. Core0Counters'
  BY DEF Types, TypeOK, Core0Counters, GetLogs, history
<1>3. QED
  BY <1>1, <1>2

(* try_dequeue_log returns with nothing, or with a record for the reply.    *)
LEMMA ReturnFacts ==
  ASSUME Types, NEW pc \in {"idle", "dequeue"}, Return(pc)
  PROVE  /\ pc0' = pc /\ cells0' = << >> /\ left0' \in 0..Header + MaxBody /\ reg0' \in Position
         /\ inFlight' = 0
BY LoggerAssumption, Positions DEF Return

LEMMA DeliverTypes ==
  ASSUME Types, NEW core \in {0, 1}, NEW r \in Record \cup {NoRecord}, NEW weight \in Nat,
         NEW beside \in Nat, Deliver(core, r, weight, beside)
  PROVE  /\ pc0' \in {"idle", "dequeue"} /\ cells0' = << >> /\ left0' \in 0..Header + MaxBody
         /\ reg0' \in Position /\ inFlight' = 0 /\ inFlight' \in Nat
         /\ space' \in 0..ReplySize /\ (pc0' # "idle" => space' >= Header + MaxBody)
         /\ delivered' \in Seq(Delivery)
<1> USE LoggerAssumption
<1> DEFINE kept == weight <= space
           last == ~kept \/ ReplyFull(space - weight)
           d == [core |-> core, n |-> r.n, time |-> r.time, inFlight |-> beside, kept |-> kept]
<1>1. /\ delivered' = Append(delivered, d)
      /\ space' = IF last THEN 0 ELSE space - weight
      /\ Return(IF last THEN "idle" ELSE "dequeue")
  BY DEF Deliver
<1>2. d \in Delivery
  BY DEF Delivery, Record, NoRecord
<1>3. delivered \in Seq(Delivery) /\ space \in 0..ReplySize
  BY DEF Types, TypeOK
<1>4. delivered' \in Seq(Delivery)
  BY <1>1, <1>2, <1>3
<1>5. space' \in 0..ReplySize /\ (~last => space' >= Header + MaxBody)
  BY <1>1, <1>3 DEF ReplyFull
<1>6. (IF last THEN "idle" ELSE "dequeue") \in {"idle", "dequeue"}
  OBVIOUS
<1> HIDE DEF last, d, kept
<1>7. /\ pc0' = (IF last THEN "idle" ELSE "dequeue") /\ cells0' = << >>
      /\ left0' \in 0..Header + MaxBody /\ reg0' \in Position /\ inFlight' = 0
  BY <1>1, <1>6, ReturnFacts
<1>8. QED
  BY <1>4, <1>5, <1>7

LEMMA TakeLocalTypes ==
  ASSUME Types, NEW beside \in Nat, TakeLocal(beside)
  PROVE  /\ pc0' \in {"idle", "dequeue"} /\ cells0' = << >> /\ left0' \in 0..Header + MaxBody
         /\ reg0' \in Position /\ inFlight' = 0 /\ inFlight' \in Nat
         /\ space' \in 0..ReplySize /\ (pc0' # "idle" => space' >= Header + MaxBody)
         /\ delivered' \in Seq(Delivery)
         /\ local' \in Seq(Record) /\ Used(local') <= Size - 1
<1>1. local \in Seq(Record) /\ Used(local) <= Size - 1
  BY DEF Types, TypeOK
<1>2. CASE local = << >>
  <2>1. NoLog
    BY <1>2 DEF TakeLocal
  <2>2. Return("idle") /\ space' = 0 /\ UNCHANGED <<local, delivered>>
    BY <2>1 DEF NoLog
  <2>3. Used(local') <= Size - 1
    BY <1>1, <2>2
  <2>4. QED
    BY <1>1, <2>2, <2>3, ReturnFacts, LoggerAssumption DEF Types, TypeOK
<1>3. CASE local # << >>
  <2>1. Deliver(0, Head(local), Weight(Head(local)), beside) /\ local' = Tail(local)
    BY <1>3 DEF TakeLocal
  <2>2. Head(local) \in Record /\ Tail(local) \in Seq(Record)
    BY <1>1, <1>3
  <2>3. Weight(Head(local)) \in Nat
    BY <2>2, Weights
  <2>4. Used(local') <= Size - 1
    <3>1. Used(Tail(local)) \in Nat /\ Used(local) \in Nat /\ Used(Tail(local)) <= Used(local)
      BY <1>1, <1>3, <2>2, UsedFacts
    <3>2. QED
      BY <1>1, <2>1, <3>1, LoggerAssumption
  <2>5. 0 \in {0, 1} /\ Head(local) \in Record \cup {NoRecord}
    BY <2>2
  <2>6. QED
    BY <2>1, <2>2, <2>3, <2>4, <2>5, DeliverTypes
<1>4. QED
  BY <1>2, <1>3

(* The types of what an action of core 0 changes are those of the state.    *)
LEMMA Core0Kept ==
  ASSUME Types, Core0, rd' \in Position,
         pc0' \in {"idle", "dequeue", "peek", "read", "readStore"},
         cells0' \in Seq(Cell), left0' \in 0..Header + MaxBody, reg0' \in Position,
         local' \in Seq(Record), Used(local') <= Size - 1,
         space' \in 0..ReplySize, delivered' \in Seq(Delivery), inFlight' \in Nat,
         caughtUp' \in BOOLEAN
  PROVE  TypeOK'
<1>1. buf' = buf /\ wr' = wr /\ dropped' = dropped
  BY Core0Leaves
<1>2. UNCHANGED <<pc1, rec1, done1, cells1, left1, reg1>>
  BY Core0Leaves DEF core1
<1>3. dropRace' \in BOOLEAN
  BY Core0Leaves DEF Types, TypeOK, Dropping, Reading
<1>4. clock' \in Nat /\ logged' \in [{0, 1} -> Nat]
  BY Core0Leaves
<1>5. QED
  BY <1>1, <1>2, <1>3, <1>4 DEF Types, TypeOK

LEMMA DequeueTypes ==
  ASSUME Types, Dequeue
  PROVE  TypeOK' /\ Core0Counters'
<1> USE LoggerAssumption
<1>1. rec1.time \in Nat
  BY SMTT(20) DEF Types, TypeOK, Record, NoRecord
<1>2. Core0 /\ rd' \in Position /\ caughtUp' \in BOOLEAN
  BY DEF Core0, Dequeue, ring, Types, TypeOK
<1>3. CASE Length(rd, wr) # 0
  <2>1. /\ pc0' = "peek" /\ reg0' = rd /\ inFlight' = rec1.time
        /\ UNCHANGED <<cells0, left0, local, space, delivered>>
    BY <1>3 DEF Dequeue
  <2>2. Used(local') <= Size - 1
    BY <2>1 DEF Types, TypeOK
  <2>3. TypeOK'
    BY <1>1, <1>2, <2>1, <2>2, Core0Kept DEF Types, TypeOK
  <2>4. cells0 = << >> /\ space >= Header + MaxBody
    BY DEF Types, Core0Counters, Dequeue
  <2>5. Core0Counters'
    BY <2>1, <2>4 DEF Core0Counters
  <2>6. QED
    BY <2>3, <2>5
<1>4. CASE Length(rd, wr) = 0
  <2>1. TakeLocal(rec1.time)
    BY <1>4 DEF Dequeue
  <2> HIDE DEF TakeLocal
  <2>2. /\ pc0' \in {"idle", "dequeue"} /\ cells0' = << >> /\ left0' \in 0..Header + MaxBody
        /\ reg0' \in Position /\ inFlight' = 0 /\ inFlight' \in Nat
        /\ space' \in 0..ReplySize /\ (pc0' # "idle" => space' >= Header + MaxBody)
        /\ delivered' \in Seq(Delivery)
        /\ local' \in Seq(Record) /\ Used(local') <= Size - 1
    BY <1>1, <2>1, TakeLocalTypes
  <2>3. cells0' \in Seq(Cell)
    BY <2>2
  <2>4. TypeOK'
    BY <1>2, <2>2, <2>3, Core0Kept
  <2>5. Core0Counters'
    BY <2>2 DEF Core0Counters
  <2>6. QED
    BY <2>4, <2>5
<1>5. QED
  BY <1>3, <1>4

(* What looking at both headers leads to.                                   *)
LEMMA ChooseTypes ==
  ASSUME Types, Choose
  PROVE  \/ TakeLocal(inFlight)
         \/ /\ pc0' = "read" /\ cells0' = << >> /\ left0' = Header /\ reg0' = 0
            /\ UNCHANGED <<local, space, delivered, inFlight>>
BY DEF Choose

LEMMA PeekTypes ==
  ASSUME Types, Peek
  PROVE  TypeOK' /\ Core0Counters'
<1> USE LoggerAssumption
<1>1. Core0 /\ rd' \in Position /\ caughtUp' \in BOOLEAN
  BY DEF Core0, Peek, ring, Types, TypeOK
<1>2. inFlight \in Nat /\ space >= Header + MaxBody /\ Len(cells0) <= Header /\ pc0 = "peek"
  BY DEF Types, TypeOK, Core0Counters, Peek
<1>3. CASE TakeLocal(inFlight)
  <2>1. /\ pc0' \in {"idle", "dequeue"} /\ cells0' = << >> /\ left0' \in 0..Header + MaxBody
        /\ reg0' \in Position /\ inFlight' = 0 /\ inFlight' \in Nat
        /\ space' \in 0..ReplySize /\ (pc0' # "idle" => space' >= Header + MaxBody)
        /\ delivered' \in Seq(Delivery)
        /\ local' \in Seq(Record) /\ Used(local') <= Size - 1
    BY <1>2, <1>3, TakeLocalTypes
  <2>2. cells0' \in Seq(Cell)
    BY <2>1
  <2>3. TypeOK'
    BY <1>1, <2>1, <2>2, Core0Kept
  <2>4. Core0Counters'
    BY <2>1 DEF Core0Counters
  <2>5. QED
    BY <2>3, <2>4
<1>4. CASE /\ pc0' = "read" /\ cells0' = << >> /\ left0' = Header /\ reg0' = 0
           /\ UNCHANGED <<local, space, delivered, inFlight>>
  <2>1. Used(local') <= Size - 1 /\ cells0' \in Seq(Cell) /\ reg0' \in Position
    BY <1>4, Positions DEF Types, TypeOK
  <2>2. TypeOK'
    BY <1>1, <1>4, <2>1, Core0Kept DEF Types, TypeOK
  <2>3. Core0Counters'
    BY <1>2, <1>4 DEF Core0Counters
  <2>4. QED
    BY <2>2, <2>3
<1>5. CASE /\ reg0 # wr /\ Len(cells0) # Header
           /\ cells0' = Append(cells0, buf[reg0])
           /\ reg0' = Following(reg0)
           /\ UNCHANGED <<pc0, left0, local, space, delivered, inFlight>>
  <2>1. buf[reg0] \in Cell /\ cells0 \in Seq(Cell) /\ Following(reg0) \in Position
    BY Positions DEF Types, TypeOK
  <2>2. cells0' \in Seq(Cell) /\ Len(cells0') = Len(cells0) + 1 /\ Len(cells0) \in Nat
    BY <1>5, <2>1
  <2>3. Used(local') <= Size - 1
    BY <1>5 DEF Types, TypeOK
  <2>4. TypeOK'
    BY <1>1, <1>2, <1>5, <2>1, <2>2, <2>3, Core0Kept DEF Types, TypeOK
  <2>5. Core0Counters'
    BY <1>2, <1>5, <2>2 DEF Core0Counters
  <2>6. QED
    BY <2>4, <2>5
<1>6. QED
  BY <1>3, <1>4, <1>5, ChooseTypes DEF Peek

(* A record of core 1 that was read, or what stands in its place.           *)
LEMMA DeliverRemoteTypes ==
  ASSUME Types, cells0 # << >>, DeliverRemote
  PROVE  /\ pc0' \in {"idle", "dequeue"} /\ cells0' = << >> /\ left0' \in 0..Header + MaxBody
         /\ reg0' \in Position /\ inFlight' = 0 /\ inFlight' \in Nat
         /\ space' \in 0..ReplySize /\ (pc0' # "idle" => space' >= Header + MaxBody)
         /\ delivered' \in Seq(Delivery)
         /\ local' \in Seq(Record) /\ Used(local') <= Size - 1
<1> DEFINE r == IF IsRecord(cells0) THEN cells0[1].rec ELSE NoRecord
<1>1. cells0 \in Seq(Cell) /\ inFlight \in Nat /\ Len(cells0) \in Nat /\ 1 \in {0, 1}
  BY DEF Types, TypeOK
<1>2. r \in Record \cup {NoRecord}
  <2>1. cells0[1] \in Cell
    BY <1>1
  <2>2. QED
    BY <2>1 DEF Cell
<1>3. Deliver(1, r, Len(cells0), inFlight) /\ local' = local
  BY DEF DeliverRemote
<1> HIDE DEF r
<1>4. local' \in Seq(Record) /\ Used(local') <= Size - 1
  BY <1>3 DEF Types, TypeOK
<1>5. QED
  BY <1>1, <1>2, <1>3, <1>4, DeliverTypes

LEMMA ReadFetchTypes ==
  ASSUME Types, ReadFetch
  PROVE  TypeOK' /\ Core0Counters'
<1> USE LoggerAssumption
<1>1. Core0 /\ rd' \in Position
  BY DEF Core0, ReadFetch, ring, Types, TypeOK
<1>2. inFlight \in Nat /\ space >= Header + MaxBody /\ pc0 = "read" /\ left0 >= 1
  BY DEF Types, TypeOK, Core0Counters, ReadFetch
<1>3. CASE rd # wr
  <2>1. /\ cells0' = Append(cells0, buf[rd]) /\ reg0' = rd /\ pc0' = "readStore"
        /\ UNCHANGED <<left0, local, space, delivered, inFlight, caughtUp>>
    BY <1>3 DEF ReadFetch
  <2>2. buf[rd] \in Cell /\ cells0 \in Seq(Cell)
    BY DEF Types, TypeOK
  <2>3. cells0' \in Seq(Cell) /\ cells0' # << >>
    <3>1. Append(cells0, buf[rd]) \in Seq(Cell) /\ Append(cells0, buf[rd]) # << >>
      BY <2>2
    <3>2. QED
      BY <2>1, <3>1
  <2>4. Used(local') <= Size - 1
    BY <2>1 DEF Types, TypeOK
  <2>5. TypeOK'
    BY <1>1, <2>1, <2>3, <2>4, Core0Kept DEF Types, TypeOK
  <2>6. Core0Counters'
    BY <1>2, <2>1, <2>3 DEF Core0Counters
  <2>7. QED
    BY <2>5, <2>6
<1>4. CASE rd = wr
  <2>1. caughtUp' \in BOOLEAN /\ IF Len(cells0) < Header THEN NoLog ELSE DeliverRemote
    BY <1>4 DEF ReadFetch
  <2>2. /\ pc0' \in {"idle", "dequeue"} /\ cells0' = << >> /\ left0' \in 0..Header + MaxBody
        /\ reg0' \in Position /\ inFlight' = 0 /\ inFlight' \in Nat
        /\ space' \in 0..ReplySize /\ (pc0' # "idle" => space' >= Header + MaxBody)
        /\ delivered' \in Seq(Delivery)
        /\ local' \in Seq(Record) /\ Used(local') <= Size - 1
    <3>1. CASE Len(cells0) < Header
      <4>1. Return("idle") /\ space' = 0 /\ UNCHANGED <<local, delivered>>
        BY <2>1, <3>1 DEF NoLog
      <4>2. Used(local') <= Size - 1
        BY <4>1 DEF Types, TypeOK
      <4>3. QED
        BY <4>1, <4>2, ReturnFacts DEF Types, TypeOK
    <3>2. CASE ~(Len(cells0) < Header)
      <4>1. cells0 # << >>
        BY <3>2
      <4>2. DeliverRemote
        BY <2>1, <3>2
      <4>3. QED
        BY <4>1, <4>2, DeliverRemoteTypes
    <3>3. QED
      BY <3>1, <3>2
  <2>3. cells0' \in Seq(Cell)
    BY <2>2
  <2>4. TypeOK'
    BY <1>1, <2>1, <2>2, <2>3, Core0Kept
  <2>5. Core0Counters'
    BY <2>2 DEF Core0Counters
  <2>6. QED
    BY <2>4, <2>5
<1>5. QED
  BY <1>3, <1>4

LEMMA ReadStoreTypes ==
  ASSUME Types, ReadStore
  PROVE  TypeOK' /\ Core0Counters'
<1> USE LoggerAssumption
<1>1. Core0 /\ caughtUp' \in BOOLEAN
  BY DEF Core0, ReadStore, Types, TypeOK
<1>2. rd' \in Position
  BY Positions DEF ReadStore, Stored, Types, TypeOK
<1>3. /\ inFlight \in Nat /\ space >= Header + MaxBody /\ pc0 = "readStore" /\ left0 >= 1
      /\ cells0 # << >> /\ cells0 \in Seq(Cell) /\ left0 \in 0..Header + MaxBody
  BY DEF Types, TypeOK, Core0Counters, ReadStore
<1>4. PICK n \in IF left0 > 1 THEN {left0 - 1}
                 ELSE IF Len(cells0) = Header THEN BodyOf(cells0) ELSE {0} :
        IF n = 0
        THEN DeliverRemote
        ELSE /\ pc0' = "read" /\ left0' = n /\ reg0' = 0
             /\ UNCHANGED <<cells0, local, space, delivered, inFlight>>
  BY DEF ReadStore
<1>5. n \in 0..Header + MaxBody
  <2>1. Len(cells0) = Header => BodyOf(cells0) \subseteq Body
    BY <1>3, Bodies
  <2>2. CASE left0 > 1
    BY <1>3, <2>2
  <2>3. CASE ~(left0 > 1)
    <3>1. n \in IF Len(cells0) = Header THEN BodyOf(cells0) ELSE {0}
      BY <2>3
    <3>2. n \in Body
      BY <2>1, <3>1 DEF Body
    <3>3. QED
      BY <3>2 DEF Body
  <2>4. QED
    BY <2>2, <2>3
<1>6. CASE n = 0
  <2>1. /\ pc0' \in {"idle", "dequeue"} /\ cells0' = << >> /\ left0' \in 0..Header + MaxBody
        /\ reg0' \in Position /\ inFlight' = 0 /\ inFlight' \in Nat
        /\ space' \in 0..ReplySize /\ (pc0' # "idle" => space' >= Header + MaxBody)
        /\ delivered' \in Seq(Delivery)
        /\ local' \in Seq(Record) /\ Used(local') <= Size - 1
    BY <1>3, <1>4, <1>6, DeliverRemoteTypes
  <2>2. cells0' \in Seq(Cell)
    BY <2>1
  <2>3. TypeOK'
    BY <1>1, <1>2, <2>1, <2>2, Core0Kept
  <2>4. Core0Counters'
    BY <2>1 DEF Core0Counters
  <2>5. QED
    BY <2>3, <2>4
<1>7. CASE n # 0
  <2>1. /\ pc0' = "read" /\ left0' = n /\ reg0' = 0
        /\ UNCHANGED <<cells0, local, space, delivered, inFlight>>
    BY <1>4, <1>7
  <2>2. Used(local') <= Size - 1 /\ reg0' \in Position
    BY <2>1, Positions DEF Types, TypeOK
  <2>3. TypeOK'
    BY <1>1, <1>2, <1>3, <1>5, <2>1, <2>2, Core0Kept DEF Types, TypeOK
  <2>4. n >= 1
    BY <1>5, <1>7
  <2>5. Core0Counters'
    BY <1>3, <2>1, <2>4 DEF Core0Counters
  <2>6. QED
    BY <2>3, <2>5
<1>8. QED
  BY <1>6, <1>7

LEMMA Core0Types == Types /\ Core0 => Types'
<1> SUFFICES ASSUME Types, Core0 PROVE Types'
  OBVIOUS
<1>1. TypeOK' /\ Core0Counters'
  BY Log0Types, GetLogsTypes, DequeueTypes, PeekTypes, ReadFetchTypes, ReadStoreTypes DEF Core0
<1>2. QED
  BY <1>1, Core0Leaves DEF Types

LEMMA NextTypes == Types /\ [Next]_vars => Types'
<1> SUFFICES ASSUME Types, [Next]_vars PROVE Types'
  OBVIOUS
<1>1. CASE UNCHANGED vars
  <2>1. TypeOK'
    BY <1>1 DEF Types, TypeOK, vars, ring, core1, core0, history
  <2>2. Core1Counters' /\ Core0Counters'
    BY <1>1 DEF Types, Core1Counters, Core0Counters, Dropping, Weight, vars, core1, core0, history
  <2>3. QED
    BY <2>1, <2>2 DEF Types
<1>2. QED
  BY <1>1, Core1Types, Core0Types DEF Next

(* The types of the state, and what the ring of core 0 holds always fits in  *)
(* it, whatever the cells core 0 reads while core 1 writes say.             *)
THEOREM TypeCorrect == Spec => []TypeOK
<1>1. Types => TypeOK
  BY DEF Types
<1>2. QED
  BY <1>1, InitTypes, NextTypes, PTL DEF Spec

-----------------------------------------------------------------------------
(* Room.                                                                   *)

(* How far apart two positions are, and how that changes.                   *)
LEMMA Lengths ==
  ASSUME NEW r \in Position, NEW w \in Position
  PROVE  /\ Length(r, w) \in Nat /\ Length(r, w) < Size
         /\ Length(r, w) = 0 <=> r = w
         /\ r # w => Length(Following(r), w) = Length(r, w) - 1
         /\ Following(w) # r => Length(r, Following(w)) = Length(r, w) + 1
         /\ Following(w) = r => Length(r, w) = Size - 1
BY LoggerAssumption DEF Position, Length, Following

(* Until a drop meets a read, the position either core is about to store     *)
(* follows the one in the ring, and the room for a record stays.            *)
RoomInv ==
  ~dropRace =>
    /\ ~(Dropping /\ Reading)
    /\ pc1 = "dropStore" => reg1 = rd /\ rd # wr
    /\ pc0 = "readStore" => reg0 = rd /\ rd # wr
    /\ pc1 = "write" => Available(rd, wr) >= Weight(rec1) - done1
    /\ pc1 # "panic"

LEMMA InitRoom == Init => RoomInv
BY DEF Init, RoomInv, Dropping, Reading

LEMMA WriteRoom ==
  ASSUME Types, RoomInv, Write, ~dropRace
  PROVE  /\ Following(wr) # rd
         /\ wr' = Following(wr) /\ wr' \in Position /\ rd' = rd /\ rd \in Position /\ wr \in Position
         /\ Length(rd, wr') = Length(rd, wr) + 1
         /\ pc1' # "panic"
         /\ pc1' = "write" => Available(rd, wr') >= Weight(rec1') - done1'
<1>1. /\ rd \in Position /\ wr \in Position /\ done1 \in Nat /\ Weight(rec1) \in Nat
      /\ pc1 = "write" /\ done1 < Weight(rec1)
  BY Weights DEF Types, TypeOK, Core1Counters, Write
<1>2. Available(rd, wr) >= Weight(rec1) - done1
  BY <1>1 DEF RoomInv
<1>3. Length(rd, wr) \in Nat /\ Length(rd, wr) < Size - 1 /\ Size \in Nat
  BY <1>1, <1>2, Lengths, LoggerAssumption DEF Available
<1>4. Following(wr) # rd
  BY <1>1, <1>3, Lengths
<1>5. Length(rd, Following(wr)) = Length(rd, wr) + 1
  BY <1>1, <1>4, Lengths
<1>6. /\ wr' = Following(wr) /\ rd' = rd /\ pc1' \in {"idle", "write"}
      /\ pc1' = "write" => done1' = done1 + 1 /\ rec1' = rec1
  BY <1>1, <1>4 DEF Write
<1>7. Following(wr) \in Position
  BY <1>1, Positions
<1>8. ASSUME pc1' = "write" PROVE Available(rd, wr') >= Weight(rec1') - done1'
  <2>1. done1' = done1 + 1 /\ rec1' = rec1
    BY <1>6, <1>8
  <2>2. Weight(rec1') = Weight(rec1)
    BY <2>1
  <2>3. Available(rd, wr') = Available(rd, wr) - 1
    BY <1>3, <1>5, <1>6 DEF Available
  <2>4. Available(rd, wr) \in Int
    BY <1>3 DEF Available
  <2>5. QED
    BY <1>1, <1>2, <2>1, <2>2, <2>3, <2>4
<1>9. QED
  BY <1>1, <1>4, <1>5, <1>6, <1>7, <1>8

LEMMA Core1Room ==
  ASSUME Types, RoomInv, Core1
  PROVE  RoomInv'
<1> SUFFICES ASSUME ~dropRace'
             PROVE  /\ ~(Dropping' /\ Reading')
                    /\ pc1' = "dropStore" => reg1' = rd' /\ rd' # wr'
                    /\ pc0' = "readStore" => reg0' = rd' /\ rd' # wr'
                    /\ pc1' = "write" => Available(rd', wr') >= Weight(rec1') - done1'
                    /\ pc1' # "panic"
  BY DEF RoomInv, Available, Length, Weight
<1>1. /\ ~dropRace /\ ~(Dropping' /\ Reading) /\ pc0' = pc0 /\ reg0' = reg0
      /\ Reading' <=> Reading
  BY Core1Leaves DEF Types, TypeOK, core0, Reading
<1>2. /\ ~(Dropping /\ Reading)
      /\ pc1 = "dropStore" => reg1 = rd /\ rd # wr
      /\ pc0 = "readStore" => reg0 = rd /\ rd # wr
      /\ pc1 # "panic"
  BY <1>1 DEF RoomInv
<1>3. rd \in Position /\ wr \in Position
  BY DEF Types, TypeOK
<1>4. CASE \E len \in Body : Log1(len)
  BY <1>1, <1>2, <1>4 DEF Log1, ring
<1>5. CASE EnsureRoom
  <2>1. /\ UNCHANGED <<rd, wr, rec1, done1>> /\ pc1' \in {"drop", "write"}
        /\ pc1' = "write" => ~(Available(rd, wr) < Weight(rec1))
        /\ done1 = 0
    BY <1>5 DEF EnsureRoom, ring, Types, Core1Counters
  <2>2. Available(rd, wr) \in Int /\ Weight(rec1) \in Nat
    <3>1. Length(rd, wr) \in Nat
      BY <1>3, Lengths
    <3>2. Available(rd, wr) \in Int
      BY <3>1, LoggerAssumption DEF Available
    <3>3. QED
      BY <3>2, Weights DEF Types, TypeOK
  <2>3. pc1' = "write" => Available(rd', wr') >= Weight(rec1') - done1'
    BY <2>1, <2>2
  <2>4. QED
    BY <1>1, <1>2, <2>1, <2>3
<1>6. CASE DropFetch
  <2>1. /\ UNCHANGED <<rd, wr>> /\ pc1' \in {"room", "dropStore"}
        /\ pc1' = "dropStore" => rd # wr /\ reg1' = rd
    BY <1>6 DEF DropFetch, ring
  <2>2. QED
    BY <1>1, <1>2, <2>1
<1>7. CASE DropStore
  <2>1. pc1' \in {"room", "drop"} /\ Dropping
    BY <1>7 DEF DropStore, AfterDropRead, Dropping
  <2>2. pc0 # "readStore"
    BY <1>2, <2>1 DEF Reading
  <2>3. QED
    BY <1>1, <2>1, <2>2
<1>8. CASE Write
  <2>1. /\ Following(wr) # rd /\ wr' = Following(wr) /\ rd' = rd /\ pc1' # "panic"
        /\ pc1' = "write" => Available(rd, wr') >= Weight(rec1') - done1'
    BY <1>1, <1>8, WriteRoom
  <2>2. pc1' # "dropStore"
    BY <1>8 DEF Write
  <2>3. QED
    BY <1>1, <1>2, <2>1, <2>2
<1>9. QED
  BY <1>4, <1>5, <1>6, <1>7, <1>8 DEF Core1

(* Core 0 moves read_position only by what it has read, and to where core 1  *)
(* finds more room.                                                        *)
LEMMA ReadRoom ==
  ASSUME Types, RoomInv, ~dropRace, ReadStore
  PROVE  /\ rd # wr /\ rd' = Following(rd) /\ wr' = wr
         /\ rd \in Position /\ rd' \in Position /\ wr \in Position
         /\ Length(rd', wr) = Length(rd, wr) - 1
         /\ Available(rd', wr') >= Available(rd, wr)
<1>1. rd \in Position /\ wr \in Position /\ reg0 = rd /\ rd # wr
  BY DEF Types, TypeOK, RoomInv, ReadStore
<1>2. rd' = Following(rd) /\ wr' = wr
  BY <1>1 DEF ReadStore, Stored
<1>3. rd' \in Position /\ Length(rd', wr) = Length(rd, wr) - 1 /\ Length(rd, wr) \in Nat
  BY <1>1, <1>2, Lengths, Positions
<1>4. Available(rd', wr') >= Available(rd, wr)
  BY <1>2, <1>3, LoggerAssumption DEF Available
<1>5. QED
  BY <1>1, <1>2, <1>3, <1>4

LEMMA Core0Room ==
  ASSUME Types, RoomInv, Core0
  PROVE  RoomInv'
<1> SUFFICES ASSUME ~dropRace'
             PROVE  /\ ~(Dropping' /\ Reading')
                    /\ pc1' = "dropStore" => reg1' = rd' /\ rd' # wr'
                    /\ pc0' = "readStore" => reg0' = rd' /\ rd' # wr'
                    /\ pc1' = "write" => Available(rd', wr') >= Weight(rec1') - done1'
                    /\ pc1' # "panic"
  BY DEF RoomInv, Available, Length, Weight
<1>1. /\ ~dropRace /\ ~(Dropping /\ Reading')
      /\ UNCHANGED <<buf, wr, pc1, rec1, done1, cells1, left1, reg1>>
      /\ Dropping' <=> Dropping
  BY Core0Leaves DEF Types, TypeOK, core1, Dropping
<1>2. /\ ~(Dropping /\ Reading)
      /\ pc1 = "dropStore" => reg1 = rd /\ rd # wr
      /\ pc1 = "write" => Available(rd, wr) >= Weight(rec1) - done1
      /\ pc1 # "panic"
  BY <1>1 DEF RoomInv
<1>3. CASE ReadStore
  <2>1. Reading /\ pc1 # "dropStore" /\ pc0' # "readStore"
    BY <1>2, <1>3 DEF ReadStore, DeliverRemote, Deliver, Return, Reading, Dropping
  <2>2. rd \in Position /\ rd' \in Position /\ wr \in Position /\ Available(rd', wr') >= Available(rd, wr)
    BY <1>1, <1>3, ReadRoom
  <2>3. wr' = wr /\ Weight(rec1') - done1' = Weight(rec1) - done1
    BY <1>1
  <2>4. Weight(rec1) \in Nat /\ done1 \in Nat
    BY Weights DEF Types, TypeOK
  <2>5. Available(rd, wr) \in Int /\ Available(rd', wr') \in Int
    BY <2>2, <2>3, Lengths, LoggerAssumption DEF Available
  <2>6. pc1' = "write" => Available(rd', wr') >= Weight(rec1') - done1'
    BY <1>1, <1>2, <2>2, <2>3, <2>4, <2>5
  <2>7. QED
    BY <1>1, <1>2, <2>1, <2>6
<1>4. CASE ~ReadStore
  <2>1. rd' = rd
    BY <1>4 DEF Core0, Log0, GetLogs, Dequeue, Peek, ReadFetch, ring
  <2>2. ASSUME pc0' = "readStore" PROVE reg0' = rd' /\ rd # wr
    <3>1. ReadFetch
      BY <1>4, <2>2 DEF Core0, Log0, GetLogs, Dequeue, Peek, Choose, TakeLocal, NoLog, Deliver,
                        Return, core0
    <3>2. QED
      BY <2>1, <2>2, <3>1 DEF ReadFetch, NoLog, DeliverRemote, Deliver, Return
  <2>3. Available(rd', wr') = Available(rd, wr) /\ Weight(rec1') = Weight(rec1)
    BY <1>1, <2>1
  <2>4. QED
    BY <1>1, <1>2, <2>1, <2>2, <2>3
<1>5. QED
  BY <1>3, <1>4

LEMMA NextRoom == Types /\ RoomInv /\ [Next]_vars => RoomInv'
<1> SUFFICES ASSUME Types, RoomInv, [Next]_vars PROVE RoomInv'
  OBVIOUS
<1>1. CASE UNCHANGED vars
  BY <1>1 DEF RoomInv, Dropping, Reading, Available, Length, Weight, vars, ring, core1, core0, history
<1>2. QED
  BY <1>1, Core1Room, Core0Room DEF Next

(* Core 1 finds the room it has made (the panics of logger.c), for any size  *)
(* of the ring and any records, until a drop of a record has met a read of   *)
(* the same ring by core 0.                                                *)
THEOREM PanicNeedsRace == Spec => []PanicOnlyAfterRace
<1>1. RoomInv => PanicOnlyAfterRace
  BY DEF RoomInv, PanicOnlyAfterRace
<1>2. QED
  BY <1>1, InitTypes, NextTypes, InitRoom, NextRoom, PTL DEF Spec

-----------------------------------------------------------------------------
(* What the ring holds.                                                    *)

In(r, w, p) == Length(r, p) < Length(r, w)

(* The positions from r to w, and how they change when r or w moves on.     *)
LEMMA Ring ==
  ASSUME NEW r \in Position, NEW w \in Position
  PROVE  /\ r # w => In(r, w, r)
         /\ r = w => \A p \in Position : ~In(r, w, p)
         /\ ~In(r, w, w)
         /\ r # w => \A p \in Position : In(Following(r), w, p) <=> In(r, w, p) /\ p # r
         /\ Following(w) # r => \A p \in Position : In(r, Following(w), p) <=> In(r, w, p) \/ p = w
         /\ \A p \in Position : In(r, w, p) /\ Following(p) # w => In(r, w, Following(p))
         /\ \A p \in Position : In(r, w, p) => Following(p) # r \/ Following(p) = w
<1> USE LoggerAssumption DEF Position, Length, Following, In
<1>1. r # w => In(r, w, r)
  OBVIOUS
<1>2. r = w => \A p \in Position : ~In(r, w, p)
  OBVIOUS
<1>3. ~In(r, w, w)
  OBVIOUS
<1>4. r # w => \A p \in Position : In(Following(r), w, p) <=> In(r, w, p) /\ p # r
  OBVIOUS
<1>5. Following(w) # r => \A p \in Position : In(r, Following(w), p) <=> In(r, w, p) \/ p = w
  OBVIOUS
<1>6. \A p \in Position : In(r, w, p) /\ Following(p) # w => In(r, w, Following(p))
  OBVIOUS
<1>7. \A p \in Position : In(r, w, p) => Following(p) # r \/ Following(p) = w
  OBVIOUS
<1>8. QED
  BY <1>1, <1>2, <1>3, <1>4, <1>5, <1>6, <1>7

(* The order of the positions in the ring.                                  *)
LEMMA RingOrder ==
  ASSUME NEW r \in Position, NEW w \in Position, NEW p \in Position, In(r, w, p)
  PROVE  /\ Length(r, p) \in Nat /\ (p # r => Length(Following(r), p) = Length(r, p) - 1)
         /\ Length(r, r) = 0 /\ Length(r, p) < Length(r, w)
         /\ \A q \in Position : Following(q) = Following(p) => q = p
BY LoggerAssumption DEF Position, Length, Following, In

Calm == ~dropRace /\ ~caughtUp

(* The last record of core 1 that is whole, and the cell before             *)
(* write_position.                                                         *)
LastWritten == IF pc1 = "idle" THEN logged[1] ELSE logged[1] - 1
Newest(c) ==
  IF done1 > 0 THEN c = [rec |-> rec1, part |-> done1]
  ELSE Whole(c) /\ c.rec.n = LastWritten

(* Every cell in the ring is followed by the next one of the records of      *)
(* core 1, up to what it has written.                                      *)
CellInv(p) ==
  /\ buf[p].rec \in Record /\ buf[p].part \in 1..Weight(buf[p].rec)
  /\ buf[p].rec.time < clock
  /\ pc1 # "idle" => buf[p].rec.time < rec1.time \/ (buf[p].rec = rec1 /\ done1 > 0)
  /\ IF Following(p) = wr THEN Newest(buf[p]) ELSE FollowedBy(buf[p], buf[Following(p)])
RingInv == Calm => \A p \in Position : InRing(p) => CellInv(p)

LEMMA InRingIn == \A p : InRing(p) <=> In(rd, wr, p)
BY DEF InRing, In

LEMMA InitRing == Init => RingInv
BY Positions, Lengths DEF Init, RingInv, InRing

(* An action that leaves the ring and core 1 alone keeps it.                *)
LEMMA SameRing ==
  ASSUME Types, RingInv, UNCHANGED <<ring, rec1, done1>>, logged'[1] = logged[1],
         pc1' = "idle" <=> pc1 = "idle",
         clock' \in Nat, clock <= clock', Calm' => Calm
  PROVE  RingInv'
<1> SUFFICES ASSUME Calm', NEW p \in Position, InRing(p)' PROVE CellInv(p)'
  BY DEF RingInv
<1>1. UNCHANGED <<buf, rd, wr, rec1, done1>> /\ Calm
  BY DEF ring
<1>2. InRing(p)
  BY <1>1 DEF InRing, Length
<1>3. CellInv(p)
  BY <1>1, <1>2 DEF RingInv
<1>4. buf[p].rec.time \in Nat /\ clock \in Nat
  BY <1>3 DEF CellInv, Record, Types, TypeOK
<1>5. LastWritten' = LastWritten
  BY <1>1 DEF LastWritten
<1>6. Newest(buf[p]) => Newest(buf[p])'
  BY <1>1, <1>5 DEF Newest, Whole, Weight
<1>7. FollowedBy(buf[p], buf[Following(p)]) => FollowedBy(buf[p], buf[Following(p)])'
  BY <1>1 DEF FollowedBy, Whole, Weight, Following
<1>8. Following(p)' = Following(p)
  BY DEF Following
<1>9. Weight(buf[p].rec)' = Weight(buf[p].rec)
  BY <1>1
<1>10. QED
  BY <1>1, <1>3, <1>4, <1>6, <1>7, <1>8, <1>9 DEF CellInv

(* ... so does one that lets the first cell go.                             *)
LEMMA RingAdvances ==
  ASSUME Types, RingInv, UNCHANGED <<buf, wr, rec1, done1, clock, logged>>,
         pc1' = "idle" <=> pc1 = "idle",
         rd # wr, rd' = Following(rd), Calm' => Calm
  PROVE  /\ RingInv'
         /\ Calm => /\ \A p \in Position : InRing(p)' <=> InRing(p) /\ p # rd
                    /\ CellInv(rd)
                    /\ rd' = wr => Newest(buf[rd])
                    /\ rd' # wr => FollowedBy(buf[rd], buf[rd'])
<1>1. rd \in Position /\ wr \in Position
  BY DEF Types, TypeOK
<1>2. ASSUME NEW p \in Position PROVE InRing(p)' <=> InRing(p) /\ p # rd
  <2>1. InRing(p)' <=> In(Following(rd), wr, p)
    BY DEF InRing, In
  <2>2. In(Following(rd), wr, p) <=> In(rd, wr, p) /\ p # rd
    BY <1>1, Ring
  <2>3. QED
    BY <2>1, <2>2, InRingIn
<1>3. InRing(rd)
  BY <1>1, Ring, InRingIn
<1>4. ASSUME Calm', NEW p \in Position, InRing(p)' PROVE CellInv(p)'
  <2>1. CellInv(p)
    BY <1>2, <1>4 DEF RingInv
  <2>2. LastWritten' = LastWritten
    BY DEF LastWritten
  <2>3. Newest(buf[p]) => Newest(buf[p])'
    BY <2>2 DEF Newest, Whole, Weight
  <2>4. FollowedBy(buf[p], buf[Following(p)]) => FollowedBy(buf[p], buf[Following(p)])'
    BY DEF FollowedBy, Whole, Weight, Following
  <2>5. Following(p)' = Following(p) /\ Weight(buf[p].rec)' = Weight(buf[p].rec)
    BY DEF Following
  <2>6. QED
    BY <2>1, <2>3, <2>4, <2>5 DEF CellInv
<1>5. RingInv'
  BY <1>4 DEF RingInv
<1>6. Calm => CellInv(rd)
  BY <1>1, <1>3 DEF RingInv
<1>7. QED
  BY <1>2, <1>5, <1>6 DEF CellInv

(* A record that is being taken out of the ring, by whichever core: how many  *)
(* of its cells are gone, and how many are still to be read.                *)
Removed ==
  IF pc0 = "read" THEN Len(cells0) ELSE IF pc0 = "readStore" THEN Len(cells0) - 1
  ELSE IF pc1 = "drop" THEN Len(cells1) ELSE IF pc1 = "dropStore" THEN Len(cells1) - 1 ELSE 0
ToRead(cs, k) == IF k < Header THEN Header - k ELSE Weight(cs[1].rec) - k
PartOf(cs) == \A i \in DOMAIN cs : cs[i] = [rec |-> cs[1].rec, part |-> i]

(* The first cell in the ring continues that record, or begins one.         *)
FrontInv == Calm =>
  /\ rd # wr => buf[rd].part = Removed + 1
  /\ rd = wr => /\ done1 = Removed /\ pc0 # "peek"
                /\ Removed > 0 => pc0 = "read" /\ cells0[1].rec = rec1
  /\ Reading =>
       /\ PartOf(cells0)
       /\ cells0 # << >> => cells0[1].rec \in Record /\ (rd # wr => cells0[1].rec = buf[rd].rec)
  /\ pc0 \in {"read", "readStore"} => left0 = ToRead(cells0, Removed)
  /\ Dropping =>
       /\ rd # wr /\ PartOf(cells1) /\ left1 = ToRead(cells1, Removed)
       /\ cells1 # << >> => cells1[1].rec = buf[rd].rec

LEMMA PartOfAppend ==
  ASSUME NEW cs \in Seq(Cell), NEW c \in Cell, PartOf(cs), c.part = Len(cs) + 1,
         cs # << >> => c.rec = cs[1].rec
  PROVE  /\ PartOf(Append(cs, c)) /\ Append(cs, c) # << >>
         /\ Append(cs, c)[1].rec = c.rec /\ Len(Append(cs, c)) = Len(cs) + 1
<1> DEFINE q == Append(cs, c)
           n == Len(cs)
<1>1. /\ q \in Seq(Cell) /\ Len(q) = n + 1 /\ q[n + 1] = c /\ n \in Nat
      /\ \A i \in 1..n : q[i] = cs[i]
  BY AppendProperties
<1>2. c = [rec |-> c.rec, part |-> n + 1]
  BY DEF Cell
<1>3. q[1].rec = c.rec
  <2>1. CASE cs = << >>
    BY <1>1, <2>1
  <2>2. CASE cs # << >>
    <3>1. 1 \in 1..n
      BY <2>2
    <3>2. q[1] = cs[1]
      BY <1>1, <3>1
    <3>3. QED
      BY <2>2, <3>2
  <2>3. QED
    BY <2>1, <2>2
<1> HIDE DEF q
<1>4. ASSUME NEW i \in 1..n + 1 PROVE q[i] = [rec |-> q[1].rec, part |-> i]
  <2>1. CASE i = n + 1
    BY <1>1, <1>2, <1>3, <2>1
  <2>2. CASE i # n + 1
    <3>1. i \in 1..n /\ cs # << >>
      BY <1>1, <2>2
    <3>2. cs[i] = [rec |-> cs[1].rec, part |-> i]
      BY <3>1 DEF PartOf
    <3>3. QED
      BY <1>1, <1>3, <3>1, <3>2
  <2>3. QED
    BY <2>1, <2>2
<1>5. PartOf(q)
  BY <1>1, <1>4 DEF PartOf
<1>6. q # << >>
  BY <1>1
<1>7. QED
  BY <1>1, <1>3, <1>5, <1>6 DEF q

(* What a reader does with the cells it has: it goes on to the end of the     *)
(* record, and no further.                                                 *)
LEMMA ReaderGoesOn ==
  ASSUME NEW cs \in Seq(Cell), cs # << >>, PartOf(cs), cs[1].rec \in Record,
         Len(cs) <= Weight(cs[1].rec), NEW left, left = ToRead(cs, Len(cs) - 1),
         NEW n \in IF left > 1 THEN {left - 1}
                   ELSE IF Len(cs) = Header THEN BodyOf(cs) ELSE {0}
  PROVE  /\ n = 0 <=> Len(cs) = Weight(cs[1].rec)
         /\ n # 0 => n = ToRead(cs, Len(cs))
         /\ left \in Nat /\ left >= 1
         /\ n = 0 => IsRecord(cs)
<1> DEFINE k == Len(cs)
           w == Weight(cs[1].rec)
<1> USE LoggerAssumption
<1>1. k \in Nat /\ k >= 1 /\ w \in Nat /\ w = Header + cs[1].rec.len /\ k <= w /\ cs[1].rec.len \in Nat
  BY Weights DEF Weight, Record, Body
<1>2. Len(cs) = Header => BodyOf(cs) = {cs[1].rec.len}
  BY DEF BodyOf, IsHeader, PartOf
<1>3. k = w => IsRecord(cs)
  BY DEF IsRecord, PartOf
<1>4. left = IF k - 1 < Header THEN Header - (k - 1) ELSE w - (k - 1)
  BY DEF ToRead
<1>5. ToRead(cs, k) = IF k < Header THEN Header - k ELSE w - k
  BY DEF ToRead
<1>6. /\ left > 1 => n = left - 1
      /\ ~(left > 1) /\ k = Header => n = cs[1].rec.len
      /\ ~(left > 1) /\ k # Header => n = 0
  BY <1>2
<1> DEFINE l == cs[1].rec.len
           t == ToRead(cs, k)
<1> HIDE DEF k, w, l, t
<1>7. /\ n = 0 <=> k = w
      /\ n # 0 => n = t
      /\ left \in Nat /\ left >= 1
  <2>1. k \in Nat /\ k >= 1 /\ w = Header + l /\ k <= w /\ l \in Nat /\ Header \in Nat
    BY <1>1 DEF l
  <2>2. CASE k < Header
    <3>1. left = Header - k + 1 /\ t = Header - k /\ left > 1
      BY <1>4, <1>5, <2>1, <2>2 DEF t
    <3>2. n = left - 1
      BY <1>6, <3>1
    <3>3. QED
      BY <2>1, <2>2, <3>1, <3>2
  <2>3. CASE k = Header
    <3>1. left = 1 /\ t = l
      BY <1>4, <1>5, <2>1, <2>3 DEF t
    <3>2. n = l
      BY <1>6, <2>3, <3>1 DEF l
    <3>3. QED
      BY <2>1, <2>3, <3>1, <3>2
  <2>4. CASE k > Header
    <3>1. left = w - k + 1 /\ t = w - k
      BY <1>4, <1>5, <2>1, <2>4 DEF t
    <3>2. CASE k = w
      <4>1. left = 1 /\ n = 0
        BY <1>6, <2>1, <2>4, <3>1, <3>2
      <4>2. QED
        BY <3>2, <4>1
    <3>3. CASE k # w
      <4>1. left > 1 /\ left \in Nat
        BY <2>1, <3>1, <3>3
      <4>2. n = left - 1
        BY <1>6, <4>1
      <4>3. QED
        BY <2>1, <3>1, <3>3, <4>1, <4>2
    <3>4. QED
      BY <3>2, <3>3
  <2>5. QED
    BY <2>1, <2>2, <2>3, <2>4
<1>8. QED
  BY <1>3, <1>7 DEF k, w, t

(* One cell further into the record that core 1 drops.                      *)
LEMMA DropStep ==
  ASSUME Types, RoomInv, RingInv, FrontInv, Calm, DropStore
  PROVE  /\ rd # wr /\ rd' = Following(rd) /\ wr' = wr /\ done1 = 0
         /\ UNCHANGED <<buf, rec1, done1, clock, logged, dropped>>
         /\ RingInv' /\ (\A p \in Position : InRing(p)' <=> InRing(p) /\ p # rd)
         /\ CellInv(rd) /\ buf[rd].part = Len(cells1) /\ cells1[1].rec = buf[rd].rec
         /\ Len(cells1) \in Nat \ {0}
         /\ \/ /\ ~Whole(buf[rd]) /\ pc1' = "drop" /\ cells1' = cells1
               /\ left1' = ToRead(cells1, Len(cells1)) /\ rd' # wr
               /\ buf[rd'] = [buf[rd] EXCEPT !.part = @ + 1]
            \/ /\ Whole(buf[rd]) /\ pc1' = "room" /\ cells1' = << >>
               /\ rd' # wr => FollowedBy(buf[rd], buf[rd'])
               /\ rd' = wr => buf[rd].rec.n = logged[1] - 1
<1>1. /\ pc1 = "dropStore" /\ Dropping /\ cells1 # << >> /\ done1 = 0 /\ left1 >= 1
      /\ cells1 \in Seq(Cell) /\ left1 \in 0..Header + MaxBody /\ rd \in Position /\ wr \in Position
  BY DEF Types, TypeOK, Core1Counters, DropStore, Dropping
<1>2. reg1 = rd /\ rd # wr /\ ~Reading /\ ~dropRace
  BY <1>1 DEF RoomInv, Calm
<1>3. rd' = Following(rd) /\ UNCHANGED <<buf, wr, rec1, done1, clock, logged, dropped>>
  BY <1>2 DEF DropStore
<1>4. pc1' # "idle" /\ (Calm' => Calm)
  BY DEF DropStore, AfterDropRead, Calm
<1>5. /\ RingInv' /\ (\A p \in Position : InRing(p)' <=> InRing(p) /\ p # rd)
      /\ CellInv(rd)
      /\ rd' = wr => Newest(buf[rd])
      /\ rd' # wr => FollowedBy(buf[rd], buf[rd'])
  BY <1>1, <1>2, <1>3, <1>4, RingAdvances
<1>6. Removed = Len(cells1) - 1
  BY <1>1, <1>2 DEF Removed, Reading
<1>7. /\ buf[rd].part = Len(cells1) /\ PartOf(cells1) /\ cells1[1].rec = buf[rd].rec
      /\ left1 = ToRead(cells1, Len(cells1) - 1)
  <2>1. buf[rd].part = Len(cells1) - 1 + 1
    BY <1>1, <1>2, <1>6 DEF FrontInv
  <2>2. Len(cells1) \in Nat
    BY <1>1
  <2>3. QED
    BY <1>1, <1>2, <1>6, <2>1, <2>2 DEF FrontInv
<1>8. cells1[1].rec \in Record /\ Len(cells1) <= Weight(cells1[1].rec) /\ Len(cells1) \in Nat \ {0}
  BY <1>1, <1>5, <1>7 DEF CellInv
<1>9. PICK n \in IF left1 > 1 THEN {left1 - 1}
                 ELSE IF Len(cells1) = Header THEN BodyOf(cells1) ELSE {0} :
        /\ left1' = n
        /\ pc1' = IF n = 0 THEN "room" ELSE "drop"
        /\ cells1' = IF n = 0 THEN << >> ELSE cells1
  <2>1. CASE left1 = 1
    <3>1. PICK n \in IF Len(cells1) = Header THEN BodyOf(cells1) ELSE {0} :
            /\ left1' = n
            /\ pc1' = IF n = 0 THEN "room" ELSE "drop"
            /\ cells1' = IF n = 0 THEN << >> ELSE cells1
      BY <2>1 DEF DropStore, AfterDropRead
    <3>2. ~(left1 > 1)
      BY <2>1
    <3>3. QED
      BY <3>1, <3>2
  <2>2. CASE left1 # 1
    <3>1. left1' = left1 - 1 /\ pc1' = "drop" /\ cells1' = cells1
      BY <2>2 DEF DropStore
    <3>2. left1 > 1 /\ left1 - 1 # 0
      BY <1>1, <2>2
    <3>3. QED
      BY <3>1, <3>2
  <2>3. QED
    BY <2>1, <2>2
<1>10. /\ n = 0 <=> Len(cells1) = Weight(cells1[1].rec)
       /\ n # 0 => n = ToRead(cells1, Len(cells1))
  BY <1>1, <1>7, <1>8, ReaderGoesOn
<1>11. Whole(buf[rd]) <=> n = 0
  BY <1>7, <1>10 DEF Whole
<1>12. CASE n = 0
  <2>1. rd' = wr => buf[rd].rec.n = logged[1] - 1
    BY <1>1, <1>5 DEF Newest, LastWritten
  <2>2. QED
    BY <1>1, <1>2, <1>3, <1>5, <1>7, <1>8, <1>9, <1>11, <1>12, <2>1
<1>13. CASE n # 0
  <2>1. rd' # wr
    BY <1>1, <1>5, <1>11, <1>13 DEF Newest
  <2>2. buf[rd'] = [buf[rd] EXCEPT !.part = @ + 1]
    BY <1>5, <1>11, <1>13, <2>1 DEF FollowedBy
  <2>3. QED
    BY <1>1, <1>2, <1>3, <1>5, <1>7, <1>8, <1>9, <1>10, <1>11, <1>13, <2>1, <2>2
<1>14. QED
  BY <1>12, <1>13

(* One cell further into the record that core 0 reads.                      *)
LEMMA ReadStep ==
  ASSUME Types, RoomInv, RingInv, FrontInv, Calm, ReadStore
  PROVE  /\ rd # wr /\ rd' = Following(rd) /\ wr' = wr /\ ~Dropping /\ ~Dropping' /\ UNCHANGED core1
         /\ UNCHANGED <<buf, rec1, done1, clock, logged, dropped, local>>
         /\ RingInv' /\ (\A p \in Position : InRing(p)' <=> InRing(p) /\ p # rd)
         /\ CellInv(rd) /\ buf[rd].part = Len(cells0) /\ cells0[1].rec = buf[rd].rec
         /\ Len(cells0) \in Nat \ {0} /\ PartOf(cells0)
         /\ rd' = wr => Newest(buf[rd])
         /\ rd' # wr => FollowedBy(buf[rd], buf[rd'])
         /\ \/ /\ ~Whole(buf[rd]) /\ pc0' = "read" /\ cells0' = cells0
               /\ left0' = ToRead(cells0, Len(cells0))
               /\ UNCHANGED <<delivered, inFlight>>
            \/ /\ Whole(buf[rd]) /\ pc0' \in {"idle", "dequeue"} /\ cells0' = << >> /\ inFlight' = 0
               /\ delivered' = Append(delivered,
                    [core |-> 1, n |-> buf[rd].rec.n, time |-> buf[rd].rec.time,
                     inFlight |-> inFlight, kept |-> TRUE])
<1>1. /\ pc0 = "readStore" /\ Reading /\ cells0 # << >> /\ left0 >= 1
      /\ cells0 \in Seq(Cell) /\ left0 \in 0..Header + MaxBody /\ rd \in Position /\ wr \in Position
      /\ space \in Nat /\ space >= Header + MaxBody
  BY LoggerAssumption DEF Types, TypeOK, Core0Counters, ReadStore, Reading
<1>2. reg0 = rd /\ rd # wr /\ ~Dropping /\ ~dropRace
  BY <1>1 DEF RoomInv, Calm
<1>3. rd' = Following(rd) /\ UNCHANGED <<buf, wr, core1, clock, logged, dropped>>
  BY <1>2 DEF ReadStore, Stored
<1>4. UNCHANGED <<rec1, done1, pc1>> /\ (Calm' => Calm) /\ ~Dropping'
  BY <1>2, <1>3 DEF core1, Calm, Dropping
<1>5. /\ RingInv' /\ (\A p \in Position : InRing(p)' <=> InRing(p) /\ p # rd)
      /\ CellInv(rd)
      /\ rd' = wr => Newest(buf[rd])
      /\ rd' # wr => FollowedBy(buf[rd], buf[rd'])
  BY <1>2, <1>3, <1>4, RingAdvances
<1>6. Removed = Len(cells0) - 1
  BY <1>1 DEF Removed
<1>7. /\ buf[rd].part = Len(cells0) /\ PartOf(cells0) /\ cells0[1].rec = buf[rd].rec
      /\ left0 = ToRead(cells0, Len(cells0) - 1)
  <2>1. buf[rd].part = Len(cells0) - 1 + 1
    BY <1>1, <1>2, <1>6 DEF FrontInv
  <2>2. Len(cells0) \in Nat
    BY <1>1
  <2>3. QED
    BY <1>1, <1>2, <1>6, <2>1, <2>2 DEF FrontInv
<1>8. cells0[1].rec \in Record /\ Len(cells0) <= Weight(cells0[1].rec) /\ Len(cells0) \in Nat \ {0}
  BY <1>1, <1>5, <1>7 DEF CellInv
<1>9. PICK n \in IF left0 > 1 THEN {left0 - 1}
                 ELSE IF Len(cells0) = Header THEN BodyOf(cells0) ELSE {0} :
        IF n = 0
        THEN DeliverRemote
        ELSE /\ pc0' = "read" /\ left0' = n /\ reg0' = 0
             /\ UNCHANGED <<cells0, local, space, delivered, inFlight>>
  BY DEF ReadStore
<1>10. /\ n = 0 <=> Len(cells0) = Weight(cells0[1].rec)
       /\ n # 0 => n = ToRead(cells0, Len(cells0))
       /\ n = 0 => IsRecord(cells0)
  BY <1>1, <1>7, <1>8, ReaderGoesOn
<1>11. Whole(buf[rd]) <=> n = 0
  BY <1>7, <1>10 DEF Whole
<1>12. CASE n = 0
  <2>1. Deliver(1, buf[rd].rec, Len(cells0), inFlight) /\ local' = local
    BY <1>7, <1>9, <1>10, <1>12 DEF DeliverRemote
  <2>2. Len(cells0) <= space
    <3>1. Weight(cells0[1].rec) \in Nat /\ Weight(cells0[1].rec) <= Header + MaxBody
      BY <1>8, Weights
    <3>2. QED
      BY <1>1, <1>8, <3>1, LoggerAssumption
  <2>3. /\ delivered' = Append(delivered,
             [core |-> 1, n |-> buf[rd].rec.n, time |-> buf[rd].rec.time,
              inFlight |-> inFlight, kept |-> TRUE])
        /\ pc0' \in {"idle", "dequeue"} /\ cells0' = << >> /\ inFlight' = 0
    BY <2>1, <2>2 DEF Deliver, Return
  <2>4. QED
    BY <1>2, <1>3, <1>4, <1>5, <1>7, <1>8, <1>11, <1>12, <2>1, <2>3
<1>13. CASE n # 0
  BY <1>2, <1>3, <1>4, <1>5, <1>7, <1>8, <1>9, <1>10, <1>11, <1>13
<1>14. QED
  BY <1>12, <1>13

(* One cell more in the ring.                                               *)
LEMMA WriteStep ==
  ASSUME Types, RoomInv, RingInv, Calm, Write
  PROVE  /\ pc1 = "write" /\ rec1 \in Record /\ rec1.n = logged[1]
         /\ done1 \in Nat /\ done1 < Weight(rec1) /\ Weight(rec1) \in Nat
         /\ Following(wr) # rd /\ wr' = Following(wr) /\ rd' = rd
         /\ UNCHANGED <<clock, logged, dropped>>
         /\ buf' = [buf EXCEPT ![wr] = [rec |-> rec1, part |-> done1 + 1]]
         /\ \A p \in Position : InRing(p)' <=> InRing(p) \/ p = wr
         /\ \A p \in Position : InRing(p) => p # wr /\ buf'[p] = buf[p]
         /\ buf'[wr] = [rec |-> rec1, part |-> done1 + 1]
         /\ \/ done1 + 1 = Weight(rec1) /\ pc1' = "idle" /\ rec1' = NoRecord /\ done1' = 0
            \/ done1 + 1 # Weight(rec1) /\ pc1' = "write" /\ rec1' = rec1 /\ done1' = done1 + 1
<1>1. /\ pc1 = "write" /\ rec1 \in Record /\ done1 \in Nat /\ Weight(rec1) \in Nat
      /\ done1 < Weight(rec1) /\ rec1.n = logged[1] /\ buf \in [Position -> Cell]
  BY Weights DEF Types, TypeOK, Core1Counters, Write
<1>2. Following(wr) # rd /\ wr' = Following(wr) /\ rd' = rd /\ rd \in Position /\ wr \in Position
  BY WriteRoom DEF Calm
<1>3. /\ buf' = [buf EXCEPT ![wr] = [rec |-> rec1, part |-> done1 + 1]]
      /\ UNCHANGED <<clock, logged, dropped>>
      /\ \/ done1 + 1 = Weight(rec1) /\ pc1' = "idle" /\ rec1' = NoRecord /\ done1' = 0
         \/ done1 + 1 # Weight(rec1) /\ pc1' = "write" /\ rec1' = rec1 /\ done1' = done1 + 1
  BY <1>2 DEF Write
<1>4. \A p \in Position : InRing(p)' <=> InRing(p) \/ p = wr
  <2> SUFFICES ASSUME NEW p \in Position PROVE InRing(p)' <=> InRing(p) \/ p = wr
    OBVIOUS
  <2>1. InRing(p)' <=> In(rd, Following(wr), p)
    BY <1>2 DEF InRing, In
  <2>2. In(rd, Following(wr), p) <=> In(rd, wr, p) \/ p = wr
    BY <1>2, Ring
  <2>3. QED
    BY <2>1, <2>2, InRingIn
<1>5. ~InRing(wr)
  BY <1>2, Ring, InRingIn
<1>6. \A p \in Position : InRing(p) => p # wr /\ buf'[p] = buf[p]
  BY <1>1, <1>3, <1>5
<1>7. buf'[wr] = [rec |-> rec1, part |-> done1 + 1]
  BY <1>1, <1>2, <1>3
<1>8. QED
  BY <1>1, <1>2, <1>3, <1>4, <1>6, <1>7

LEMMA WriteRing ==
  ASSUME Types, RoomInv, RingInv, Write
  PROVE  RingInv'
<1> SUFFICES ASSUME Calm', NEW p \in Position, InRing(p)' PROVE CellInv(p)'
  BY DEF RingInv
<1>1. Calm
  BY Core1Leaves DEF Calm, Core1, history, Types, TypeOK
<1>2. /\ pc1 = "write" /\ rec1 \in Record /\ rec1.n = logged[1]
      /\ done1 \in Nat /\ done1 < Weight(rec1) /\ Weight(rec1) \in Nat
      /\ Following(wr) # rd /\ wr' = Following(wr) /\ rd' = rd
      /\ UNCHANGED <<clock, logged>>
      /\ \A q \in Position : InRing(q)' <=> InRing(q) \/ q = wr
      /\ \A q \in Position : InRing(q) => q # wr /\ buf'[q] = buf[q]
      /\ buf'[wr] = [rec |-> rec1, part |-> done1 + 1]
      /\ \/ done1 + 1 = Weight(rec1) /\ pc1' = "idle" /\ rec1' = NoRecord /\ done1' = 0
         \/ done1 + 1 # Weight(rec1) /\ pc1' = "write" /\ rec1' = rec1 /\ done1' = done1 + 1
  BY <1>1, WriteStep
<1>3. rd \in Position /\ wr \in Position /\ logged[1] \in Nat /\ rec1.time < clock /\ rec1.time \in Nat
  BY <1>2 DEF Types, TypeOK, Core1Counters, Record
<1>4. CASE p = wr
  <2>1. Following(wr) = wr'
    BY <1>2
  <2>2. Newest(buf[p])'
    <3>1. CASE pc1' = "idle"
      <4>1. done1 + 1 = Weight(rec1) /\ done1' = 0
        BY <1>2, <3>1
      <4>2. buf'[p].part = done1 + 1 /\ buf'[p].rec = rec1
        BY <1>2, <1>4
      <4>3. Whole(buf[p])'
        BY <4>1, <4>2 DEF Whole, Weight
      <4>4. LastWritten' = logged[1]
        BY <1>2, <3>1 DEF LastWritten
      <4>5. QED
        BY <1>2, <4>1, <4>2, <4>3, <4>4 DEF Newest
    <3>2. CASE pc1' = "write"
      <4>1. done1' = done1 + 1 /\ rec1' = rec1 /\ done1' > 0
        BY <1>2, <3>2
      <4>2. QED
        BY <1>2, <1>4, <4>1 DEF Newest
    <3>3. QED
      BY <1>2, <3>1, <3>2
  <2>3. buf'[p].rec = rec1 /\ buf'[p].part \in 1..Weight(rec1)
    BY <1>2, <1>4
  <2>4. Weight(buf'[p].rec) = Weight(rec1)
    BY <2>3
  <2>5. (Following(p) = wr)' /\ Weight(buf[p].rec)' = Weight(buf'[p].rec)
    BY <1>4, <2>1 DEF Following
  <2>6. QED
    BY <1>2, <1>3, <1>4, <2>2, <2>3, <2>4, <2>5 DEF CellInv
<1>5. CASE p # wr
  <2>1. InRing(p) /\ buf'[p] = buf[p] /\ CellInv(p)
    BY <1>1, <1>2, <1>5 DEF RingInv
  <2>2. Following(p)' = Following(p) /\ Weight(buf[p].rec)' = Weight(buf[p].rec)
    BY <2>1 DEF Following, Weight
  <2>3. Following(p) # wr'
    <3>1. In(rd, wr, p)
      BY <2>1, InRingIn
    <3>2. \A q \in Position : Following(q) = Following(p) => q = p
      BY <1>3, <3>1, RingOrder
    <3>3. QED
      BY <1>2, <1>3, <1>5, <3>2
  <2>4. FollowedBy(buf[p], buf[Following(p)])'
    <3>1. CASE Following(p) = wr
      <4>1. Newest(buf[p])
        BY <2>1, <3>1 DEF CellInv
      <4>2. buf[Following(p)]' = [rec |-> rec1, part |-> done1 + 1]
        BY <1>2, <2>2, <3>1
      <4>3. FollowedBy(buf[p], [rec |-> rec1, part |-> done1 + 1])
        <5>1. CASE done1 > 0
          <6>1. buf[p] = [rec |-> rec1, part |-> done1]
            BY <4>1, <5>1 DEF Newest
          <6>2. ~Whole(buf[p])
            BY <1>2, <6>1 DEF Whole
          <6>3. QED
            BY <6>1, <6>2 DEF FollowedBy
        <5>2. CASE done1 = 0
          <6>1. Whole(buf[p]) /\ buf[p].rec.n = logged[1] - 1
            BY <1>2, <4>1, <5>2 DEF Newest, LastWritten
          <6>2. buf[p].rec # rec1
            BY <1>2, <1>3, <6>1
          <6>3. buf[p].rec.time < rec1.time
            BY <1>2, <2>1, <6>2 DEF CellInv
          <6>4. buf[p].rec.time \in Nat /\ buf[p].rec.n + 1 = rec1.n
            BY <1>2, <1>3, <2>1, <6>1 DEF CellInv, Record
          <6>5. QED
            BY <1>3, <5>2, <6>1, <6>3, <6>4 DEF FollowedBy
        <5>3. QED
          BY <1>2, <5>1, <5>2
      <4>4. QED
        BY <2>1, <4>2, <4>3 DEF FollowedBy, Whole, Weight
    <3>2. CASE Following(p) # wr
      <4>1. FollowedBy(buf[p], buf[Following(p)])
        BY <2>1, <3>2 DEF CellInv
      <4>2. InRing(Following(p)) /\ Following(p) \in Position
        BY <1>3, <2>1, <3>2, Ring, InRingIn, Positions
      <4>3. buf'[Following(p)] = buf[Following(p)]
        BY <1>2, <4>2
      <4>4. QED
        BY <2>1, <2>2, <4>1, <4>3 DEF FollowedBy, Whole, Weight
    <3>3. QED
      BY <3>1, <3>2
  <2>5. pc1' # "idle" => \/ buf'[p].rec.time < rec1'.time
                         \/ buf'[p].rec = rec1' /\ done1' > 0
    BY <1>2, <2>1 DEF CellInv
  <2>6. QED
    BY <1>2, <2>1, <2>2, <2>3, <2>4, <2>5 DEF CellInv
<1>6. QED
  BY <1>4, <1>5

LEMMA Log1Ring ==
  ASSUME Types, RingInv, NEW len \in Body, Log1(len)
  PROVE  RingInv'
<1> SUFFICES ASSUME Calm', NEW p \in Position, InRing(p)' PROVE CellInv(p)'
  BY DEF RingInv
<1>1. /\ Calm /\ UNCHANGED <<buf, rd, wr, done1>> /\ done1 = 0
      /\ pc1 = "idle" /\ pc1' = "room"
  BY Core1Leaves DEF Calm, Core1, history, Types, TypeOK, Core1Counters, Log1, ring
<1>2. /\ logged'[1] = logged[1] + 1 /\ logged[1] \in Nat /\ clock \in Nat /\ clock' = clock + 1
      /\ rec1'.time = clock
  BY DEF Types, TypeOK, Log1
<1>3. CellInv(p)
  <2>1. InRing(p)
    BY <1>1 DEF InRing, Length
  <2>2. QED
    BY <1>1, <2>1 DEF RingInv
<1>4. buf[p].rec.time \in Nat /\ buf[p].rec.time < clock
  BY <1>3 DEF CellInv, Record
<1>5. LastWritten' = LastWritten
  BY <1>1, <1>2 DEF LastWritten
<1>6. Newest(buf[p]) => Newest(buf[p])'
  BY <1>1, <1>5 DEF Newest, Whole, Weight
<1>7. FollowedBy(buf[p], buf[Following(p)]) => FollowedBy(buf[p], buf[Following(p)])'
  BY <1>1 DEF FollowedBy, Whole, Weight, Following
<1>8. Following(p)' = Following(p) /\ Weight(buf[p].rec)' = Weight(buf[p].rec)
  BY <1>1 DEF Following, Weight
<1>9. QED
  BY <1>1, <1>2, <1>3, <1>4, <1>6, <1>7, <1>8 DEF CellInv

LEMMA Core1Ring ==
  ASSUME Types, RoomInv, RingInv, FrontInv, Core1
  PROVE  RingInv'
<1>1. Calm' => Calm
  BY Core1Leaves DEF Calm, history, Types, TypeOK
<1>2. clock \in Nat
  BY DEF Types, TypeOK
<1>3. CASE \E len \in Body : Log1(len)
  BY <1>3, Log1Ring
<1>4. CASE EnsureRoom
  <2>1. /\ UNCHANGED <<ring, rec1, done1, clock, logged>> /\ (pc1' = "idle" <=> pc1 = "idle")
    BY <1>4 DEF EnsureRoom
  <2>2. logged'[1] = logged[1] /\ clock' \in Nat /\ clock <= clock'
    BY <1>2, <2>1
  <2>3. QED
    BY <1>1, <2>1, <2>2, SameRing
<1>5. CASE DropFetch
  <2>1. /\ UNCHANGED <<ring, rec1, done1, clock, logged>> /\ (pc1' = "idle" <=> pc1 = "idle")
    BY <1>5 DEF DropFetch
  <2>2. logged'[1] = logged[1] /\ clock' \in Nat /\ clock <= clock'
    BY <1>2, <2>1
  <2>3. QED
    BY <1>1, <2>1, <2>2, SameRing
<1>6. CASE DropStore
  <2>1. Calm => RingInv'
    BY <1>6, DropStep
  <2>2. QED
    BY <1>1, <2>1 DEF RingInv
<1>7. CASE Write
  BY <1>7, WriteRing
<1>8. QED
  BY <1>3, <1>4, <1>5, <1>6, <1>7 DEF Core1

LEMMA Core0Calm ==
  ASSUME Types, Core0
  PROVE  Calm' => /\ Calm /\ ~(Dropping /\ Reading')
                  /\ ~(ReadFetch /\ rd = wr)
<1>1. caughtUp => caughtUp'
  BY DEF Core0, Log0, GetLogs, Dequeue, Peek, ReadFetch, ReadStore, history
<1>2. ReadFetch /\ rd = wr => caughtUp'
  BY DEF ReadFetch
<1>3. QED
  BY <1>1, <1>2, Core0Leaves DEF Calm, Types, TypeOK

LEMMA Core0Ring ==
  ASSUME Types, RoomInv, RingInv, FrontInv, Core0
  PROVE  RingInv'
<1>1. Calm' => Calm
  BY Core0Calm
<1>2. CASE ReadStore
  <2>1. Calm => RingInv'
    BY <1>2, ReadStep
  <2>2. QED
    BY <1>1, <2>1 DEF RingInv
<1>3. CASE ~ReadStore
  <2>1. UNCHANGED ring
    BY <1>3, Core0Leaves DEF Core0, Log0, GetLogs, Dequeue, Peek, ReadFetch, ring
  <2>2. UNCHANGED <<rec1, done1, pc1>>
    BY Core0Leaves DEF core1
  <2>3. QED
    BY <1>1, <2>1, <2>2, Core0Leaves, SameRing
<1>4. QED
  BY <1>2, <1>3

-----------------------------------------------------------------------------
(* The record at the front.                                                 *)

LEMMA InitFront == Init => FrontInv
BY DEF Init, FrontInv, Removed, Reading, Dropping

LEMMA Core1Calm ==
  ASSUME Types, Core1
  PROVE  /\ Calm' => Calm /\ ~(Dropping' /\ Reading)
         /\ UNCHANGED <<pc0, cells0, left0, reg0, space, local, delivered, inFlight, caughtUp>>
         /\ Reading' <=> Reading
BY Core1Leaves DEF Calm, history, core0, Types, TypeOK, Reading

LEMMA DropFront ==
  ASSUME Types, RoomInv, RingInv, FrontInv, DropStore
  PROVE  FrontInv'
<1> SUFFICES ASSUME Calm' PROVE FrontInv'
  BY DEF FrontInv
<1>1. Core1 /\ Dropping /\ pc1 = "dropStore"
  BY DEF Core1, DropStore, Dropping
<1>2. /\ Calm /\ UNCHANGED <<pc0, cells0, left0>> /\ (Reading' <=> Reading)
  BY <1>1, Core1Calm
<1>3. ~Reading /\ pc0 \notin {"read", "readStore"}
  BY <1>1, <1>2 DEF RoomInv, Calm, Reading
<1>4. PartOf(cells1) /\ cells1 # << >> /\ cells1 \in Seq(Cell) /\ rd \in Position
  BY <1>1, <1>2 DEF FrontInv, Types, TypeOK, Core1Counters
<1>5. /\ wr' = wr /\ done1' = 0 /\ buf' = buf
      /\ CellInv(rd) /\ buf[rd].part = Len(cells1) /\ cells1[1].rec = buf[rd].rec
      /\ Len(cells1) \in Nat \ {0}
      /\ \/ /\ ~Whole(buf[rd]) /\ pc1' = "drop" /\ cells1' = cells1
            /\ left1' = ToRead(cells1, Len(cells1)) /\ rd' # wr
            /\ buf[rd'] = [buf[rd] EXCEPT !.part = @ + 1]
         \/ /\ Whole(buf[rd]) /\ pc1' = "room" /\ cells1' = << >>
            /\ rd' # wr => FollowedBy(buf[rd], buf[rd'])
  BY <1>2, DropStep
<1>6. buf[rd] \in Cell
  BY <1>4 DEF Types, TypeOK
<1>7. CASE pc1' = "drop"
  <2>1. buf[rd'].part = Len(cells1) + 1 /\ buf[rd'].rec = buf[rd].rec
    BY <1>5, <1>6, <1>7 DEF Cell
  <2>2. Removed' = Len(cells1)
    BY <1>2, <1>3, <1>5, <1>7 DEF Removed
  <2>3. left1' = ToRead(cells1', Removed')
    BY <1>5, <1>7, <2>2
  <2>4. PartOf(cells1)'
    BY <1>4, <1>5, <1>7 DEF PartOf
  <2>5. QED
    BY <1>2, <1>3, <1>5, <1>7, <2>1, <2>2, <2>3, <2>4 DEF FrontInv, ToRead, Weight
<1>8. CASE pc1' = "room"
  <2>1. Removed' = 0 /\ ~Dropping'
    BY <1>2, <1>3, <1>8 DEF Removed, Dropping
  <2>2. rd' # wr' => buf'[rd'].part = 1
    BY <1>5, <1>8 DEF FollowedBy
  <2>3. ~Reading' /\ pc0' \notin {"peek", "read", "readStore"}
    BY <1>2, <1>3 DEF Reading
  <2>4. QED
    BY <1>5, <2>1, <2>2, <2>3 DEF FrontInv
<1>9. QED
  BY <1>5, <1>7, <1>8

LEMMA IdleFront ==
  ASSUME Types, FrontInv, UNCHANGED <<ring, done1, pc0, cells0, left0>>, Calm' => Calm,
         ~Dropping, ~Dropping', rec1' = rec1 \/ done1 = 0
  PROVE  FrontInv'
<1> SUFFICES ASSUME Calm' PROVE FrontInv'
  BY DEF FrontInv
<1>1. Calm /\ UNCHANGED <<buf, rd, wr>> /\ (Reading' <=> Reading)
  BY DEF ring, Reading
<1>2. Removed' = Removed /\ Removed \in Int
  BY DEF Removed, Dropping, Types, TypeOK
<1>3. ToRead(cells0, Removed)' = ToRead(cells0, Removed)
  BY <1>2 DEF ToRead, Weight
<1>4. PartOf(cells0)' = PartOf(cells0)
  BY DEF PartOf
<1>5. QED
  BY <1>1, <1>2, <1>3, <1>4 DEF FrontInv

LEMMA EnsureRoomFront ==
  ASSUME Types, RoomInv, FrontInv, EnsureRoom
  PROVE  FrontInv'
<1> SUFFICES ASSUME Calm' PROVE FrontInv'
  BY DEF FrontInv
<1>1. Core1 /\ pc1 = "room" /\ ~Dropping /\ cells1 = << >> /\ done1 = 0 /\ rec1 \in Record
  BY DEF Core1, EnsureRoom, Dropping, Types, Core1Counters
<1>2. Calm /\ UNCHANGED <<pc0, cells0, left0>> /\ (Reading' <=> Reading) /\ ~(Dropping' /\ Reading)
  BY <1>1, Core1Calm
<1>3. UNCHANGED <<ring, rec1, done1, cells1>>
  BY DEF EnsureRoom
<1>4. CASE ~Dropping'
  BY <1>1, <1>2, <1>3, <1>4, IdleFront
<1>5. CASE Dropping'
  <2>1. Available(rd, wr) < Weight(rec1) /\ pc1' = "drop" /\ left1' = Header
    BY <1>5 DEF EnsureRoom, Dropping
  <2>2. rd # wr
    <3>1. rd \in Position /\ wr \in Position
      BY DEF Types, TypeOK
    <3>2. rd = wr => Length(rd, wr) = 0
      BY <3>1, Lengths
    <3>3. Weight(rec1) \in Nat /\ Weight(rec1) <= Header + MaxBody
      BY <1>1, Weights
    <3>4. QED
      BY <2>1, <3>2, <3>3, LoggerAssumption DEF Available
  <2>3. ~Reading /\ Removed = 0 /\ Removed' = 0
    BY <1>1, <1>2, <1>3, <1>5, <2>1 DEF Removed, Reading, Dropping
  <2>4. UNCHANGED <<buf, rd, wr>>
    BY <1>3 DEF ring
  <2>5. PartOf(cells1)' /\ cells1' = << >>
    BY <1>1, <1>3 DEF PartOf
  <2>6. ToRead(cells1, Removed)' = Header
    BY <2>3, LoggerAssumption DEF ToRead
  <2>7. pc0' \notin {"read", "readStore"}
    BY <1>2, <2>3 DEF Reading
  <2>8. rd' # wr' /\ buf'[rd'].part = Removed' + 1
    BY <1>2, <2>2, <2>3, <2>4 DEF FrontInv
  <2>9. left1' = ToRead(cells1, Removed)' /\ ~Reading'
    BY <1>2, <2>1, <2>3, <2>6
  <2>10. QED
    BY <2>5, <2>7, <2>8, <2>9 DEF FrontInv
<1>6. QED
  BY <1>4, <1>5

LEMMA DropFetchFront ==
  ASSUME Types, RoomInv, RingInv, FrontInv, DropFetch
  PROVE  FrontInv'
<1> SUFFICES ASSUME Calm' PROVE FrontInv'
  BY DEF FrontInv
<1>1. Core1 /\ pc1 = "drop" /\ Dropping
  BY DEF Core1, DropFetch, Dropping
<1>2. Calm /\ UNCHANGED <<pc0, cells0, left0>> /\ (Reading' <=> Reading)
  BY <1>1, Core1Calm
<1>3. ~Reading /\ pc0 \notin {"read", "readStore"} /\ rd # wr
  BY <1>1, <1>2 DEF RoomInv, Calm, Reading, FrontInv
<1>4. /\ UNCHANGED <<buf, rd, wr, done1, left1>> /\ pc1' = "dropStore"
      /\ cells1' = Append(cells1, buf[rd])
  BY <1>3 DEF DropFetch, ring
<1>5. buf[rd] \in Cell /\ cells1 \in Seq(Cell)
  BY DEF Types, TypeOK
<1>6. Removed = Len(cells1) /\ Removed \in Nat
  BY <1>1, <1>3, <1>5 DEF Removed
<1>7. PartOf(cells1) /\ left1 = ToRead(cells1, Removed) /\ (cells1 # << >> => cells1[1].rec = buf[rd].rec)
      /\ buf[rd].part = Len(cells1) + 1
  BY <1>1, <1>2, <1>3, <1>6 DEF FrontInv
<1>8. /\ PartOf(cells1') /\ cells1' # << >> /\ cells1'[1].rec = buf[rd].rec
      /\ Len(cells1') = Len(cells1) + 1
  BY <1>4, <1>5, <1>7, PartOfAppend
<1>9. Removed' = Removed
  BY <1>2, <1>3, <1>4, <1>6, <1>8 DEF Removed
<1>10. ToRead(cells1', Removed') = ToRead(cells1, Removed)
  <2>1. CASE Removed < Header
    BY <1>9, <2>1 DEF ToRead
  <2>2. CASE ~(Removed < Header)
    <3>1. cells1 # << >>
      BY <1>5, <1>6, <2>2, LoggerAssumption
    <3>2. Weight(cells1'[1].rec) = Weight(cells1[1].rec)
      BY <1>7, <1>8, <3>1
    <3>3. QED
      BY <1>9, <2>2, <3>2 DEF ToRead
  <2>3. QED
    BY <2>1, <2>2
<1>11. PartOf(cells1)' /\ ToRead(cells1, Removed)' = ToRead(cells1', Removed')
  BY <1>8 DEF PartOf, ToRead, Weight
<1>12. QED
  BY <1>2, <1>3, <1>4, <1>6, <1>7, <1>8, <1>9, <1>10, <1>11 DEF FrontInv

LEMMA WriteFront ==
  ASSUME Types, RoomInv, RingInv, FrontInv, Write
  PROVE  FrontInv'
<1> SUFFICES ASSUME Calm' PROVE FrontInv'
  BY DEF FrontInv
<1>1. Core1 /\ ~Dropping /\ ~Dropping'
  BY DEF Core1, Write, Dropping
<1>2. Calm /\ UNCHANGED <<pc0, cells0, left0>> /\ (Reading' <=> Reading)
  BY <1>1, Core1Calm
<1>3. /\ Following(wr) # rd /\ wr' = Following(wr) /\ rd' = rd
      /\ \A p \in Position : InRing(p) => buf'[p] = buf[p]
      /\ buf'[wr] = [rec |-> rec1, part |-> done1 + 1]
  BY <1>2, WriteStep
<1>4. rd \in Position /\ wr \in Position /\ rd' # wr'
  BY <1>3 DEF Types, TypeOK
<1>5. Removed' = Removed
  BY <1>1, <1>2 DEF Removed, Dropping
<1>6. ToRead(cells0, Removed)' = ToRead(cells0, Removed) /\ PartOf(cells0)' = PartOf(cells0)
  BY <1>2, <1>5 DEF ToRead, Weight, PartOf
<1>7. CASE rd # wr
  <2>1. buf'[rd] = buf[rd]
    BY <1>3, <1>4, <1>7, Ring, InRingIn
  <2>2. QED
    BY <1>1, <1>2, <1>3, <1>4, <1>5, <1>6, <1>7, <2>1 DEF FrontInv
<1>8. CASE rd = wr
  <2>1. done1 = Removed /\ (Removed > 0 => pc0 = "read" /\ cells0[1].rec = rec1)
    BY <1>2, <1>8 DEF FrontInv
  <2>2. buf'[rd'].part = Removed' + 1 /\ buf'[rd'].rec = rec1
    BY <1>3, <1>5, <1>8, <2>1
  <2>3. Reading /\ cells0 # << >> => cells0[1].rec = rec1
    <3>1. SUFFICES ASSUME Reading, cells0 # << >> PROVE Removed > 0
      BY <2>1
    <3>2. Len(cells0) \in Nat /\ Len(cells0) > 0 /\ cells0 \in Seq(Cell)
      BY <3>1 DEF Types, TypeOK
    <3>3. pc0 # "peek"
      BY <1>8, <1>2, <3>1 DEF FrontInv
    <3>4. pc0 # "readStore"
      BY <1>2, <1>8 DEF RoomInv, Calm
    <3>5. QED
      BY <3>1, <3>2, <3>3, <3>4 DEF Reading, Removed
  <2>4. QED
    BY <1>1, <1>2, <1>3, <1>4, <1>5, <1>6, <2>1, <2>2, <2>3 DEF FrontInv
<1>9. QED
  BY <1>7, <1>8

LEMMA Core1Front ==
  ASSUME Types, RoomInv, RingInv, FrontInv, Core1
  PROVE  FrontInv'
<1>1. CASE \E len \in Body : Log1(len)
  <2>1. UNCHANGED <<ring, done1, pc0, cells0, left0>> /\ (Calm' => Calm)
    BY <1>1, Core1Calm DEF Log1
  <2>2. ~Dropping /\ ~Dropping' /\ done1 = 0
    BY <1>1 DEF Log1, Dropping, Types, Core1Counters
  <2>3. QED
    BY <2>1, <2>2, IdleFront
<1>2. QED
  BY <1>1, EnsureRoomFront, DropFetchFront, DropFront, WriteFront DEF Core1

LEMMA ReadStoreFront ==
  ASSUME Types, RoomInv, RingInv, FrontInv, ReadStore
  PROVE  FrontInv'
<1> SUFFICES ASSUME Calm' PROVE FrontInv'
  BY DEF FrontInv
<1>1. Core0 /\ pc0 = "readStore" /\ Reading
  BY DEF Core0, ReadStore, Reading
<1>2. Calm /\ ~dropRace
  BY <1>1, Core0Calm DEF Calm
<1>3. cells0 \in Seq(Cell) /\ rd \in Position /\ cells0 # << >>
  BY <1>1 DEF Types, TypeOK, Core0Counters
<1>4. /\ wr' = wr /\ ~Dropping' /\ UNCHANGED <<buf, rec1, done1>> /\ UNCHANGED core1
      /\ CellInv(rd) /\ buf[rd].part = Len(cells0) /\ cells0[1].rec = buf[rd].rec
      /\ Len(cells0) \in Nat \ {0} /\ PartOf(cells0)
      /\ rd' = wr => Newest(buf[rd])
      /\ rd' # wr => FollowedBy(buf[rd], buf[rd'])
      /\ \/ /\ ~Whole(buf[rd]) /\ pc0' = "read" /\ cells0' = cells0
            /\ left0' = ToRead(cells0, Len(cells0))
         \/ /\ Whole(buf[rd]) /\ pc0' \in {"idle", "dequeue"} /\ cells0' = << >>
  BY <1>2, ReadStep
<1>5. pc1' = pc1 /\ pc1 \notin {"drop", "dropStore"}
  BY <1>4 DEF core1, Dropping
<1>6. buf[rd] \in Cell
  BY <1>3 DEF Types, TypeOK
<1>7. CASE pc0' = "read"
  <2>1. Removed' = Len(cells0) /\ Reading'
    BY <1>4, <1>7 DEF Removed, Reading
  <2>2. rd' # wr => buf[rd'].part = Len(cells0) + 1 /\ buf[rd'].rec = buf[rd].rec
    BY <1>4, <1>6, <1>7 DEF FollowedBy, Cell
  <2>3. rd' = wr => done1 = Len(cells0) /\ buf[rd].rec = rec1
    BY <1>4, <1>7 DEF Newest
  <2>4. left0' = ToRead(cells0', Removed') /\ PartOf(cells0') /\ cells0' = cells0
    BY <1>4, <1>7, <2>1
  <2>5. ToRead(cells0, Removed)' = ToRead(cells0', Removed') /\ PartOf(cells0)'
    BY <2>4 DEF PartOf, ToRead, Weight
  <2>6. buf[rd].rec \in Record
    BY <1>4 DEF CellInv
  <2>7. QED
    BY <1>4, <1>7, <2>1, <2>2, <2>3, <2>4, <2>5, <2>6 DEF FrontInv
<1>8. CASE pc0' # "read"
  <2>1. Removed' = 0 /\ ~Reading' /\ pc0' \notin {"read", "readStore", "peek"}
    BY <1>4, <1>5, <1>8 DEF Removed, Reading
  <2>2. rd' # wr => buf[rd'].part = 1
    BY <1>4, <1>8 DEF FollowedBy
  <2>3. rd' = wr => done1 = 0
    <3>1. SUFFICES ASSUME rd' = wr, done1 > 0 PROVE FALSE
      BY DEF Types, TypeOK
    <3>2. buf[rd] = [rec |-> rec1, part |-> done1]
      BY <1>4, <3>1 DEF Newest
    <3>3. done1 = Weight(rec1)
      BY <1>4, <1>8, <3>2 DEF Whole
    <3>4. pc1 = "write"
      BY <1>2, <3>1 DEF Types, Core1Counters, RoomInv
    <3>5. QED
      BY <3>3, <3>4, Weights DEF Types, TypeOK, Core1Counters
  <2>4. QED
    BY <1>4, <2>1, <2>2, <2>3 DEF FrontInv
<1>9. QED
  BY <1>7, <1>8

LEMMA ReadFetchFront ==
  ASSUME Types, RoomInv, RingInv, FrontInv, ReadFetch
  PROVE  FrontInv'
<1> SUFFICES ASSUME Calm' PROVE FrontInv'
  BY DEF FrontInv
<1>1. Core0 /\ pc0 = "read" /\ Reading
  BY DEF Core0, ReadFetch, Reading
<1>2. Calm /\ ~dropRace /\ rd # wr /\ ~Dropping
  <2>1. Calm /\ rd # wr
    BY <1>1, Core0Calm
  <2>2. QED
    BY <1>1, <2>1 DEF Calm, RoomInv
<1>3. /\ UNCHANGED <<buf, rd, wr, done1, rec1, pc1, left0>> /\ pc0' = "readStore"
      /\ cells0' = Append(cells0, buf[rd])
  BY <1>2 DEF ReadFetch, ring, core1
<1>4. buf[rd] \in Cell /\ cells0 \in Seq(Cell) /\ rd \in Position
  BY DEF Types, TypeOK
<1>5. Removed = Len(cells0) /\ Removed \in Nat
  BY <1>1, <1>4 DEF Removed
<1>6. PartOf(cells0) /\ left0 = ToRead(cells0, Removed) /\ (cells0 # << >> => cells0[1].rec = buf[rd].rec)
      /\ buf[rd].part = Len(cells0) + 1
  BY <1>1, <1>2, <1>5 DEF FrontInv
<1>7. /\ PartOf(cells0') /\ cells0' # << >> /\ cells0'[1].rec = buf[rd].rec
      /\ Len(cells0') = Len(cells0) + 1
  BY <1>3, <1>4, <1>6, PartOfAppend
<1>8. Removed' = Removed
  BY <1>3, <1>5, <1>7 DEF Removed
<1>9. ToRead(cells0', Removed') = ToRead(cells0, Removed)
  <2>1. CASE Removed < Header
    BY <1>8, <2>1 DEF ToRead
  <2>2. CASE ~(Removed < Header)
    <3>1. cells0 # << >>
      BY <1>4, <1>5, <2>2, LoggerAssumption
    <3>2. Weight(cells0'[1].rec) = Weight(cells0[1].rec)
      BY <1>6, <1>7, <3>1
    <3>3. QED
      BY <1>8, <2>2, <3>2 DEF ToRead
  <2>3. QED
    BY <2>1, <2>2
<1>10. PartOf(cells0)' /\ ToRead(cells0, Removed)' = ToRead(cells0', Removed')
  BY <1>7 DEF PartOf, ToRead, Weight
<1>11. buf[rd].rec \in Record
  BY <1>2, <1>4, Ring, InRingIn DEF RingInv, CellInv, Types, TypeOK
<1>12. ~Dropping'
  BY <1>2, <1>3 DEF Dropping
<1>13. QED
  BY <1>2, <1>3, <1>5, <1>6, <1>7, <1>8, <1>9, <1>10, <1>11, <1>12 DEF FrontInv


(* While core 0 peeks at the header of the front record, the last cell it has *)
(* read is in the ring, before the one it reads next.                       *)
PeekInv == Calm /\ pc0 = "peek" =>
  /\ cells0 = << >> => reg0 = rd
  /\ cells0 # << >> =>
       \E q \in Position : InRing(q) /\ Following(q) = reg0 /\ cells0[Len(cells0)] = buf[q]
  /\ done1 > 0 /\ buf[rd].rec = rec1 => inFlight = rec1.time

(* What core 0 does next, seen from the ring it leaves alone.               *)
LEMMA PeekStep ==
  ASSUME Types, RoomInv, RingInv, FrontInv, PeekInv, Calm', Peek
  PROVE  /\ UNCHANGED <<buf, rd, wr, core1, rec1, done1, pc1, logged, dropped, clock>> /\ Calm
         /\ pc0 = "peek" /\ rd # wr /\ InRing(rd) /\ ~Dropping
         /\ \/ /\ pc0' = "peek" /\ cells0' = Append(cells0, buf[reg0]) /\ reg0' = Following(reg0)
               /\ InRing(reg0) /\ buf[reg0].part = Len(cells0) + 1
               /\ cells0 # << >> => buf[reg0].rec = cells0[1].rec
               /\ cells0 = << >> => reg0 = rd
               /\ UNCHANGED <<local, delivered, inFlight>>
            \/ /\ cells0 # << >> /\ cells0[1].rec = buf[rd].rec
               /\ \/ IsHeader(cells0) \/ (buf[rd].rec = rec1 /\ inFlight = rec1.time)
               /\ Choose
<1>1. Core0 /\ pc0 = "peek" /\ Reading
  BY DEF Core0, Peek, Reading
<1>2. Calm
  BY <1>1, Core0Calm
<1>3. UNCHANGED <<buf, rd, wr, core1, rec1, done1, pc1, logged, dropped, clock>>
  BY DEF Peek, ring, core1
<1>4. rd # wr /\ ~Dropping
  BY <1>1, <1>2 DEF FrontInv, RoomInv, Calm
<1>5. /\ rd \in Position /\ wr \in Position /\ buf \in [Position -> Cell] /\ cells0 \in Seq(Cell)
      /\ Len(cells0) <= Header /\ InRing(rd)
  BY <1>1, <1>4, Ring, InRingIn DEF Types, TypeOK, Core0Counters
<1>6. PartOf(cells0) /\ (cells0 # << >> => cells0[1].rec \in Record /\ cells0[1].rec = buf[rd].rec)
      /\ buf[rd].part = 1
  <2>1. Removed = 0
    BY <1>1, <1>4 DEF Removed, Dropping
  <2>2. QED
    BY <1>1, <1>2, <1>4, <2>1 DEF FrontInv
<1>7. CASE cells0 = << >>
  <2>1. reg0 = rd /\ Len(cells0) = 0
    BY <1>1, <1>2, <1>7 DEF PeekInv
  <2>2. /\ cells0' = Append(cells0, buf[reg0]) /\ reg0' = Following(reg0) /\ pc0' = pc0
        /\ UNCHANGED <<local, delivered, inFlight>>
    BY <1>4, <1>7, <2>1, LoggerAssumption DEF Peek
  <2>3. QED
    BY <1>1, <1>2, <1>3, <1>4, <1>5, <1>6, <1>7, <2>1, <2>2
<1>8. CASE cells0 # << >>
  <2> DEFINE n == Len(cells0)
  <2>1. n \in Nat \ {0} /\ n \in 1..n
    BY <1>5, <1>8
  <2>2. PICK q \in Position : InRing(q) /\ Following(q) = reg0 /\ cells0[n] = buf[q]
    BY <1>1, <1>2, <1>8 DEF PeekInv
  <2>3. cells0[n] = [rec |-> buf[rd].rec, part |-> n]
    BY <1>5, <1>6, <1>8, <2>1 DEF PartOf
  <2>4. buf[q].rec = buf[rd].rec /\ buf[q].part = n /\ CellInv(q)
    BY <1>2, <2>2, <2>3 DEF RingInv
  <2>5. n # Header => ~Whole(buf[q])
    <3>1. buf[rd].rec \in Record
      BY <1>6, <1>8
    <3>2. Weight(buf[rd].rec) >= Header /\ Weight(buf[rd].rec) \in Nat
      BY <3>1, Weights
    <3>3. QED
      BY <1>5, <2>1, <2>4, <3>2, LoggerAssumption DEF Whole
  <2> HIDE DEF n
  <2>6. CASE n = Header
    <3>1. Choose
      BY <1>8, <2>6 DEF Peek, n
    <3>2. IsHeader(cells0)
      BY <1>5, <1>6, <2>6 DEF IsHeader, PartOf, n
    <3>3. QED
      BY <1>1, <1>2, <1>3, <1>4, <1>5, <1>6, <1>8, <3>1, <3>2
  <2>7. CASE n # Header /\ reg0 = wr
    <3>1. Choose
      BY <1>8, <2>7 DEF Peek
    <3>2. Newest(buf[q])
      BY <2>2, <2>4, <2>7 DEF CellInv
    <3>3. done1 > 0 /\ buf[q].rec = rec1
      BY <2>5, <2>7, <3>2 DEF Newest
    <3>4. inFlight = rec1.time
      BY <1>1, <1>2, <2>4, <3>3 DEF PeekInv
    <3>5. QED
      BY <1>1, <1>2, <1>3, <1>4, <1>5, <1>6, <1>8, <2>4, <3>1, <3>3, <3>4
  <2>8. CASE n # Header /\ reg0 # wr
    <3>1. /\ cells0' = Append(cells0, buf[reg0]) /\ reg0' = Following(reg0) /\ pc0' = pc0
          /\ UNCHANGED <<local, delivered, inFlight>>
      BY <1>8, <2>8 DEF Peek, n
    <3>2. FollowedBy(buf[q], buf[reg0])
      BY <2>2, <2>4, <2>8 DEF CellInv
    <3>3. buf[reg0] = [buf[q] EXCEPT !.part = @ + 1]
      BY <2>5, <2>8, <3>2 DEF FollowedBy
    <3>4. buf[q] \in Cell
      BY <1>5, <2>2
    <3>5. buf[reg0].part = n + 1 /\ buf[reg0].rec = buf[rd].rec
      BY <2>4, <3>3, <3>4 DEF Cell
    <3>6. InRing(reg0)
      BY <1>5, <2>2, <2>8, Ring, InRingIn
    <3>7. QED
      BY <1>1, <1>2, <1>3, <1>4, <1>5, <1>6, <1>8, <3>1, <3>5, <3>6 DEF n
  <2>9. QED
    BY <2>6, <2>7, <2>8
<1>9. QED
  BY <1>7, <1>8

(* Core 0 ends a log, or looks for the next one: it holds nothing of core 1. *)
LEMMA RestFront ==
  ASSUME Types, FrontInv, UNCHANGED <<ring, core1>>, Calm' => Calm,
         pc0 \notin {"read", "readStore"}, pc0' \notin {"peek", "read", "readStore"}
  PROVE  FrontInv'
<1> SUFFICES ASSUME Calm' PROVE FrontInv'
  BY DEF FrontInv
<1>1. Calm /\ UNCHANGED <<buf, rd, wr>> /\ UNCHANGED <<pc1, rec1, done1, cells1, left1>>
  BY DEF ring, core1
<1>2. Removed' = Removed /\ ~Reading' /\ (Dropping' <=> Dropping)
  BY <1>1 DEF Removed, Reading, Dropping
<1>3. ToRead(cells1, Removed)' = ToRead(cells1, Removed) /\ PartOf(cells1)' = PartOf(cells1)
  BY <1>1, <1>2 DEF ToRead, Weight, PartOf
<1>4. rd = wr => done1 = Removed /\ (Removed > 0 => FALSE)
  BY <1>1 DEF FrontInv
<1>5. QED
  BY <1>1, <1>2, <1>3, <1>4 DEF FrontInv

(* try_dequeue_log ends without a record of core 1 ... or with one of core 0. *)
LEMMA TakeLocalEnds ==
  ASSUME NEW beside, TakeLocal(beside)
  PROVE  pc0' \in {"idle", "dequeue"} /\ cells0' = << >>
BY DEF TakeLocal, NoLog, Deliver, Return

LEMMA PeekFront ==
  ASSUME Types, RoomInv, RingInv, FrontInv, PeekInv, Peek
  PROVE  FrontInv' /\ PeekInv'
<1> SUFFICES ASSUME Calm' PROVE FrontInv' /\ PeekInv'
  BY DEF FrontInv, PeekInv
<1>1. /\ UNCHANGED <<buf, rd, wr, core1, rec1, done1, pc1>> /\ Calm
      /\ pc0 = "peek" /\ rd # wr /\ InRing(rd) /\ ~Dropping
      /\ \/ /\ pc0' = "peek" /\ cells0' = Append(cells0, buf[reg0]) /\ reg0' = Following(reg0)
            /\ InRing(reg0) /\ buf[reg0].part = Len(cells0) + 1
            /\ cells0 # << >> => buf[reg0].rec = cells0[1].rec
            /\ cells0 = << >> => reg0 = rd
            /\ inFlight' = inFlight
         \/ Choose
  BY PeekStep
<1>2. /\ Reading /\ Removed = 0 /\ ~Dropping' /\ reg0 \in Position /\ rd \in Position
      /\ cells0 \in Seq(Cell) /\ buf \in [Position -> Cell]
  BY <1>1 DEF Reading, Removed, Dropping, Types, TypeOK
<1>3. buf[rd].part = 1 /\ PartOf(cells0)
      /\ (cells0 # << >> => cells0[1].rec \in Record /\ cells0[1].rec = buf[rd].rec)
  BY <1>1, <1>2 DEF FrontInv
<1>4. buf[rd].rec \in Record
  BY <1>1, <1>2 DEF RingInv, CellInv
<1>5. CASE /\ pc0' = "peek" /\ cells0' = Append(cells0, buf[reg0]) /\ reg0' = Following(reg0)
           /\ InRing(reg0) /\ buf[reg0].part = Len(cells0) + 1
           /\ cells0 # << >> => buf[reg0].rec = cells0[1].rec
           /\ cells0 = << >> => reg0 = rd
           /\ inFlight' = inFlight
  <2>1. buf[reg0] \in Cell
    BY <1>2
  <2>2. /\ PartOf(cells0') /\ cells0' # << >> /\ cells0'[1].rec = buf[reg0].rec
        /\ Len(cells0') = Len(cells0) + 1
    BY <1>2, <1>3, <1>5, <2>1, PartOfAppend
  <2>3. buf[reg0].rec = buf[rd].rec
    BY <1>3, <1>5
  <2>4. Removed' = 0 /\ PartOf(cells0)' /\ rd' # wr'
    BY <1>1, <1>2, <1>5, <2>2 DEF Removed, Dropping, PartOf
  <2>5. FrontInv'
    BY <1>1, <1>2, <1>3, <1>4, <1>5, <2>2, <2>3, <2>4 DEF FrontInv
  <2>6. cells0'[Len(cells0')] = buf[reg0]
    BY <1>2, <1>5, <2>1, <2>2, AppendProperties
  <2>7. PICK p \in Position : p = reg0
    BY <1>2
  <2>8. InRing(p)'
    <3>1. InRing(p)
      BY <1>5, <2>7
    <3>2. QED
      BY <1>1, <3>1 DEF InRing, Length
  <2>9. PeekInv'
    <3>1. \E q \in Position : (InRing(q) /\ Following(q) = reg0 /\ cells0[Len(cells0)] = buf[q])'
      BY <1>1, <1>5, <2>6, <2>7, <2>8 DEF Following
    <3>2. done1' > 0 /\ buf'[rd'].rec = rec1' => inFlight' = rec1'.time
      BY <1>1, <1>5 DEF PeekInv
    <3>3. QED
      BY <2>2, <3>1, <3>2 DEF PeekInv
  <2>10. QED
    BY <2>5, <2>9
<1>6. CASE Choose
  <2>1. CASE TakeLocal(inFlight)
    <3>1. pc0' \in {"idle", "dequeue"}
      BY <2>1, TakeLocalEnds
    <3>2. UNCHANGED <<ring, core1>>
      BY <1>1 DEF ring
    <3>3. FrontInv'
      BY <1>1, <3>1, <3>2, RestFront
    <3>4. QED
      BY <3>1, <3>3 DEF PeekInv
  <2>2. CASE pc0' = "read" /\ cells0' = << >> /\ left0' = Header
    <3>1. Removed' = 0 /\ PartOf(cells0)' /\ rd' # wr'
      BY <1>1, <2>2 DEF Removed, PartOf
    <3>2. ToRead(cells0, Removed)' = Header
      BY <3>1, LoggerAssumption DEF ToRead
    <3>3. FrontInv'
      BY <1>1, <1>2, <1>3, <2>2, <3>1, <3>2 DEF FrontInv
    <3>4. QED
      BY <2>2, <3>3 DEF PeekInv
  <2>3. QED
    BY <1>6, <2>1, <2>2, ChooseTypes
<1>7. QED
  BY <1>1, <1>5, <1>6

LEMMA DequeueFront ==
  ASSUME Types, FrontInv, Dequeue
  PROVE  FrontInv' /\ PeekInv'
<1> SUFFICES ASSUME Calm' PROVE FrontInv' /\ PeekInv'
  BY DEF FrontInv, PeekInv
<1>1. Core0 /\ pc0 = "dequeue" /\ cells0 = << >>
  BY DEF Core0, Dequeue, Types, Core0Counters
<1>2. Calm /\ ~(Dropping /\ Reading')
  BY <1>1, Core0Calm
<1>3. UNCHANGED <<ring, core1>> /\ UNCHANGED <<buf, rd, wr, pc1, rec1, done1>>
  BY DEF Dequeue, ring, core1
<1>4. CASE Length(rd, wr) # 0
  <2>1. pc0' = "peek" /\ reg0' = rd /\ inFlight' = rec1.time /\ cells0' = << >>
    BY <1>1, <1>4 DEF Dequeue
  <2>2. rd # wr
    BY <1>4, Lengths DEF Types, TypeOK
  <2>3. ~Dropping /\ ~Dropping' /\ Removed = 0 /\ Removed' = 0 /\ PartOf(cells0)'
    BY <1>1, <1>2, <1>3, <2>1 DEF Dropping, Reading, Removed, PartOf
  <2>4. FrontInv'
    BY <1>2, <1>3, <2>1, <2>2, <2>3 DEF FrontInv
  <2>5. QED
    BY <1>3, <2>1, <2>4 DEF PeekInv
<1>5. CASE Length(rd, wr) = 0
  <2>1. pc0' \in {"idle", "dequeue"}
    BY <1>5, TakeLocalEnds DEF Dequeue
  <2>2. FrontInv'
    BY <1>1, <1>2, <1>3, <2>1, RestFront
  <2>3. QED
    BY <2>1, <2>2 DEF PeekInv
<1>6. QED
  BY <1>4, <1>5

(* A core 1 that drops nothing only adds to the ring.                       *)
LEMMA Core1Adds ==
  ASSUME Types, RoomInv, RingInv, Calm, Core1, ~Dropping
  PROVE  /\ rd' = rd
         /\ \A p \in Position : InRing(p) => InRing(p)' /\ buf'[p] = buf[p]
         /\ done1' > 0 => rec1' = rec1
<1>1. CASE Write
  BY <1>1, WriteStep
<1>2. CASE ~Write
  <2>1. UNCHANGED <<buf, rd, wr, done1>>
    BY <1>2 DEF Core1, Log1, EnsureRoom, DropFetch, DropStore, Dropping, ring
  <2>2. rec1' = rec1 \/ done1 = 0
    BY <1>2 DEF Core1, Log1, EnsureRoom, DropFetch, DropStore, Types, Core1Counters
  <2>3. \A p \in Position : InRing(p) => InRing(p)' /\ buf'[p] = buf[p]
    BY <2>1 DEF InRing, Length
  <2>4. QED
    BY <2>1, <2>2, <2>3
<1>3. QED
  BY <1>1, <1>2

LEMMA Core1Peek ==
  ASSUME Types, RoomInv, RingInv, FrontInv, PeekInv, Core1
  PROVE  PeekInv'
<1> SUFFICES ASSUME Calm', pc0' = "peek" PROVE PeekInv'
  BY DEF PeekInv
<1>1. UNCHANGED <<pc0, cells0, left0, reg0, inFlight>> /\ Calm /\ (Reading' <=> Reading)
  BY Core1Calm
<1>2. pc0 = "peek" /\ Reading /\ ~Dropping /\ rd # wr
  BY <1>1 DEF Reading, RoomInv, Calm, FrontInv
<1>3. /\ rd' = rd
      /\ \A p \in Position : InRing(p) => InRing(p)' /\ buf'[p] = buf[p]
      /\ done1' > 0 => rec1' = rec1
  BY <1>1, <1>2, Core1Adds
<1>4. rd \in Position /\ InRing(rd)
  BY <1>2, Ring, InRingIn DEF Types, TypeOK
<1>5. cells0 # << >> =>
        (\E q \in Position : InRing(q) /\ Following(q) = reg0 /\ cells0[Len(cells0)] = buf[q])'
  <2>1. SUFFICES ASSUME cells0 # << >>
                 PROVE  (\E q \in Position : InRing(q) /\ Following(q) = reg0
                                             /\ cells0[Len(cells0)] = buf[q])'
    OBVIOUS
  <2>2. PICK q \in Position : InRing(q) /\ Following(q) = reg0 /\ cells0[Len(cells0)] = buf[q]
    BY <1>1, <1>2, <2>1 DEF PeekInv
  <2>3. InRing(q)' /\ buf'[q] = buf[q]
    BY <1>3, <2>2
  <2>4. QED
    BY <1>1, <2>2, <2>3 DEF Following
<1>6. done1' > 0 /\ buf'[rd'].rec = rec1' => inFlight' = rec1'.time
  <2>1. SUFFICES ASSUME done1' > 0, buf'[rd'].rec = rec1' PROVE inFlight' = rec1'.time
    OBVIOUS
  <2>2. rec1' = rec1 /\ buf[rd].rec = rec1
    BY <1>3, <1>4, <2>1
  <2>3. CellInv(rd) /\ pc1 # "idle"
    <3>1. CellInv(rd)
      BY <1>1, <1>4 DEF RingInv
    <3>2. pc1 # "idle"
      <4>1. rec1 # NoRecord
        BY <2>2, <3>1 DEF CellInv, Record, NoRecord
      <4>2. QED
        BY <4>1 DEF Types, Core1Counters
    <3>3. QED
      BY <3>1, <3>2
  <2>4. done1 > 0
    <3>1. rec1.time \in Nat
      BY <2>2, <2>3 DEF CellInv, Record
    <3>2. QED
      BY <2>2, <2>3, <3>1 DEF CellInv
  <2>5. QED
    BY <1>1, <1>2, <2>2, <2>4 DEF PeekInv
<1>7. QED
  BY <1>1, <1>3, <1>5, <1>6 DEF PeekInv

LEMMA Core0Front ==
  ASSUME Types, RoomInv, RingInv, FrontInv, PeekInv, Core0
  PROVE  FrontInv' /\ PeekInv'
<1>1. CASE (\E len \in Body : Log0(len)) \/ GetLogs
  <2>1. UNCHANGED <<ring, core1>> /\ pc0 = "idle" /\ pc0' \in {"idle", "dequeue"}
    BY <1>1 DEF Log0, GetLogs, core0
  <2>2. Calm' => Calm
    BY Core0Calm
  <2>3. FrontInv'
    BY <2>1, <2>2, RestFront
  <2>4. QED
    BY <2>1, <2>3 DEF PeekInv
<1>2. CASE ReadFetch
  <2>1. Calm' => pc0' # "peek"
    <3>1. Calm' => rd # wr
      BY <1>2, Core0Calm
    <3>2. QED
      BY <1>2, <3>1 DEF ReadFetch
  <2>2. QED
    BY <1>2, <2>1, ReadFetchFront DEF PeekInv
<1>3. CASE ReadStore
  <2>1. Calm' => pc0' # "peek"
    <3>1. Calm' => Calm
      BY Core0Calm
    <3>2. QED
      BY <1>3, <3>1, ReadStep
  <2>2. QED
    BY <1>3, <2>1, ReadStoreFront DEF PeekInv
<1>4. QED
  BY <1>1, <1>2, <1>3, DequeueFront, PeekFront DEF Core0

(* What Types, RoomInv and these keep.                                      *)
RingFrontInv == RingInv /\ FrontInv /\ PeekInv

LEMMA InitRingFront == Init => RingFrontInv
BY InitRing, InitFront DEF RingFrontInv, PeekInv, Init

LEMMA NextRingFront == Types /\ RoomInv /\ RingFrontInv /\ [Next]_vars => RingFrontInv'
<1> SUFFICES ASSUME Types, RoomInv, RingFrontInv, [Next]_vars PROVE RingFrontInv'
  OBVIOUS
<1> USE DEF RingFrontInv
<1>1. CASE Core1
  BY <1>1, Core1Ring, Core1Front, Core1Peek
<1>2. CASE Core0
  BY <1>2, Core0Ring, Core0Front
<1>3. CASE UNCHANGED vars
  BY <1>3 DEF vars, ring, core1, core0, history, RingInv, FrontInv, PeekInv, Calm, InRing,
     CellInv, Newest, LastWritten, Whole, FollowedBy, Length, Following, Removed, Reading, Dropping,
     PartOf, ToRead, Weight
<1>4. QED
  BY <1>1, <1>2, <1>3 DEF Next

-----------------------------------------------------------------------------
(* Where the records of core 1 went.                                        *)

(* The first record of core 1 that is neither out of the ring nor being      *)
(* dropped, or would be.                                                    *)
NextN ==
  IF rd # wr THEN buf[rd].rec.n ELSE IF pc1 = "idle" THEN logged[1] + 1 ELSE logged[1]
InDrop == IF Dropping THEN 1 ELSE 0
CountInv == Calm =>
  /\ Cardinality(Replied) + dropped + 1 = NextN + InDrop
  /\ \A i \in Replied : delivered[i].n < NextN
  /\ \A i, j \in Replied : i < j => delivered[i].n < delivered[j].n

LEMMA NextNNat ==
  ASSUME Types, RingInv, Calm
  PROVE  NextN \in Nat /\ (rd # wr => CellInv(rd) /\ InRing(rd) /\ buf[rd].rec.n \in Nat)
<1>1. rd \in Position /\ wr \in Position /\ logged[1] \in Nat
  BY DEF Types, TypeOK
<1>2. rd # wr => CellInv(rd) /\ InRing(rd)
  BY <1>1, Ring, InRingIn DEF RingInv
<1>3. rd # wr => buf[rd].rec.n \in Nat
  BY <1>2 DEF CellInv, Record
<1>4. QED
  BY <1>1, <1>2, <1>3 DEF NextN

(* A record that core 1 drops is counted when its drop begins, and is the    *)
(* first one in the ring until it ends.                                     *)
LEMMA Core1Counts ==
  ASSUME Types, RoomInv, RingFrontInv, Calm, Core1
  PROVE  NextN' \in Nat /\ NextN <= NextN' /\ dropped' + NextN + InDrop = dropped + NextN' + InDrop'
<1> USE DEF RingFrontInv
<1>1. NextN \in Nat /\ (rd # wr => buf[rd].rec.n \in Nat) /\ dropped \in Nat /\ logged[1] \in Nat
      /\ rd \in Position
  BY NextNNat DEF Types, TypeOK
<1>2. CASE \E len \in Body : Log1(len)
  <2>1. /\ UNCHANGED <<buf, rd, wr, dropped>> /\ pc1 = "idle" /\ pc1' = "room"
        /\ logged'[1] = logged[1] + 1
    BY <1>1, <1>2 DEF Log1, ring, Types, TypeOK
  <2>2. NextN' = NextN /\ InDrop' = InDrop
    BY <2>1 DEF NextN, InDrop, Dropping
  <2>3. QED
    BY <1>1, <2>1, <2>2 DEF InDrop
<1>3. CASE EnsureRoom
  <2>1. /\ UNCHANGED <<buf, rd, wr, logged>> /\ pc1 = "room" /\ InDrop = 0
        /\ \/ pc1' = "drop" /\ dropped' = dropped + 1
           \/ pc1' = "write" /\ dropped' = dropped
    BY <1>3 DEF EnsureRoom, ring, InDrop, Dropping
  <2>2. NextN' = NextN
    BY <2>1 DEF NextN
  <2>3. InDrop' = dropped' - dropped
    BY <1>1, <2>1 DEF InDrop, Dropping
  <2>4. QED
    BY <1>1, <2>1, <2>2, <2>3
<1>4. CASE DropFetch
  <2>1. rd # wr
    BY <1>4 DEF FrontInv, DropFetch, Dropping
  <2>2. UNCHANGED <<buf, rd, wr, logged, dropped>> /\ pc1 = "drop" /\ pc1' = "dropStore"
    BY <1>4, <2>1 DEF DropFetch, ring
  <2>3. NextN' = NextN /\ InDrop' = InDrop
    BY <2>2 DEF NextN, InDrop, Dropping
  <2>4. QED
    BY <1>1, <2>2, <2>3 DEF InDrop
<1>5. CASE DropStore
  <2>1. /\ rd # wr /\ wr' = wr /\ UNCHANGED <<buf, logged, dropped>>
        /\ \/ pc1' = "drop" /\ rd' # wr /\ buf[rd'] = [buf[rd] EXCEPT !.part = @ + 1]
           \/ /\ pc1' = "room"
              /\ Whole(buf[rd]) /\ (rd' # wr => FollowedBy(buf[rd], buf[rd']))
              /\ rd' = wr => buf[rd].rec.n = logged[1] - 1
    BY <1>5, DropStep
  <2>2. InDrop = 1 /\ buf[rd] \in Cell
    BY <1>1, <1>5 DEF InDrop, DropStore, Dropping, Types, TypeOK
  <2>3. CASE pc1' = "drop"
    <3>1. NextN' = NextN
      BY <2>1, <2>2, <2>3 DEF NextN, Cell
    <3>2. InDrop' = 1
      BY <2>3 DEF InDrop, Dropping
    <3>3. QED
      BY <1>1, <2>1, <2>2, <3>1, <3>2
  <2>4. CASE pc1' = "room"
    <3>1. NextN' = NextN + 1
      BY <1>1, <2>1, <2>4 DEF NextN, FollowedBy
    <3>2. InDrop' = 0
      BY <2>4 DEF InDrop, Dropping
    <3>3. QED
      BY <1>1, <2>1, <2>2, <3>1, <3>2
  <2>5. QED
    BY <2>1, <2>3, <2>4
<1>6. CASE Write
  <2>1. /\ pc1 = "write" /\ rec1.n = logged[1] /\ rd' = rd /\ rd' # wr' /\ UNCHANGED <<logged, dropped>>
        /\ \A p \in Position : InRing(p) => buf'[p] = buf[p]
        /\ buf'[wr] = [rec |-> rec1, part |-> done1 + 1]
        /\ pc1' \in {"idle", "write"}
    BY <1>6, WriteStep
  <2>2. InDrop = 0 /\ InDrop' = 0
    BY <2>1 DEF InDrop, Dropping
  <2>3. NextN' = NextN
    <3>1. CASE rd = wr
      BY <2>1, <3>1 DEF NextN
    <3>2. CASE rd # wr
      <4>1. buf'[rd] = buf[rd]
        BY <1>1, <2>1, <3>2, NextNNat
      <4>2. QED
        BY <2>1, <3>2, <4>1 DEF NextN
    <3>3. QED
      BY <3>1, <3>2
  <2>4. QED
    BY <1>1, <2>1, <2>2, <2>3
<1>7. QED
  BY <1>2, <1>3, <1>4, <1>5, <1>6 DEF Core1

LEMMA RepliedMore ==
  ASSUME delivered \in Seq(Delivery), NEW d \in Delivery, delivered' = Append(delivered, d)
  PROVE  /\ DOMAIN delivered = 1..Len(delivered) /\ Len(delivered) \in Nat
         /\ DOMAIN delivered' = 1..Len(delivered) + 1
         /\ \A i \in 1..Len(delivered) : delivered'[i] = delivered[i]
         /\ delivered'[Len(delivered) + 1] = d
         /\ Replied' = IF d.core = 1 /\ d.kept THEN Replied \cup {Len(delivered) + 1} ELSE Replied
<1> DEFINE n == Len(delivered)
<1>1. DOMAIN delivered = 1..n /\ n \in Nat
  OBVIOUS
<1>2. /\ Len(delivered') = n + 1 /\ delivered' \in Seq(Delivery)
      /\ delivered'[n + 1] = d
      /\ \A i \in 1..n : delivered'[i] = delivered[i]
  BY AppendProperties
<1>3. DOMAIN delivered' = 1..n + 1
  BY <1>2
<1> HIDE DEF n
<1>4. ASSUME NEW i
      PROVE  i \in Replied' <=> i \in Replied \/ (i = n + 1 /\ d.core = 1 /\ d.kept)
  <2>1. CASE i \in 1..n
    <3>1. i \in 1..n + 1 /\ i # n + 1 /\ delivered'[i] = delivered[i]
      BY <1>1, <1>2, <2>1
    <3>2. QED
      BY <1>1, <1>3, <2>1, <3>1 DEF Replied
  <2>2. CASE i = n + 1
    <3>1. i \in 1..n + 1 /\ i \notin 1..n /\ delivered'[i] = d
      BY <1>1, <1>2, <2>2
    <3>2. QED
      BY <1>1, <1>3, <2>2, <3>1 DEF Replied
  <2>3. CASE i \notin 1..n /\ i # n + 1
    <3>1. i \notin 1..n + 1
      BY <1>1, <2>3
    <3>2. QED
      BY <1>1, <1>3, <2>3, <3>1 DEF Replied
  <2>4. QED
    BY <2>1, <2>2, <2>3
<1>5. Replied' = IF d.core = 1 /\ d.kept THEN Replied \cup {n + 1} ELSE Replied
  <2>1. CASE d.core = 1 /\ d.kept
    BY <1>4, <2>1
  <2>2. CASE ~(d.core = 1 /\ d.kept)
    BY <1>4, <2>2
  <2>3. QED
    BY <2>1, <2>2
<1>6. QED
  BY <1>1, <1>2, <1>3, <1>5 DEF n

LEMMA RepliedFinite ==
  ASSUME delivered \in Seq(Delivery)
  PROVE  /\ IsFiniteSet(Replied) /\ Cardinality(Replied) \in Nat
         /\ Replied \subseteq 1..Len(delivered) /\ Len(delivered) + 1 \notin Replied
         /\ \A i \in Replied : delivered[i].n \in Nat /\ i \in Nat
<1>1. Replied \subseteq 1..Len(delivered) /\ Len(delivered) \in Nat
  BY DEF Replied
<1>2. IsFiniteSet(1..Len(delivered))
  BY <1>1, FS_Interval
<1>3. IsFiniteSet(Replied)
  BY <1>1, <1>2, FS_Subset
<1>4. \A i \in 1..Len(delivered) : delivered[i] \in Delivery
  OBVIOUS
<1>5. QED
  BY <1>1, <1>3, <1>4, FS_CardinalityType DEF Delivery

(* Taking a record of core 0.                                               *)
LEMMA LocalTaken ==
  ASSUME Types, NEW beside \in Nat, TakeLocal(beside)
  PROVE  \/ UNCHANGED <<delivered, local>>
         \/ /\ local # << >> /\ local' = Tail(local)
            /\ \E kept \in BOOLEAN :
                 LET d == [core |-> 0, n |-> Head(local).n, time |-> Head(local).time,
                           inFlight |-> beside, kept |-> kept]
                 IN  d \in Delivery /\ delivered' = Append(delivered, d)
<1>1. CASE local = << >>
  BY <1>1 DEF TakeLocal, NoLog
<1>2. CASE local # << >>
  <2>1. Head(local) \in Record
    BY <1>2 DEF Types, TypeOK
  <2> DEFINE kept == Weight(Head(local)) <= space
             d == [core |-> 0, n |-> Head(local).n, time |-> Head(local).time,
                   inFlight |-> beside, kept |-> kept]
  <2>2. local' = Tail(local) /\ delivered' = Append(delivered, d)
    BY <1>2 DEF TakeLocal, Deliver
  <2>3. kept \in BOOLEAN /\ Head(local).n \in Nat /\ Head(local).time \in Nat
    BY <2>1 DEF Record
  <2> HIDE DEF kept
  <2>4. d \in Delivery
    BY <2>3 DEF Delivery
  <2>5. QED
    BY <1>2, <2>2, <2>3, <2>4
<1>3. QED
  BY <1>1, <1>2

(* What core 0 does but for moving read_position: it delivers a record of     *)
(* its own, if any.                                                         *)
LEMMA Core0Else ==
  ASSUME Types, RoomInv, RingFrontInv, Calm', Core0, ~ReadStore
  PROVE  /\ UNCHANGED <<buf, rd, wr, pc1, rec1, done1, dropped>> /\ logged'[1] = logged[1] /\ Calm
         /\ \/ UNCHANGED delivered
            \/ Dequeue /\ rd = wr /\ TakeLocal(rec1.time)
            \/ Peek /\ TakeLocal(inFlight)
<1>1. /\ UNCHANGED <<buf, wr, pc1, rec1, done1, dropped>> /\ logged'[1] = logged[1] /\ Calm
      /\ ~(ReadFetch /\ rd = wr)
  BY Core0Leaves, Core0Calm DEF core1
<1>2. rd' = rd
  BY DEF Core0, Log0, GetLogs, Dequeue, Peek, ReadFetch, ring
<1>3. CASE Dequeue
  BY <1>1, <1>2, <1>3, Lengths DEF Dequeue, Types, TypeOK
<1>4. CASE Peek
  BY <1>1, <1>2, <1>4, ChooseTypes DEF Peek
<1>5. CASE ReadFetch
  BY <1>1, <1>2, <1>5 DEF ReadFetch
<1>6. CASE (\E len \in Body : Log0(len)) \/ GetLogs
  BY <1>1, <1>2, <1>6 DEF Log0, GetLogs, history
<1>7. QED
  BY <1>3, <1>4, <1>5, <1>6 DEF Core0

LEMMA Core1CountInv ==
  ASSUME Types, RoomInv, RingFrontInv, CountInv, Core1
  PROVE  CountInv'
<1> SUFFICES ASSUME Calm' PROVE CountInv'
  BY DEF CountInv
<1>1. Calm /\ UNCHANGED delivered
  BY Core1Calm
<1>2. NextN' \in Nat /\ NextN <= NextN' /\ dropped' + NextN + InDrop = dropped + NextN' + InDrop'
  BY <1>1, Core1Counts
<1>3. NextN \in Nat
  BY <1>1, NextNNat DEF RingFrontInv
<1>4. Replied' = Replied
  BY <1>1 DEF Replied
<1>5. /\ Cardinality(Replied) \in Nat /\ \A i \in Replied : delivered[i].n \in Nat
  BY RepliedFinite DEF Types, TypeOK
<1>6. dropped \in Nat /\ dropped' \in Nat /\ InDrop \in Nat /\ InDrop' \in Nat
  <2>1. Types'
    BY Core1Types
  <2>2. QED
    BY <2>1 DEF InDrop, Types, TypeOK
<1>7. Cardinality(Replied') + dropped' + 1 = NextN' + InDrop'
  <2>1. Cardinality(Replied) + dropped + 1 = NextN + InDrop
    BY <1>1 DEF CountInv
  <2> DEFINE c == Cardinality(Replied)
  <2>2. Cardinality(Replied') = c
    BY <1>4
  <2> HIDE DEF c
  <2>3. c \in Nat /\ c + dropped + 1 = NextN + InDrop
    BY <1>5, <2>1 DEF c
  <2>4. QED
    BY <1>2, <1>3, <1>6, <2>2, <2>3
<1>8. \A i \in Replied : delivered[i].n < NextN'
  BY <1>1, <1>2, <1>3, <1>5 DEF CountInv
<1>9. QED
  BY <1>1, <1>4, <1>7, <1>8 DEF CountInv

LEMMA Core0CountInv ==
  ASSUME Types, RoomInv, RingFrontInv, CountInv, Core0
  PROVE  CountInv'
<1> SUFFICES ASSUME Calm' PROVE CountInv'
  BY DEF CountInv
<1>1. Calm /\ UNCHANGED <<pc1, dropped>> /\ InDrop' = InDrop
  BY Core0Leaves, Core0Calm DEF InDrop, Dropping, core1
<1>2. delivered \in Seq(Delivery) /\ inFlight \in Nat /\ rec1.time \in Nat /\ logged[1] \in Nat
      /\ dropped \in Nat /\ rd \in Position
  BY DEF Types, TypeOK, Record, NoRecord
<1>3. CASE ~ReadStore
  <2>1. /\ UNCHANGED <<buf, rd, wr, pc1>> /\ logged'[1] = logged[1]
        /\ \/ UNCHANGED delivered
           \/ TakeLocal(rec1.time)
           \/ TakeLocal(inFlight)
    BY <1>3, Core0Else
  <2>2. NextN' = NextN
    BY <2>1 DEF NextN
  <2>3. Replied' = Replied /\ \A i \in Replied : delivered'[i] = delivered[i]
    <3>1. CASE UNCHANGED delivered
      BY <3>1 DEF Replied
    <3>2. CASE ~UNCHANGED delivered
      <4>1. PICK d \in Delivery : d.core = 0 /\ delivered' = Append(delivered, d)
        BY <1>2, <2>1, <3>2, LocalTaken
      <4>2. QED
        BY <1>2, <4>1, RepliedMore, RepliedFinite
    <3>3. QED
      BY <3>1, <3>2
  <2>4. Cardinality(Replied') + dropped' + 1 = NextN' + InDrop'
    BY <1>1, <2>2, <2>3 DEF CountInv
  <2>5. \A i \in Replied' : delivered'[i].n < NextN'
    BY <1>1, <2>2, <2>3 DEF CountInv
  <2>6. \A i, j \in Replied' : i < j => delivered'[i].n < delivered'[j].n
    BY <1>1, <2>3 DEF CountInv
  <2>7. QED
    BY <2>4, <2>5, <2>6 DEF CountInv
<1>4. CASE ReadStore
  <2>1. /\ rd # wr /\ wr' = wr /\ UNCHANGED <<buf, rec1, logged>> /\ CellInv(rd)
        /\ rd' = wr => Newest(buf[rd])
        /\ rd' # wr => FollowedBy(buf[rd], buf[rd'])
        /\ \/ ~Whole(buf[rd]) /\ UNCHANGED delivered
           \/ /\ Whole(buf[rd])
              /\ delivered' = Append(delivered,
                    [core |-> 1, n |-> buf[rd].rec.n, time |-> buf[rd].rec.time,
                     inFlight |-> inFlight, kept |-> TRUE])
    BY <1>1, <1>4, ReadStep DEF RingFrontInv
  <2>2. NextN = buf[rd].rec.n /\ NextN \in Nat
    BY <1>1, <2>1, NextNNat DEF NextN, RingFrontInv
  <2>3. CASE ~Whole(buf[rd])
    <3>1. UNCHANGED delivered /\ Replied' = Replied
      BY <2>1, <2>3 DEF Replied
    <3>2. buf[rd] \in Cell
      BY <1>2 DEF Types, TypeOK
    <3>3. NextN' = NextN
      <4>1. CASE rd' # wr
        BY <2>1, <2>2, <2>3, <3>2, <4>1 DEF NextN, FollowedBy, Cell
      <4>2. CASE rd' = wr
        <5>1. done1 > 0 /\ buf[rd].rec = rec1
          BY <2>1, <2>3, <4>2 DEF Newest
        <5>2. pc1 # "idle" /\ rec1.n = logged[1]
          BY <5>1 DEF Types, Core1Counters
        <5>3. QED
          BY <1>1, <2>1, <2>2, <4>2, <5>1, <5>2 DEF NextN
      <4>3. QED
        BY <4>1, <4>2
    <3>4. QED
      BY <1>1, <3>1, <3>3 DEF CountInv
  <2>4. CASE Whole(buf[rd])
    <3> DEFINE d == [core |-> 1, n |-> buf[rd].rec.n, time |-> buf[rd].rec.time,
                     inFlight |-> inFlight, kept |-> TRUE]
               m == Len(delivered) + 1
               c == Cardinality(Replied)
    <3>1. d \in Delivery /\ d.core = 1 /\ d.kept /\ d.n = NextN
      BY <1>2, <2>1, <2>2 DEF Delivery, CellInv, Record
    <3>2. delivered' = Append(delivered, d)
      BY <2>1, <2>4
    <3> HIDE DEF d
    <3>3. /\ Replied' = Replied \cup {m} /\ delivered'[m] = d
          /\ \A i \in 1..Len(delivered) : delivered'[i] = delivered[i]
      BY <1>2, <3>1, <3>2, RepliedMore
    <3>4. /\ IsFiniteSet(Replied) /\ c \in Nat /\ m \notin Replied
          /\ Replied \subseteq 1..Len(delivered) /\ Len(delivered) \in Nat
      BY <1>2, RepliedFinite
    <3>5. Cardinality(Replied') = c + 1
      BY <3>3, <3>4, FS_AddElement
    <3>6. NextN' = NextN + 1
      <4>1. CASE rd' # wr
        BY <2>1, <2>2, <2>4, <4>1 DEF NextN, FollowedBy
      <4>2. CASE rd' = wr
        <5>1. done1 = 0
          <6>1. SUFFICES ASSUME done1 > 0 PROVE FALSE
            BY DEF Types, TypeOK
          <6>2. done1 = Weight(rec1)
            BY <2>1, <2>4, <4>2, <6>1 DEF Newest, Whole
          <6>3. pc1 = "write"
            BY <1>1, <6>1 DEF Types, TypeOK, Core1Counters, RoomInv, Calm
          <6>4. QED
            BY <6>2, <6>3, Weights DEF Types, TypeOK, Core1Counters
        <5>2. buf[rd].rec.n = LastWritten
          BY <2>1, <4>2, <5>1 DEF Newest
        <5>3. QED
          BY <1>1, <1>2, <2>1, <2>2, <4>2, <5>2 DEF NextN, LastWritten
      <4>3. QED
        BY <4>1, <4>2
    <3>7. c + dropped + 1 = NextN + InDrop
      BY <1>1 DEF CountInv
    <3>8. Cardinality(Replied') + dropped' + 1 = NextN' + InDrop'
      <4>1. InDrop \in Nat
        BY DEF InDrop
      <4> HIDE DEF c
      <4>2. QED
        <5>1. dropped' = dropped /\ InDrop' = InDrop
          BY <1>1
        <5>2. c \in Nat /\ dropped \in Nat /\ NextN \in Nat
          BY <1>2, <2>2, <3>4
        <5>3. c + 1 + dropped + 1 = (NextN + 1) + InDrop
          BY <3>7, <4>1, <5>2
        <5>4. QED
          BY <3>5, <3>6, <5>1, <5>3
    <3>9. \A i \in Replied : delivered'[i].n < NextN /\ i < m /\ i \in Nat /\ delivered'[i].n \in Nat
      <4>1. \A i \in Replied : delivered[i].n < NextN /\ delivered[i].n \in Nat
        BY <1>1, <1>2, RepliedFinite DEF CountInv
      <4>2. QED
        BY <3>3, <3>4, <4>1
    <3>10. \A i \in Replied' : delivered'[i].n < NextN'
      <4>1. \A i \in Replied : delivered'[i].n < NextN'
        BY <2>2, <3>6, <3>9
      <4>2. delivered'[m].n < NextN'
        BY <2>2, <3>1, <3>3, <3>6
      <4>3. QED
        BY <3>3, <4>1, <4>2
    <3>11. \A i, j \in Replied' : i < j => delivered'[i].n < delivered'[j].n
      <4>1. SUFFICES ASSUME NEW i \in Replied', NEW j \in Replied', i < j
                     PROVE  delivered'[i].n < delivered'[j].n
        OBVIOUS
      <4>2. CASE i \in Replied /\ j \in Replied
        BY <1>1, <3>3, <3>4, <4>1, <4>2 DEF CountInv
      <4>3. CASE i \in Replied /\ j = m
        BY <3>1, <3>3, <3>9, <4>3
      <4>4. CASE i = m
        BY <3>3, <3>4, <3>9, <4>1, <4>4
      <4>5. QED
        BY <3>3, <4>2, <4>3, <4>4
    <3>12. QED
      BY <3>8, <3>10, <3>11 DEF CountInv
  <2>5. QED
    BY <2>3, <2>4
<1>5. QED
  BY <1>3, <1>4

LEMMA InitCount == Init => CountInv
<1> SUFFICES ASSUME Init PROVE CountInv
  OBVIOUS
<1>1. Replied = {} /\ dropped = 0 /\ NextN = 1 /\ InDrop = 0
  BY DEF Init, Replied, NextN, InDrop, Dropping
<1>2. QED
  BY <1>1, FS_EmptySet DEF CountInv

LEMMA NextCount == Types /\ RoomInv /\ RingFrontInv /\ CountInv /\ [Next]_vars => CountInv'
<1> SUFFICES ASSUME Types, RoomInv, RingFrontInv, CountInv, [Next]_vars PROVE CountInv'
  OBVIOUS
<1>1. CASE UNCHANGED vars
  BY <1>1 DEF vars, ring, core1, core0, history, CountInv, Calm, NextN, InDrop, Dropping, Replied
<1>2. QED
  BY <1>1, Core1CountInv, Core0CountInv DEF Next

(* FramedUnlessRaced, of the logs of core 1: the two cores may write and read *)
(* the ring at the same time and still every record comes out whole, once    *)
(* and in order, or is counted in dropped_logs, as long as core 1 drops       *)
(* nothing while core 0 reads the ring and core 0 has never caught up with   *)
(* a record being written (~caughtUp); nothing is said after that.          *)
THEOREM RecordsFramed == Spec => []FramedUnlessRaced
<1> DEFINE Inv == Types /\ RoomInv /\ RingFrontInv /\ CountInv
<1>1. Init => Inv
  BY InitTypes, InitRoom, InitRingFront, InitCount
<1>2. Inv /\ [Next]_vars => Inv'
  BY NextTypes, NextRoom, NextRingFront, NextCount
<1>3. Inv => FramedUnlessRaced
  <2> SUFFICES ASSUME Inv, Calm, pc1 = "idle", pc0 \notin {"read", "readStore"}
               PROVE  /\ rd # wr => buf[rd].part = 1
                      /\ \A p \in Position : InRing(p) =>
                           IF Following(p) = wr
                           THEN Whole(buf[p]) /\ buf[p].rec.n = logged[1]
                           ELSE FollowedBy(buf[p], buf[Following(p)])
                      /\ Cardinality(Replied) + dropped
                           = IF rd = wr THEN logged[1] ELSE buf[rd].rec.n - 1
                      /\ \A i, j \in Replied : i < j => delivered[i].n < delivered[j].n
    BY DEF FramedUnlessRaced, Calm
  <2>1. Removed = 0 /\ done1 = 0 /\ ~Dropping /\ LastWritten = logged[1]
    BY DEF Removed, Dropping, Types, Core1Counters, LastWritten
  <2>2. rd # wr => buf[rd].part = 1
    BY <2>1 DEF RingFrontInv, FrontInv
  <2>3. ASSUME NEW p \in Position, InRing(p)
        PROVE  IF Following(p) = wr
               THEN Whole(buf[p]) /\ buf[p].rec.n = logged[1]
               ELSE FollowedBy(buf[p], buf[Following(p)])
    BY <2>1, <2>3 DEF RingFrontInv, RingInv, CellInv, Newest
  <2>4. Cardinality(Replied) + dropped = IF rd = wr THEN logged[1] ELSE buf[rd].rec.n - 1
    <3>1. Cardinality(Replied) + dropped + 1 = NextN
      <4>1. NextN \in Nat /\ InDrop = 0
        BY <2>1, NextNNat DEF InDrop, RingFrontInv
      <4>2. QED
        BY <4>1 DEF CountInv
    <3>2. Cardinality(Replied) \in Nat /\ dropped \in Nat /\ logged[1] \in Nat
      BY RepliedFinite DEF Types, TypeOK
    <3>3. NextN - 1 = IF rd = wr THEN logged[1] ELSE buf[rd].rec.n - 1
      BY <3>2 DEF NextN
    <3> DEFINE c == Cardinality(Replied)
    <3> HIDE DEF c
    <3>4. c \in Nat /\ c + dropped + 1 = NextN
      BY <3>1, <3>2 DEF c
    <3>5. c + dropped = NextN - 1
      BY <3>2, <3>4
    <3>6. QED
      BY <3>3, <3>5 DEF c
  <2>5. QED
    BY <2>2, <2>3, <2>4 DEF CountInv
<1>4. QED
  BY <1>1, <1>2, <1>3, PTL DEF Spec

-----------------------------------------------------------------------------
(* The order of the times.                                                  *)

(* How a step changes the ring: not at all, by its first cell, or by one      *)
(* cell at its end.                                                         *)
LEMMA RingMoves ==
  ASSUME Types, RoomInv, RingFrontInv, Calm', Next
  PROVE  /\ Calm
         /\ \/ /\ UNCHANGED <<buf, rd, wr>> /\ \A p \in Position : InRing(p)' <=> InRing(p)
            \/ /\ DropStore \/ ReadStore
               /\ rd # wr /\ rd' = Following(rd) /\ UNCHANGED <<buf, wr>>
               /\ \A p \in Position : InRing(p)' <=> InRing(p) /\ p # rd
            \/ /\ Write /\ rd' = rd /\ rec1 \in Record /\ pc1 = "write"
               /\ \A p \in Position : InRing(p)' <=> InRing(p) \/ p = wr
               /\ \A p \in Position : InRing(p) => p # wr /\ buf'[p] = buf[p]
               /\ buf'[wr] = [rec |-> rec1, part |-> done1 + 1]
<1>1. Calm
  BY Core1Calm, Core0Calm DEF Next
<1>2. CASE DropStore
  BY <1>1, <1>2, DropStep DEF RingFrontInv
<1>3. CASE ReadStore
  BY <1>1, <1>3, ReadStep DEF RingFrontInv
<1>4. CASE Write
  BY <1>1, <1>4, WriteStep DEF RingFrontInv
<1>5. CASE ~DropStore /\ ~ReadStore /\ ~Write
  <2>1. UNCHANGED <<buf, rd, wr>>
    BY <1>5 DEF Next, Core1, Core0, Log1, EnsureRoom, DropFetch, Log0, GetLogs, Dequeue, Peek,
       ReadFetch, ring
  <2>2. \A p \in Position : InRing(p)' <=> InRing(p)
    BY <2>1 DEF InRing, Length
  <2>3. QED
    BY <1>1, <2>1, <2>2
<1>6. QED
  BY <1>2, <1>3, <1>4, <1>5

(* The times in the ring grow.                                              *)
MonotoneInv == Calm =>
  \A p, q \in Position :
    InRing(p) /\ InRing(q) /\ Length(rd, p) <= Length(rd, q) => buf[p].rec.time <= buf[q].rec.time

LEMMA FirstIsOldest ==
  ASSUME Types, Calm, MonotoneInv, NEW p \in Position, InRing(p)
  PROVE  rd # wr /\ InRing(rd) /\ rd \in Position /\ buf[rd].rec.time <= buf[p].rec.time
<1>1. rd \in Position /\ wr \in Position
  BY DEF Types, TypeOK
<1>2. rd # wr /\ InRing(rd)
  BY <1>1, Ring, InRingIn
<1>3. Length(rd, rd) = 0 /\ Length(rd, p) \in Nat
  BY <1>1, Lengths
<1>4. Length(rd, rd) <= Length(rd, p)
  BY <1>3
<1>5. QED
  BY <1>1, <1>2, <1>4 DEF MonotoneInv

LEMMA NextMonotone ==
  ASSUME Types, RoomInv, RingFrontInv, MonotoneInv, Next
  PROVE  MonotoneInv'
<1> SUFFICES ASSUME Calm', NEW p \in Position, NEW q \in Position, InRing(p)', InRing(q)',
                    Length(rd', p) <= Length(rd', q)
             PROVE  buf'[p].rec.time <= buf'[q].rec.time
  BY DEF MonotoneInv, Length
<1>1. Calm /\ rd \in Position /\ wr \in Position
  BY RingMoves DEF Types, TypeOK
<1>2. CASE UNCHANGED <<buf, rd, wr>> /\ \A s \in Position : InRing(s)' <=> InRing(s)
  BY <1>1, <1>2 DEF MonotoneInv
<1>3. CASE /\ rd # wr /\ rd' = Following(rd) /\ UNCHANGED <<buf, wr>>
           /\ \A s \in Position : InRing(s)' <=> InRing(s) /\ s # rd
  <2>1. InRing(p) /\ InRing(q) /\ p # rd /\ q # rd
    BY <1>3
  <2>2. /\ Length(rd', p) = Length(rd, p) - 1 /\ Length(rd, p) \in Nat
        /\ Length(rd', q) = Length(rd, q) - 1 /\ Length(rd, q) \in Nat
    BY <1>1, <1>3, <2>1, Lengths
  <2>3. Length(rd, p) <= Length(rd, q)
    BY <2>2
  <2>4. QED
    BY <1>1, <1>3, <2>1, <2>3 DEF MonotoneInv
<1>4. CASE /\ rd' = rd /\ rec1 \in Record /\ pc1 = "write"
           /\ \A s \in Position : InRing(s)' <=> InRing(s) \/ s = wr
           /\ \A s \in Position : InRing(s) => s # wr /\ buf'[s] = buf[s]
           /\ buf'[wr] = [rec |-> rec1, part |-> done1 + 1]
  <2>1. rec1.time \in Nat
    BY <1>4 DEF Record
  <2>2. CASE InRing(p) /\ InRing(q)
    BY <1>1, <1>4, <2>2 DEF MonotoneInv
  <2>3. CASE InRing(p) /\ q = wr
    <3>1. CellInv(p) /\ buf'[p] = buf[p]
      BY <1>1, <1>4, <2>3 DEF RingFrontInv, RingInv
    <3>2. buf[p].rec.time \in Nat /\ (buf[p].rec = rec1 \/ buf[p].rec.time < rec1.time)
      BY <1>4, <3>1 DEF CellInv, Record
    <3>3. QED
      BY <1>4, <2>1, <2>3, <3>1, <3>2
  <2>4. CASE p = wr /\ q = wr
    BY <1>4, <2>1, <2>4
  <2>5. CASE p = wr /\ InRing(q)
    <3>1. Length(rd, wr) \in Nat /\ Length(rd, q) \in Nat
      BY <1>1, Lengths
    <3>2. QED
      BY <1>4, <2>5, <3>1 DEF InRing
  <2>6. QED
    BY <1>4, <2>2, <2>3, <2>4, <2>5
<1>5. QED
  BY <1>2, <1>3, <1>4, RingMoves

(* ... and so do those of the records of core 0.                            *)
LocalInv ==
  /\ \A j \in DOMAIN local : local[j].time < clock
  /\ \A i, j \in DOMAIN local : i < j => local[i].time < local[j].time

LEMMA LocalTimes ==
  ASSUME Types
  PROVE  /\ local \in Seq(Record)
         /\ \A j \in DOMAIN local : local[j] \in Record /\ local[j].time \in Nat
<1>1. local \in Seq(Record)
  BY DEF Types, TypeOK
<1>2. \A j \in DOMAIN local : local[j] \in Record
  BY <1>1
<1>3. \A r \in Record : r.time \in Nat
  BY DEF Record
<1>4. QED
  BY <1>1, <1>2, <1>3

(* What is in the ring of core 0 was there, further back, or is new.        *)
LEMMA LocalMoves ==
  ASSUME Types, Next
  PROVE  \E k \in Nat : \A j \in DOMAIN local' :
           /\ j \in Nat
           /\ \/ j + k \in DOMAIN local /\ local'[j] = local[j + k]
              \/ /\ \A i \in DOMAIN local' : i <= j
                 /\ local'[j].time = clock /\ clock' = clock + 1 /\ pc0 = "idle"
<1>1. local \in Seq(Record)
  BY DEF Types, TypeOK
<1>2. CASE UNCHANGED local
  <2>1. \A j \in DOMAIN local' : j \in Nat /\ j + 0 \in DOMAIN local /\ local'[j] = local[j + 0]
    BY <1>1, <1>2
  <2>2. QED
    BY <2>1
<1>3. CASE local # << >> /\ local' = Tail(local)
  <2>1. DOMAIN local = 1..Len(local) /\ Len(local) \in Nat \ {0}
    BY <1>1, <1>3
  <2>2. Len(Tail(local)) = Len(local) - 1 /\ Tail(local) \in Seq(Record)
        /\ \A j \in 1..Len(local) - 1 : Tail(local)[j] = local[j + 1]
    BY <1>1, <1>3
  <2>3. DOMAIN local' = 1..Len(local) - 1
    BY <1>3, <2>1, <2>2
  <2>4. \A j \in DOMAIN local' : j \in Nat /\ j + 1 \in DOMAIN local /\ local'[j] = local[j + 1]
    BY <1>3, <2>1, <2>2, <2>3
  <2>5. QED
    BY <2>4
<1>4. CASE \E len \in Body : Log0(len)
  <2>1. clock' = clock + 1 /\ pc0 = "idle"
    BY <1>4 DEF Log0
  <2>2. PICK k \in 0..Len(local), r \in Record :
          r.time = clock /\ local' = Append(SubSeq(local, k + 1, Len(local)), r)
    BY <1>4, Log0Room
  <2> DEFINE m == Len(local)
             s == SubSeq(local, k + 1, m)
  <2>3. m \in Nat /\ k \in Nat /\ k <= m /\ DOMAIN local = 1..m
    BY <1>1
  <2>4. s \in Seq(Record) /\ Len(s) = m - k /\ \A j \in 1..m - k : s[j] = local[j + k]
    <3>1. /\ k + 1 \in 1..m + 1
      BY <2>3
    <3>2. \A i \in k + 1..m : i \in 1..m
      BY <2>3
    <3>3. s \in Seq(Record) /\ Len(s) = m - k
      <4>1. \A i \in k + 1..m : local[i] \in Record
        BY <1>1, <2>3, <3>2
      <4>2. s \in Seq(Record) /\ Len(s) = IF k + 1 <= m THEN m - (k + 1) + 1 ELSE 0
        BY <1>1, <2>3, <4>1, SubSeqProperties
      <4> HIDE DEF m, s
      <4>3. (IF k + 1 <= m THEN m - (k + 1) + 1 ELSE 0) = m - k
        BY <2>3
      <4>4. QED
        BY <4>2, <4>3
    <3>4. ASSUME NEW j \in 1..m - k PROVE s[j] = local[j + k]
      <4>1. s[j] = local[(k + 1) + j - 1]
        BY <1>1, <2>3, <3>1, SubSeqProperties
      <4>2. (k + 1) + j - 1 = j + k
        BY <2>3
      <4>3. QED
        BY <4>1, <4>2
    <3>5. QED
      BY <3>3, <3>4
  <2> HIDE DEF s, m
  <2>5. local' = Append(s, r)
    BY <2>2 DEF s, m
  <2>6. /\ local' \in Seq(Record) /\ Len(local') = m - k + 1 /\ local'[m - k + 1] = r
        /\ \A j \in 1..m - k : local'[j] = s[j]
    BY <2>3, <2>4, <2>5, AppendProperties
  <2>7. DOMAIN local' = 1..m - k + 1
    BY <2>6
  <2>8. ASSUME NEW j \in DOMAIN local'
        PROVE  /\ j \in Nat
               /\ \/ j + k \in DOMAIN local /\ local'[j] = local[j + k]
                  \/ (\A i \in DOMAIN local' : i <= j) /\ local'[j].time = clock
    <3>1. CASE j = m - k + 1
      <4>1. \A i \in DOMAIN local' : i <= j
        BY <2>3, <2>7, <3>1
      <4>2. local'[j].time = clock
        BY <2>2, <2>6, <3>1
      <4>3. QED
        BY <2>3, <3>1, <4>1, <4>2
    <3>2. CASE j # m - k + 1
      <4>1. j \in 1..m - k /\ j + k \in 1..m
        BY <2>3, <2>7, <3>2
      <4>2. QED
        BY <2>3, <2>4, <2>6, <4>1
    <3>3. QED
      BY <3>1, <3>2
  <2>9. QED
    BY <2>1, <2>3, <2>8
<1>5. UNCHANGED local \/ (local # << >> /\ local' = Tail(local)) \/ \E len \in Body : Log0(len)
  <2>1. CASE Dequeue
    <3>1. UNCHANGED local \/ TakeLocal(rec1.time)
      BY <2>1 DEF Dequeue
    <3>2. QED
      BY <3>1 DEF TakeLocal, NoLog
  <2>2. CASE Peek
    <3>1. UNCHANGED local \/ TakeLocal(inFlight)
      BY <2>2, ChooseTypes DEF Peek
    <3>2. QED
      BY <3>1 DEF TakeLocal, NoLog
  <2>3. CASE ReadFetch
    BY <2>3 DEF ReadFetch, NoLog, DeliverRemote
  <2>4. CASE ReadStore
    BY <2>4 DEF ReadStore, DeliverRemote
  <2>5. CASE GetLogs \/ Core1
    BY <2>5 DEF GetLogs, Core1, Log1, EnsureRoom, DropFetch, DropStore, Write
  <2>6. QED
    BY <2>1, <2>2, <2>3, <2>4, <2>5 DEF Next, Core0
<1>6. QED
  BY <1>2, <1>3, <1>4, <1>5

LEMMA ClockGrows ==
  ASSUME Types, Next
  PROVE  clock \in Nat /\ clock' \in Nat /\ clock <= clock'
<1>1. clock \in Nat
  BY DEF Types, TypeOK
<1>2. CASE Core0
  BY <1>2, Core0Leaves
<1>3. CASE Core1
  <2>1. clock' = clock \/ clock' = clock + 1
    BY <1>3 DEF Core1, Log1, EnsureRoom, DropFetch, DropStore, Write
  <2>2. QED
    BY <1>1, <2>1
<1>4. QED
  BY <1>2, <1>3 DEF Next

LEMMA NextLocal ==
  ASSUME Types, LocalInv, Next
  PROVE  LocalInv'
<1>1. PICK k \in Nat : \A j \in DOMAIN local' :
        /\ j \in Nat
        /\ \/ j + k \in DOMAIN local /\ local'[j] = local[j + k]
           \/ /\ \A i \in DOMAIN local' : i <= j
              /\ local'[j].time = clock /\ clock' = clock + 1 /\ pc0 = "idle"
  BY LocalMoves
<1>2. local \in Seq(Record) /\ clock \in Nat /\ clock' \in Nat /\ clock <= clock'
  BY ClockGrows DEF Types, TypeOK
<1>3. \A j \in DOMAIN local : local[j].time \in Nat
  BY LocalTimes
<1>4. ASSUME NEW j \in DOMAIN local' PROVE local'[j].time < clock'
  BY <1>1, <1>2, <1>3 DEF LocalInv
<1>5. ASSUME NEW i \in DOMAIN local', NEW j \in DOMAIN local', i < j
      PROVE  local'[i].time < local'[j].time
  <2>1. i \in Nat /\ j \in Nat /\ ~(j <= i)
    BY <1>1, <1>5
  <2>2. i + k \in DOMAIN local /\ local'[i] = local[i + k]
    BY <1>1, <2>1
  <2>3. CASE j + k \in DOMAIN local /\ local'[j] = local[j + k]
    <3>1. i + k < j + k
      BY <1>5, <2>1
    <3>2. QED
      BY <2>2, <2>3, <3>1 DEF LocalInv
  <2>4. CASE local'[j].time = clock
    BY <2>2, <2>4 DEF LocalInv
  <2>5. QED
    BY <1>1, <2>3, <2>4
<1>6. QED
  BY <1>4, <1>5 DEF LocalInv

(* The record of core 1 that core 0 is reading was the oldest, or was being   *)
(* written when try_dequeue_log began.                                      *)
FrontRec == IF rd # wr THEN buf[rd].rec ELSE rec1
ChosenInv == Calm /\ pc0 \in {"read", "readStore"} =>
  /\ rd = wr => cells0 # << >>
  /\ inFlight = FrontRec.time \/ \A j \in DOMAIN local : FrontRec.time < local[j].time

LEMMA FirstOfLocal ==
  ASSUME Types, LocalInv, local # << >>
  PROVE  /\ Head(local) = local[1] /\ 1 \in DOMAIN local /\ Head(local).time \in Nat
         /\ \A j \in DOMAIN local : Head(local).time <= local[j].time /\ local[j].time \in Nat
<1>1. local \in Seq(Record)
  BY DEF Types, TypeOK
<1>2. Head(local) = local[1] /\ DOMAIN local = 1..Len(local) /\ Len(local) \in Nat \ {0}
  BY <1>1
<1>3. \A j \in DOMAIN local : local[j].time \in Nat
  BY LocalTimes
<1>4. 1 \in DOMAIN local
  BY <1>2
<1>5. ASSUME NEW j \in DOMAIN local PROVE local[1].time <= local[j].time
  <2>1. CASE j = 1
    BY <1>3, <2>1
  <2>2. CASE j # 1
    <3>1. 1 < j
      BY <1>2, <2>2
    <3>2. QED
      BY <1>3, <1>4, <3>1 DEF LocalInv
  <2>3. QED
    BY <2>1, <2>2
<1>6. QED
  BY <1>2, <1>3, <1>4, <1>5

(* Looking at the two headers tells which of the two records is older, unless *)
(* that of core 1 was being written.                                        *)
LEMMA ChooseStep ==
  ASSUME Types, RoomInv, RingFrontInv, LocalInv, Calm', Peek, pc0' # "peek"
  PROVE  /\ Calm /\ UNCHANGED <<buf, rd, wr, rec1, pc1>> /\ rd # wr /\ InRing(rd) /\ CellInv(rd)
         /\ \/ /\ pc0' = "read" /\ UNCHANGED <<local, delivered, inFlight>>
               /\ \/ buf[rd].rec = rec1 /\ inFlight = rec1.time
                  \/ \A j \in DOMAIN local : buf[rd].rec.time < local[j].time
            \/ /\ TakeLocal(inFlight) /\ local # << >> /\ pc0' \notin {"read", "readStore"}
               /\ \/ buf[rd].rec = rec1 /\ inFlight = rec1.time
                  \/ ~(buf[rd].rec.time < Head(local).time)
<1>1. /\ UNCHANGED <<buf, rd, wr, rec1, pc1>> /\ Calm /\ rd # wr /\ InRing(rd)
      /\ cells0[1].rec = buf[rd].rec
      /\ IsHeader(cells0) \/ (buf[rd].rec = rec1 /\ inFlight = rec1.time)
      /\ Choose
  BY PeekStep DEF RingFrontInv
<1>2. CellInv(rd) /\ buf[rd].rec.time \in Nat
  BY <1>1, NextNNat DEF RingFrontInv, CellInv, Record
<1> DEFINE times == IF IsHeader(cells0) THEN {cells0[1].rec.time} ELSE 0..clock
<1>3. PICK c \in Oldest(times) :
        IF c = 0
        THEN TakeLocal(inFlight)
        ELSE /\ pc0' = "read" /\ cells0' = << >> /\ left0' = Header /\ reg0' = 0
             /\ UNCHANGED <<local, space, delivered, inFlight>>
  BY <1>1 DEF Choose
<1>4. CASE c = 0
  <2>1. TakeLocal(inFlight) /\ pc0' \notin {"read", "readStore"}
    BY <1>3, <1>4, TakeLocalEnds
  <2>2. local # << >>
    BY <1>4 DEF Oldest
  <2>3. IsHeader(cells0) => ~(buf[rd].rec.time < Head(local).time)
    BY <1>1, <1>4, <2>2 DEF Oldest
  <2>4. QED
    BY <1>1, <1>2, <2>1, <2>2, <2>3
<1>5. CASE c # 0
  <2>1. pc0' = "read" /\ UNCHANGED <<local, delivered, inFlight>>
    BY <1>3, <1>5
  <2>2. IsHeader(cells0) => \A j \in DOMAIN local : buf[rd].rec.time < local[j].time
    <3>1. CASE local = << >>
      BY <3>1
    <3>2. CASE local # << >>
      <4>1. IsHeader(cells0) => buf[rd].rec.time < Head(local).time
        BY <1>1, <1>5, <3>2 DEF Oldest
      <4>2. QED
        BY <1>2, <3>2, <4>1, FirstOfLocal
    <3>3. QED
      BY <3>1, <3>2
  <2>3. QED
    BY <1>1, <1>2, <2>1, <2>2
<1>6. QED
  BY <1>4, <1>5

LEMMA NextChosen ==
  ASSUME Types, RoomInv, RingFrontInv, LocalInv, ChosenInv, Next
  PROVE  ChosenInv'
<1> SUFFICES ASSUME Calm', pc0' \in {"read", "readStore"} PROVE ChosenInv'
  BY DEF ChosenInv
<1>1. Calm /\ rd \in Position /\ wr \in Position /\ buf \in [Position -> Cell]
  BY RingMoves DEF Types, TypeOK
<1>2. ASSUME pc0 \in {"read", "readStore"}, UNCHANGED <<local, inFlight>>,
             rd' = wr' => cells0' # << >>, FrontRec' = FrontRec
      PROVE  ChosenInv'
  BY <1>1, <1>2 DEF ChosenInv
<1>3. CASE Core1
  <2>1. UNCHANGED <<pc0, cells0, local, inFlight>> /\ Reading /\ pc0 \in {"read", "readStore"}
    BY <1>3, Core1Calm DEF Reading
  <2>2. ~Dropping
    BY <1>1, <2>1 DEF RoomInv, Calm
  <2>3. /\ rd' = rd
        /\ \A p \in Position : InRing(p) => InRing(p)' /\ buf'[p] = buf[p]
    BY <1>1, <1>3, <2>2, Core1Adds DEF RingFrontInv
  <2>4. CASE rd # wr
    <3>1. InRing(rd) /\ buf'[rd] = buf[rd]
      BY <1>1, <2>3, <2>4, Ring, InRingIn
    <3>2. rd' # wr'
      <4>1. PICK p \in Position : p = rd
        BY <1>1
      <4>2. InRing(p)'
        BY <2>3, <3>1, <4>1
      <4>3. In(rd', wr', p)
        BY <4>2 DEF InRing, In
      <4>4. rd' \in Position /\ wr' \in Position
        BY <1>3, Core1Types DEF Types, TypeOK
      <4>5. QED
        BY <4>3, <4>4, Ring
    <3>3. FrontRec' = FrontRec
      BY <2>3, <2>4, <3>1, <3>2 DEF FrontRec
    <3>4. QED
      BY <1>2, <2>1, <3>2, <3>3
  <2>5. CASE rd = wr
    <3>1. pc0 = "read" /\ cells0 # << >>
      BY <1>1, <2>1, <2>5 DEF RoomInv, Calm, ChosenInv
    <3>2. done1 > 0
      <4>1. Removed = Len(cells0) /\ Len(cells0) > 0
        BY <3>1 DEF Removed, Types, TypeOK
      <4>2. QED
        BY <1>1, <2>5, <4>1 DEF RingFrontInv, FrontInv
    <3>3. pc1 = "write"
      BY <1>1, <3>2 DEF Types, TypeOK, Core1Counters, RoomInv, Calm
    <3>4. Write
      BY <1>3, <3>3 DEF Core1, Log1, EnsureRoom, DropFetch, DropStore
    <3>5. Following(wr) # rd /\ wr' = Following(wr) /\ buf'[wr] = [rec |-> rec1, part |-> done1 + 1]
      BY <1>1, <3>4, WriteStep DEF RingFrontInv
    <3>6. rd' # wr' /\ FrontRec' = FrontRec
      BY <2>3, <2>5, <3>5 DEF FrontRec
    <3>7. QED
      BY <1>2, <2>1, <3>6
  <2>6. QED
    BY <2>4, <2>5
<1>4. CASE ReadFetch
  <2>1. Core0
    BY <1>4 DEF Core0
  <2>2. rd # wr
    BY <1>4, <2>1, Core0Calm
  <2>3. UNCHANGED <<buf, rd, wr, local, inFlight>> /\ pc0 = "read"
    BY <1>4, <2>2 DEF ReadFetch, ring
  <2>4. FrontRec' = FrontRec
    BY <2>2, <2>3 DEF FrontRec
  <2>5. QED
    BY <1>2, <2>2, <2>3, <2>4
<1>5. CASE ReadStore
  <2>1. /\ rd # wr /\ wr' = wr /\ UNCHANGED <<buf, rec1, local, inFlight>> /\ ~Whole(buf[rd])
        /\ cells0' = cells0 /\ Len(cells0) \in Nat \ {0}
        /\ rd' = wr => Newest(buf[rd])
        /\ rd' # wr => FollowedBy(buf[rd], buf[rd'])
    BY <1>1, <1>5, ReadStep DEF RingFrontInv, ReadStore
  <2>2. cells0' # << >>
    BY <2>1
  <2>3. buf[rd] \in Cell
    BY <1>1
  <2>4. FrontRec' = FrontRec
    BY <2>1, <2>3 DEF FrontRec, FollowedBy, Newest, Cell
  <2>5. pc0 = "readStore"
    BY <1>5 DEF ReadStore
  <2>6. QED
    BY <1>2, <2>1, <2>2, <2>4, <2>5
<1>6. CASE Peek
  <2>1. /\ UNCHANGED <<buf, rd, wr, local, inFlight>> /\ rd # wr
        /\ \/ buf[rd].rec = rec1 /\ inFlight = rec1.time
           \/ \A j \in DOMAIN local : buf[rd].rec.time < local[j].time
    <3>1. pc0' # "peek"
      OBVIOUS
    <3>2. QED
      BY <1>6, <3>1, ChooseStep
  <2>2. QED
    BY <2>1 DEF ChosenInv, FrontRec
<1>7. CASE (\E len \in Body : Log0(len)) \/ GetLogs \/ Dequeue
  <2>1. Dequeue => pc0' \in {"peek", "idle", "dequeue"}
    BY TakeLocalEnds DEF Dequeue
  <2>2. QED
    BY <1>7, <2>1 DEF Log0, GetLogs, core0
<1>8. QED
  BY <1>3, <1>4, <1>5, <1>6, <1>7 DEF Next, Core0

(* A record delivered does not come before an earlier one of its own core,    *)
(* nor of the other one but when core 1 was writing either meanwhile.        *)
Late(d, core, t) == t < d.time => d.core # core /\ d.inFlight \in {d.time, t}
Settled(d) ==
  /\ d.time < clock
  /\ \A p \in Position : InRing(p) => Late(d, 1, buf[p].rec.time)
  /\ pc1 # "idle" => Late(d, 1, rec1.time)
  /\ \A j \in DOMAIN local : Late(d, 0, local[j].time)
OrderInv == Calm => \A i \in DOMAIN delivered :
  /\ Settled(delivered[i])
  /\ \A j \in DOMAIN delivered :
       i < j => Late(delivered[i], delivered[j].core, delivered[j].time)

LEMMA SettledStays ==
  ASSUME Types, RoomInv, RingFrontInv, Calm', Next, NEW d \in Delivery, Settled(d)
  PROVE  Settled(d)'
<1>1. /\ clock \in Nat /\ clock' \in Nat /\ clock <= clock' /\ d.time \in Nat /\ d.time < clock
      /\ rd \in Position /\ wr \in Position
  BY ClockGrows DEF Delivery, Settled, Types, TypeOK
<1>2. ASSUME NEW p \in Position, InRing(p)' PROVE Late(d, 1, buf'[p].rec.time)
  <2>1. CASE InRing(p) /\ buf'[p] = buf[p]
    BY <2>1 DEF Settled
  <2>2. CASE pc1 = "write" /\ buf'[p].rec = rec1
    BY <2>2 DEF Settled
  <2>3. (InRing(p) /\ buf'[p] = buf[p]) \/ (pc1 = "write" /\ buf'[p].rec = rec1)
    BY <1>2, RingMoves
  <2>4. QED
    BY <2>1, <2>2, <2>3
<1>3. ASSUME pc1' # "idle" PROVE Late(d, 1, rec1'.time)
  <2>1. CASE pc1 # "idle" /\ rec1' = rec1
    BY <2>1 DEF Settled
  <2>2. CASE rec1'.time = clock
    BY <1>1, <2>2 DEF Late
  <2>3. (pc1 # "idle" /\ rec1' = rec1) \/ rec1'.time = clock
    <3>1. CASE Core0
      BY <1>3, <3>1, Core0Leaves DEF core1
    <3>2. CASE Core1
      BY <1>3, <3>2 DEF Core1, Log1, EnsureRoom, DropFetch, DropStore, Write
    <3>3. QED
      BY <3>1, <3>2 DEF Next
  <2>4. QED
    BY <2>1, <2>2, <2>3
<1>4. ASSUME NEW j \in DOMAIN local' PROVE Late(d, 0, local'[j].time)
  <2>1. PICK k \in Nat : \/ j + k \in DOMAIN local /\ local'[j] = local[j + k]
                         \/ local'[j].time = clock
    BY LocalMoves
  <2>2. CASE j + k \in DOMAIN local /\ local'[j] = local[j + k]
    BY <2>2 DEF Settled
  <2>3. CASE local'[j].time = clock
    BY <1>1, <2>3 DEF Late
  <2>4. QED
    BY <2>1, <2>2, <2>3
<1>5. QED
  BY <1>1, <1>2, <1>3, <1>4 DEF Settled, Late

(* What try_dequeue_log returns is settled, and settled with what it returned *)
(* before.                                                                  *)
LEMMA NewSettled ==
  ASSUME Types, RoomInv, RingFrontInv, MonotoneInv, LocalInv, ChosenInv, Calm', Core0,
         ~UNCHANGED delivered
  PROVE  \E d \in Delivery :
           /\ delivered' = Append(delivered, d) /\ Settled(d)
           /\ \A e \in Delivery : Settled(e) => Late(e, d.core, d.time)
<1>1. Calm /\ inFlight \in Nat /\ rec1.time \in Nat /\ rd \in Position /\ wr \in Position
  BY Core0Calm DEF Types, TypeOK, Record, NoRecord
<1>2. CASE ReadStore
  <2> DEFINE d == [core |-> 1, n |-> buf[rd].rec.n, time |-> buf[rd].rec.time,
                   inFlight |-> inFlight, kept |-> TRUE]
  <2>1. rd # wr /\ CellInv(rd) /\ delivered' = Append(delivered, d)
    BY <1>1, <1>2, ReadStep DEF RingFrontInv
  <2>2. d \in Delivery /\ buf[rd].rec.time \in Nat /\ InRing(rd)
    BY <1>1, <2>1, NextNNat DEF RingFrontInv, CellInv, Delivery, Record
  <2>3. d.core = 1 /\ d.time = buf[rd].rec.time /\ d.inFlight = inFlight
    OBVIOUS
  <2> HIDE DEF d
  <2>4. d.time < clock
    BY <2>1, <2>3 DEF CellInv
  <2>5. ASSUME NEW p \in Position, InRing(p) PROVE Late(d, 1, buf[p].rec.time)
    <3>1. buf[rd].rec.time <= buf[p].rec.time /\ CellInv(p)
      BY <1>1, <2>5, FirstIsOldest DEF RingFrontInv, RingInv
    <3>2. buf[p].rec.time \in Nat
      BY <3>1 DEF CellInv, Record
    <3>3. QED
      BY <2>2, <2>3, <3>1, <3>2 DEF Late
  <2>6. pc1 # "idle" => Late(d, 1, rec1.time)
    BY <1>1, <2>1, <2>2, <2>3 DEF Late, CellInv
  <2>7. ASSUME NEW j \in DOMAIN local PROVE Late(d, 0, local[j].time)
    <3>1. local[j].time \in Nat
      BY LocalTimes
    <3>2. FrontRec = buf[rd].rec /\ pc0 = "readStore"
      BY <1>2, <2>1 DEF FrontRec, ReadStore
    <3>3. inFlight = d.time \/ d.time < local[j].time
      BY <1>1, <2>3, <3>2 DEF ChosenInv
    <3>4. QED
      BY <2>2, <2>3, <3>1, <3>3 DEF Late
  <2>8. Settled(d)
    BY <2>4, <2>5, <2>6, <2>7 DEF Settled
  <2>9. \A e \in Delivery : Settled(e) => Late(e, d.core, d.time)
    BY <1>1, <2>2, <2>3 DEF Settled
  <2>10. QED
    BY <2>1, <2>2, <2>8, <2>9
<1>3. CASE ~ReadStore
  <2>1. PICK b \in Nat :
          /\ TakeLocal(b)
          /\ \/ rd = wr /\ b = rec1.time
             \/ rd # wr /\ Peek /\ b = inFlight
    <3>1. \/ Dequeue /\ rd = wr /\ TakeLocal(rec1.time)
          \/ Peek /\ TakeLocal(inFlight)
      BY <1>3, Core0Else
    <3>2. Peek => rd # wr
      BY PeekStep DEF RingFrontInv
    <3>3. QED
      BY <1>1, <3>1, <3>2
  <2>2. PICK kept \in BOOLEAN, d \in Delivery :
          /\ local # << >> /\ delivered' = Append(delivered, d)
          /\ d = [core |-> 0, n |-> Head(local).n, time |-> Head(local).time,
                  inFlight |-> b, kept |-> kept]
    BY <2>1, LocalTaken
  <2>3. d.core = 0 /\ d.time = Head(local).time /\ d.inFlight = b /\ d.time \in Nat
    BY <2>2, FirstOfLocal
  <2>4. /\ Head(local) = local[1] /\ 1 \in DOMAIN local
        /\ \A j \in DOMAIN local : Head(local).time <= local[j].time /\ local[j].time \in Nat
    BY <2>2, FirstOfLocal
  <2>5. d.time < clock
    BY <2>3, <2>4 DEF LocalInv
  <2>6. \A j \in DOMAIN local : Late(d, 0, local[j].time)
    BY <2>3, <2>4 DEF Late
  <2>7. /\ \A p \in Position : InRing(p) => Late(d, 1, buf[p].rec.time)
        /\ pc1 # "idle" => Late(d, 1, rec1.time)
    <3>1. CASE rd = wr
      <4>1. b = rec1.time /\ \A p \in Position : ~InRing(p)
        BY <1>1, <2>1, <3>1, Ring, InRingIn
      <4>2. QED
        BY <2>3, <4>1 DEF Late
    <3>2. CASE rd # wr
      <4>1. Peek /\ b = inFlight
        BY <2>1, <3>2
      <4>2. pc0' # "peek" /\ pc0' # "read"
        BY <2>1, TakeLocalEnds
      <4>3. /\ CellInv(rd) /\ InRing(rd)
            /\ \/ buf[rd].rec = rec1 /\ inFlight = rec1.time
               \/ ~(buf[rd].rec.time < Head(local).time)
        BY <4>1, <4>2, ChooseStep
      <4>4. /\ buf[rd].rec.time \in Nat
            /\ \A p \in Position : InRing(p) =>
                 buf[p].rec.time \in Nat /\ buf[rd].rec.time <= buf[p].rec.time /\ CellInv(p)
        <5>1. buf[rd].rec.time \in Nat
          BY <4>3 DEF CellInv, Record
        <5>2. ASSUME NEW p \in Position, InRing(p)
              PROVE  buf[p].rec.time \in Nat /\ buf[rd].rec.time <= buf[p].rec.time /\ CellInv(p)
          BY <1>1, <5>2, FirstIsOldest DEF RingFrontInv, RingInv, CellInv, Record
        <5>3. QED
          BY <5>1, <5>2
      <4>5. CASE ~(buf[rd].rec.time < Head(local).time)
        <5>1. \A p \in Position : InRing(p) => ~(buf[p].rec.time < d.time)
          BY <2>3, <4>4, <4>5
        <5>2. pc1 # "idle" => ~(rec1.time < d.time)
          BY <1>1, <2>3, <4>3, <4>4, <4>5 DEF CellInv
        <5>3. QED
          BY <5>1, <5>2 DEF Late
      <4>6. CASE buf[rd].rec = rec1 /\ inFlight = rec1.time
        <5>1. pc1 # "idle"
          <6>1. rec1 # NoRecord
            BY <4>3, <4>6 DEF CellInv, Record, NoRecord
          <6>2. QED
            BY <6>1 DEF Types, Core1Counters
        <5>2. \A p \in Position : InRing(p) => buf[p].rec.time = rec1.time
          BY <1>1, <4>4, <4>6, <5>1 DEF CellInv
        <5>3. QED
          BY <2>3, <4>1, <4>6, <5>2 DEF Late
      <4>7. QED
        BY <4>3, <4>5, <4>6
    <3>3. QED
      BY <3>1, <3>2
  <2>8. Settled(d)
    BY <2>5, <2>6, <2>7 DEF Settled
  <2>9. \A e \in Delivery : Settled(e) => Late(e, d.core, d.time)
    BY <2>3, <2>4 DEF Settled
  <2>10. QED
    BY <2>2, <2>8, <2>9
<1>4. QED
  BY <1>2, <1>3

LEMMA NextOrder ==
  ASSUME Types, RoomInv, RingFrontInv, MonotoneInv, LocalInv, ChosenInv, OrderInv, Next
  PROVE  OrderInv'
<1> SUFFICES ASSUME Calm' PROVE OrderInv'
  BY DEF OrderInv
<1>1. Calm /\ delivered \in Seq(Delivery)
  BY RingMoves DEF Types, TypeOK
<1>2. DOMAIN delivered = 1..Len(delivered) /\ Len(delivered) \in Nat
      /\ \A i \in DOMAIN delivered : delivered[i] \in Delivery
  BY <1>1
<1>3. \A d \in Delivery : Settled(d) => Settled(d)'
  BY SettledStays
<1>4. CASE UNCHANGED delivered
  <2>1. ASSUME NEW i \in DOMAIN delivered' PROVE Settled(delivered[i])'
    <3>1. PICK d \in Delivery : d = delivered[i] /\ Settled(d)
      BY <1>1, <1>2, <1>4, <2>1 DEF OrderInv
    <3>2. Settled(d)' /\ delivered'[i] = d
      BY <1>3, <1>4, <3>1
    <3>3. QED
      BY <3>2 DEF Settled, Late
  <2>2. QED
    BY <1>1, <1>4, <2>1 DEF OrderInv, Settled, Late
<1>5. CASE ~UNCHANGED delivered
  <2>1. Core0
    BY <1>5, Core1Calm DEF Next
  <2>2. PICK d \in Delivery :
          /\ delivered' = Append(delivered, d) /\ Settled(d)
          /\ \A e \in Delivery : Settled(e) => Late(e, d.core, d.time)
    BY <1>5, <2>1, NewSettled
  <2> DEFINE m == Len(delivered)
  <2>3. /\ DOMAIN delivered = 1..m /\ m \in Nat /\ DOMAIN delivered' = 1..m + 1
        /\ \A i \in 1..m : delivered'[i] = delivered[i]
        /\ delivered'[m + 1] = d
    BY <1>1, <2>2, RepliedMore
  <2> HIDE DEF m
  <2>4. ASSUME NEW i \in DOMAIN delivered' PROVE Settled(delivered[i])'
    <3>1. PICK e \in Delivery : e = delivered'[i] /\ Settled(e)
      <4>1. CASE i \in 1..m
        BY <1>1, <1>2, <2>3, <4>1 DEF OrderInv
      <4>2. CASE i = m + 1
        BY <2>2, <2>3, <4>2
      <4>3. QED
        BY <2>3, <4>1, <4>2
    <3>2. Settled(e)'
      BY <1>3, <3>1
    <3>3. QED
      BY <3>1, <3>2 DEF Settled, Late
  <2>5. ASSUME NEW i \in DOMAIN delivered', NEW j \in DOMAIN delivered', i < j
        PROVE  Late(delivered'[i], delivered'[j].core, delivered'[j].time)
    <3>1. i \in 1..m /\ delivered'[i] = delivered[i] /\ delivered[i] \in Delivery
      BY <1>2, <2>3, <2>5
    <3>2. CASE j \in 1..m
      BY <1>1, <2>3, <2>5, <3>1, <3>2 DEF OrderInv
    <3>3. CASE j = m + 1
      <4>1. Settled(delivered[i])
        BY <1>1, <2>3, <3>1 DEF OrderInv
      <4>2. QED
        BY <2>2, <2>3, <3>1, <3>3, <4>1
    <3>4. QED
      BY <2>3, <3>2, <3>3
  <2>6. QED
    BY <2>4, <2>5 DEF OrderInv, Late
<1>6. QED
  BY <1>4, <1>5

OrdersInv == MonotoneInv /\ LocalInv /\ ChosenInv /\ OrderInv

LEMMA InitOrders == Init => OrdersInv
<1> SUFFICES ASSUME Init PROVE OrdersInv
  OBVIOUS
<1>1. MonotoneInv
  <2>1. rd = wr /\ rd \in Position /\ wr \in Position
    BY Positions DEF Init
  <2>2. \A p \in Position : ~InRing(p)
    BY <2>1, Ring, InRingIn
  <2>3. QED
    BY <2>2 DEF MonotoneInv
<1>2. LocalInv /\ ChosenInv /\ OrderInv
  BY DEF Init, LocalInv, ChosenInv, OrderInv
<1>3. QED
  BY <1>1, <1>2 DEF OrdersInv

LEMMA NextOrders ==
  Types /\ RoomInv /\ RingFrontInv /\ OrdersInv /\ [Next]_vars => OrdersInv'
<1> SUFFICES ASSUME Types, RoomInv, RingFrontInv, OrdersInv, [Next]_vars PROVE OrdersInv'
  OBVIOUS
<1>1. CASE Next
  BY <1>1, NextMonotone, NextLocal, NextChosen, NextOrder DEF OrdersInv
<1>2. CASE UNCHANGED vars
  <2>1. UNCHANGED <<buf, rd, wr, pc1, rec1, pc0, cells0, local, clock, delivered, inFlight,
                    caughtUp, dropRace>>
    BY <1>2 DEF vars, ring, core1, core0, history
  <2>2. (Calm' <=> Calm) /\ FrontRec' = FrontRec
    BY <2>1 DEF Calm, FrontRec
  <2>3. MonotoneInv'
    BY <2>1, <2>2 DEF OrdersInv, MonotoneInv, InRing, Length
  <2>4. LocalInv'
    BY <2>1 DEF OrdersInv, LocalInv
  <2>5. ChosenInv'
    BY <2>1, <2>2 DEF OrdersInv, ChosenInv
  <2>6. OrderInv'
    BY <2>1, <2>2 DEF OrdersInv, OrderInv, Settled, Late, InRing, Length
  <2>7. QED
    BY <2>3, <2>4, <2>5, <2>6 DEF OrdersInv
<1>3. QED
  BY <1>1, <1>2

(* OrderedButForInFlight: as long as core 1 drops nothing while core 0 reads  *)
(* the ring and core 0 has never caught up with a record being written        *)
(* (~caughtUp), the logs of the two cores come out in the order of their      *)
(* times, but for a record core 1 was writing when try_dequeue_log began,     *)
(* which may come late, or early when part of its time was read.             *)
THEOREM LogsOrdered == Spec => []OrderedButForInFlight
<1> DEFINE Inv == Types /\ RoomInv /\ RingFrontInv /\ OrdersInv
<1>1. Init => Inv
  BY InitTypes, InitRoom, InitRingFront, InitOrders
<1>2. Inv /\ [Next]_vars => Inv'
  BY NextTypes, NextRoom, NextRingFront, NextOrders
<1>3. Inv => OrderedButForInFlight
  BY DEF OrdersInv, OrderInv, Late, OrderedButForInFlight, Calm
<1>4. QED
  BY <1>1, <1>2, <1>3, PTL DEF Spec
=============================================================================
