------------------------------- MODULE Logger -------------------------------
(***************************************************************************)
(* shared/logger.c over shared/ring_buffer.c: each core writes its records  *)
(* to a ring of its own, dropping the oldest ones to make room; core 0      *)
(* reads both rings when the configurator asks for the logs (GET_LOGS in    *)
(* controller/web_usb_handler.c).                                          *)
(*                                                                         *)
(* The ring of core 1 is shared, with no lock: core 1 writes it and moves   *)
(* read_position when it drops a record, core 0 moves read_position when it *)
(* reads one.  It is modelled position by position; moving read_position is *)
(* a load and a later store.  The ring of core 0 is touched by core 0 only  *)
(* and is the sequence of records it holds.                                *)
(*                                                                         *)
(* A record takes Header cells (internal_log_t) and then its body, function *)
(* name and message together.  A header read from cells that are not one    *)
(* header has any length and any time.                                     *)
(***************************************************************************)
EXTENDS Naturals, Sequences, FiniteSets

CONSTANTS
  Size,          \* buffer_size
  Header,        \* cells of an internal_log_t
  MaxBody,       \* cells of the longest function name and message
  ReplySize,     \* room of a GET_LOGS reply, in cells
  MaxLogs0, MaxLogs1   \* bounds: records core 0 and core 1 write

(* Every record fits in an empty ring, and in an empty reply. *)
ASSUME LoggerAssumption ==
  /\ Size \in Nat /\ Header \in Nat \ {0} /\ MaxBody \in Nat
  /\ Header + MaxBody < Size
  /\ ReplySize \in Nat /\ Header + MaxBody <= ReplySize
  /\ MaxLogs0 \in Nat /\ MaxLogs1 \in Nat

Position == 0..Size - 1
Body == 0..MaxBody
Record == [n : Nat \ {0}, time : Nat, len : Body]
NoRecord == [n |-> 0, time |-> 0, len |-> 0]
Cell == [rec : Record \cup {NoRecord}, part : 0..Header + MaxBody]
Blank == [rec |-> NoRecord, part |-> 0]

VARIABLES
  buf, rd, wr,   \* the ring of core 1: buffer, read_position, write_position
  pc1,           \* where core 1 is in log_write
  rec1,          \* the record it writes
  done1,         \* how many of its cells are written
  cells1, left1, \* what a drop has read, and has yet to read
  reg1,          \* the read_position it loaded
  pc0,           \* where core 0 is in try_dequeue_log
  cells0, left0, reg0,
  local,         \* the records in the ring of core 0
  space,         \* buffer_size - offset in GET_LOGS
  clock,         \* time_us_64
  logged,        \* records each core has written
  dropped,       \* dropped_logs of core 1
  delivered,     \* history: what try_dequeue_log has returned
  inFlight,      \* history: time of the record core 1 was writing when
                 \* try_dequeue_log began, or 0
  dropRace,      \* history: core 1 dropped a record while core 0 read its ring
  caughtUp       \* history: core 0 read up to what core 1 was still writing

ring == <<buf, rd, wr>>
core1 == <<pc1, rec1, done1, cells1, left1, reg1>>
core0 == <<pc0, cells0, left0, reg0, space>>
history == <<delivered, inFlight, caughtUp>>
vars == <<ring, core1, core0, local, clock, logged, dropped, history, dropRace>>

Init ==
  /\ buf = [p \in Position |-> Blank] /\ rd = 0 /\ wr = 0
  /\ pc1 = "idle" /\ rec1 = NoRecord /\ done1 = 0
  /\ cells1 = << >> /\ left1 = 0 /\ reg1 = 0
  /\ pc0 = "idle" /\ cells0 = << >> /\ left0 = 0 /\ reg0 = 0
  /\ local = << >> /\ space = 0
  /\ clock = 1 /\ logged = [c \in {0, 1} |-> 0] /\ dropped = 0
  /\ delivered = << >> /\ inFlight = 0 /\ dropRace = FALSE /\ caughtUp = FALSE

-----------------------------------------------------------------------------
(* Positions and cells.                                                    *)

FollowingPastEnd(p) == p + 1                                       \* mutant
(* (p + 1) % buffer_size *)
Following(p) == IF p = Size - 1 THEN 0 ELSE p + 1

(* ring_buffer_get_length and ring_buffer_get_available_space *)
Length(r, w) == IF r <= w THEN w - r ELSE Size - (r - w)
AvailableToTheLastByte(r, w) == Size - Length(r, w)                \* mutant
Available(r, w) == Size - 1 - Length(r, w)

Weight(r) == Header + r.len
IsHeader(cs) ==
  Len(cs) = Header /\ \A i \in 1..Header : cs[i] = [rec |-> cs[1].rec, part |-> i]
IsRecord(cs) ==
  /\ Len(cs) = Weight(cs[1].rec)
  /\ \A i \in DOMAIN cs : cs[i] = [rec |-> cs[1].rec, part |-> i]

(* func_len + message_len, as far as the cells read say. *)
BodyOf(cs) == IF IsHeader(cs) THEN {cs[1].rec.len} ELSE Body

Dropping == pc1 \in {"drop", "dropStore"}
Reading == pc0 \in {"peek", "read", "readStore"}
NotesRace == dropRace' = (dropRace \/ (Dropping' /\ Reading'))

-----------------------------------------------------------------------------
(* Core 1: log_write and log_write_format.                                 *)

Log1(len) ==
  /\ pc1 = "idle" /\ logged[1] < MaxLogs1
  /\ logged' = [logged EXCEPT ![1] = @ + 1]
  /\ rec1' = [n |-> logged'[1], time |-> clock, len |-> len]
  /\ clock' = clock + 1
  /\ pc1' = "room"
  /\ UNCHANGED <<ring, done1, cells1, left1, reg1, core0, local, dropped, history>>
  /\ NotesRace

(* ensure_enough_room_available_in_log_buffer *)
EnsureRoom ==
  /\ pc1 = "room"
  /\ IF Available(rd, wr) < Weight(rec1)
     THEN /\ dropped' = dropped + 1
          /\ pc1' = "drop" /\ left1' = Header
     ELSE pc1' = "write" /\ UNCHANGED <<dropped, left1>>
  /\ UNCHANGED <<ring, rec1, done1, cells1, reg1, core0, local, clock, logged, history>>
  /\ NotesRace

(* The read of a header is followed by one of the body, and that by another *)
(* look at the room.                                                       *)
AfterDropRead ==
  \E n \in IF Len(cells1) = Header THEN BodyOf(cells1) ELSE {0} :
    /\ left1' = n
    /\ pc1' = IF n = 0 THEN "room" ELSE "drop"
    /\ cells1' = IF n = 0 THEN << >> ELSE cells1

(* ring_buffer_read, until it has enough or the ring is empty *)
DropFetch ==
  /\ pc1 = "drop"
  /\ IF rd = wr
     THEN /\ left1' = 0 /\ pc1' = "room" /\ cells1' = << >>
          /\ UNCHANGED reg1
     ELSE /\ cells1' = Append(cells1, buf[rd])
          /\ reg1' = rd
          /\ pc1' = "dropStore"
          /\ UNCHANGED left1
  /\ UNCHANGED <<ring, rec1, done1, core0, local, clock, logged, dropped, history>>
  /\ NotesRace

DropStore ==
  /\ pc1 = "dropStore"
  /\ rd' = Following(reg1)
  /\ reg1' = 0
  /\ IF left1 = 1
     THEN AfterDropRead
     ELSE left1' = left1 - 1 /\ pc1' = "drop" /\ UNCHANGED cells1
  /\ UNCHANGED <<buf, wr, rec1, done1, core0, local, clock, logged,
                 dropped, history>>
  /\ NotesRace

(* ring_buffer_write; writing less than asked is a panic *)
Write ==
  /\ pc1 = "write"
  /\ IF Following(wr) = rd
     THEN pc1' = "panic" /\ UNCHANGED <<buf, wr, rec1, done1>>
     ELSE /\ buf' = [buf EXCEPT ![wr] = [rec |-> rec1, part |-> done1 + 1]]
          /\ wr' = Following(wr)
          /\ IF done1 + 1 = Weight(rec1)
             THEN pc1' = "idle" /\ rec1' = NoRecord /\ done1' = 0
             ELSE done1' = done1 + 1 /\ UNCHANGED <<pc1, rec1>>
  /\ UNCHANGED <<rd, cells1, left1, reg1, core0, local, clock, logged,
                 dropped, history>>
  /\ NotesRace

Core1 == (\E len \in Body : Log1(len)) \/ EnsureRoom \/ DropFetch \/ DropStore \/ Write

-----------------------------------------------------------------------------
(* Core 0.                                                                 *)

(* Cells of the ring of core 0 in use. *)
Used(rs) ==
  LET used[i \in 0..Len(rs)] == IF i = 0 THEN 0 ELSE used[i - 1] + Weight(rs[i])
  IN  used[Len(rs)]

(* log_write on core 0, which nobody else interrupts: the fewest oldest     *)
(* records go.                                                             *)
Log0(len) ==
  /\ pc0 = "idle" /\ logged[0] < MaxLogs0
  /\ logged' = [logged EXCEPT ![0] = @ + 1]
  /\ LET r == [n |-> logged'[0], time |-> clock, len |-> len]
         Fits(k) == Used(SubSeq(local, k + 1, Len(local))) + Weight(r) <= Size - 1
         gone == CHOOSE k \in 0..Len(local) :
                   Fits(k) /\ \A j \in 0..k - 1 : ~Fits(j)
     IN  local' = Append(SubSeq(local, gone + 1, Len(local)), r)
  /\ clock' = clock + 1
  /\ UNCHANGED <<ring, core1, core0, dropped, history>>
  /\ NotesRace

GetLogs ==
  /\ pc0 = "idle"
  /\ space' = ReplySize
  /\ pc0' = "dequeue"
  /\ UNCHANGED <<ring, core1, cells0, left0, reg0, local, clock, logged, dropped,
                 history>>
  /\ NotesRace

(* try_dequeue_log returns, and its variables are gone. *)
Return(pc) ==
  /\ pc0' = pc /\ cells0' = << >> /\ left0' = 0 /\ reg0' = 0 /\ inFlight' = 0

NoLog == Return("idle") /\ space' = 0 /\ UNCHANGED <<local, delivered>>

(* buffer_size - offset <= sizeof(log_t) *)
ReplyFull(room) == room <= Header + MaxBody

(* The record goes to the reply if it fits there. *)
Deliver(core, r, weight, beside) ==
  LET kept == weight <= space
      last == ~kept \/ ReplyFull(space - weight)
  IN  /\ delivered' = Append(delivered, [core |-> core, n |-> r.n, time |-> r.time,
                                         inFlight |-> beside, kept |-> kept])
      /\ space' = IF last THEN 0 ELSE space - weight
      /\ Return(IF last THEN "idle" ELSE "dequeue")

TakeLocal(beside) ==
  IF local = << >> THEN NoLog
  ELSE /\ Deliver(0, Head(local), Weight(Head(local)), beside)
       /\ local' = Tail(local)

(* try_dequeue_log looks at the time of the oldest record of each ring that *)
(* is not empty.                                                           *)
Dequeue ==
  /\ pc0 = "dequeue"
  /\ IF Length(rd, wr) # 0
     THEN /\ pc0' = "peek" /\ reg0' = rd /\ inFlight' = rec1.time
          /\ UNCHANGED <<cells0, left0, local, space, delivered>>
     ELSE TakeLocal(rec1.time)
  /\ UNCHANGED <<ring, core1, clock, logged, dropped, caughtUp>>
  /\ NotesRace

LocalFirst(times) == IF local = << >> THEN {1} ELSE {0}            \* mutant

(* The cores whose record may be taken for the oldest, when the header of   *)
(* core 1 shows one of these times.                                        *)
Oldest(times) ==
  IF local = << >> THEN {1}
  ELSE {IF t < Head(local).time THEN 1 ELSE 0 : t \in times}

Choose ==
  \E c \in Oldest(IF IsHeader(cells0) THEN {cells0[1].rec.time} ELSE 0..clock) :
    IF c = 0
    THEN TakeLocal(inFlight)
    ELSE /\ pc0' = "read" /\ cells0' = << >> /\ left0' = Header /\ reg0' = 0
         /\ UNCHANGED <<local, space, delivered, inFlight>>

(* ring_buffer_peek of a header *)
Peek ==
  /\ pc0 = "peek"
  /\ IF reg0 = wr /\ cells0 = << >>
     THEN TakeLocal(inFlight)
     ELSE IF reg0 = wr \/ Len(cells0) = Header
     THEN Choose
     ELSE /\ cells0' = Append(cells0, buf[reg0])
          /\ reg0' = Following(reg0)
          /\ UNCHANGED <<pc0, left0, local, space, delivered, inFlight>>
  /\ UNCHANGED <<ring, core1, clock, logged, dropped, caughtUp>>
  /\ NotesRace

DeliverRemote ==
  /\ Deliver(1, IF IsRecord(cells0) THEN cells0[1].rec ELSE NoRecord,
             Len(cells0), inFlight)
  /\ UNCHANGED local

(* ring_buffer_read of the header, then of the body.  A header that is cut  *)
(* short ends try_dequeue_log, a body that is cut short does not.          *)
ReadFetch ==
  /\ pc0 = "read"
  /\ IF rd # wr
     THEN /\ cells0' = Append(cells0, buf[rd]) /\ reg0' = rd
          /\ pc0' = "readStore"
          /\ UNCHANGED <<left0, local, space, delivered, inFlight, caughtUp>>
     ELSE /\ caughtUp' = TRUE
          /\ IF Len(cells0) < Header THEN NoLog ELSE DeliverRemote
  /\ UNCHANGED <<ring, core1, clock, logged, dropped>>
  /\ NotesRace

StoredTwice == Following(Following(reg0))                          \* mutant
Stored == Following(reg0)

ReadStore ==
  /\ pc0 = "readStore"
  /\ rd' = Stored
  /\ \E n \in IF left0 > 1 THEN {left0 - 1}
             ELSE IF Len(cells0) = Header THEN BodyOf(cells0) ELSE {0} :
       IF n = 0
       THEN DeliverRemote
       ELSE /\ pc0' = "read" /\ left0' = n /\ reg0' = 0
            /\ UNCHANGED <<cells0, local, space, delivered, inFlight>>
  /\ UNCHANGED <<buf, wr, core1, clock, logged, dropped, caughtUp>>
  /\ NotesRace

Core0 ==
  \/ \E len \in Body : Log0(len)
  \/ GetLogs \/ Dequeue \/ Peek \/ ReadFetch \/ ReadStore

Next == Core1 \/ Core0

Spec == Init /\ [][Next]_vars

(* Bound: what follows a drop race is left to the run that looks for it. *)
NoDropRaceYet == ~dropRace

-----------------------------------------------------------------------------
(* Properties.                                                             *)

Delivery == [core : {0, 1}, n : Nat, time : Nat, inFlight : Nat,
             kept : BOOLEAN]

(* Types, and the room of the ring of core 0. *)
TypeOK ==
  /\ buf \in [Position -> Cell] /\ rd \in Position /\ wr \in Position
  /\ pc1 \in {"idle", "room", "drop", "dropStore", "write", "panic"}
  /\ rec1 \in Record \cup {NoRecord} /\ done1 \in 0..Header + MaxBody
  /\ cells1 \in Seq(Cell) /\ left1 \in 0..Header + MaxBody /\ reg1 \in Position
  /\ pc0 \in {"idle", "dequeue", "peek", "read", "readStore"}
  /\ cells0 \in Seq(Cell) /\ left0 \in 0..Header + MaxBody /\ reg0 \in Position
  /\ local \in Seq(Record) /\ Used(local) <= Size - 1
  /\ space \in 0..ReplySize /\ clock \in Nat /\ dropped \in Nat
  /\ logged \in [{0, 1} -> Nat]
  /\ delivered \in Seq(Delivery) /\ inFlight \in Nat
  /\ dropRace \in BOOLEAN /\ caughtUp \in BOOLEAN

(* The positions whose cells are in the ring, and what one cell says of the  *)
(* next: the next of its record, or the first of the next record.          *)
InRing(p) == Length(rd, p) < Length(rd, wr)
Whole(c) == c.part = Weight(c.rec)
FollowedBy(c, d) ==
  IF Whole(c)
  THEN d.part = 1 /\ d.rec.n = c.rec.n + 1 /\ d.rec.time > c.rec.time
  ELSE d = [c EXCEPT !.part = @ + 1]

(* What was read of core 1 and reached the reply. *)
Replied == {i \in DOMAIN delivered : delivered[i].core = 1 /\ delivered[i].kept}

(* The two cores may write and read the shared ring at the same time, as    *)
(* long as core 1 drops nothing meanwhile and core 0 has never caught up    *)
(* with a record being written (ring_buffer.c:39; what is left of it would  *)
(* be read as a header).  Whenever both are between records the ring        *)
(* then holds the newest records of core 1, whole and in order, wherever it *)
(* wraps; every older one is in a reply, whole, once and in order, or is    *)
(* counted in dropped_logs.  web_usb_handler.c:184, "Last log is lost if    *)
(* this happen (it should not)", does not happen.                          *)
FramedUnlessRaced ==
  ~dropRace /\ ~caughtUp /\ pc1 = "idle" /\ pc0 \notin {"read", "readStore"} =>
    /\ rd # wr => buf[rd].part = 1
    /\ \A p \in Position : InRing(p) =>
         IF Following(p) = wr
         THEN Whole(buf[p]) /\ buf[p].rec.n = logged[1]
         ELSE FollowedBy(buf[p], buf[Following(p)])
    /\ Cardinality(Replied) + dropped
         = IF rd = wr THEN logged[1] ELSE buf[rd].rec.n - 1
    /\ \A i, j \in Replied : i < j => delivered[i].n < delivered[j].n

(* Room once found stays: core 1 panics only after a drop of a record met a *)
(* read of the same ring by core 0, whatever lengths a torn header gave.    *)
PanicOnlyAfterRace == pc1 = "panic" => dropRace

(* As long as core 1 drops nothing while core 0 reads the ring, and core 0  *)
(* never catches up with a record that is still being written, the logs     *)
(* come out in the order of their times, whichever core wrote them, but for *)
(* a record core 1 was writing when try_dequeue_log began: it may come      *)
(* late, or early when part of its time was read.  Nothing is said from the *)
(* first time core 0 has caught up (ring_buffer.c:39): what is left of that *)
(* record is then read as a header, and framing and order are lost.        *)
OrderedButForInFlight ==
  ~dropRace /\ ~caughtUp =>
    \A i, j \in DOMAIN delivered :
      i < j /\ delivered[j].time < delivered[i].time =>
        /\ delivered[i].core # delivered[j].core
        /\ delivered[i].inFlight \in {delivered[i].time, delivered[j].time}

(* panic("Failed to write log header to ring buffer"), logger.c:115, and    *)
(* the two after it: there is room for the record that room was made for.   *)
NeverPanics == pc1 # "panic"
=============================================================================
