--------------------------- MODULE MessageChannel ---------------------------
(***************************************************************************)
(* What one direction of the controller/node link promises to the code     *)
(* above it: every message the sending queue accepted reaches the receiving *)
(* handler once, in the order of acceptance.  Messages carry the number of  *)
(* their acceptance, so the history of the handler must count 1, 2, 3, ...  *)
(***************************************************************************)
EXTENDS Naturals, Sequences

CONSTANTS
  Capacity      \* messages accepted and not yet handled, at most

VARIABLES
  accepted,     \* how many messages the sender's queue accepted
  handled       \* the messages the receiver's handler was given, in order

chanVars == <<accepted, handled>>

Init ==
  /\ accepted = 0
  /\ handled = << >>

Accept ==
  /\ accepted - Len(handled) < Capacity
  /\ accepted' = accepted + 1
  /\ UNCHANGED handled

Handle ==
  /\ Len(handled) < accepted
  /\ handled' = Append(handled, Len(handled) + 1)
  /\ UNCHANGED accepted

Next == Accept \/ Handle

Spec == Init /\ [][Next]_chanVars

(* The promise with its progress half: an accepted message gets handled. *)
LiveSpec == Spec /\ WF_chanVars(Handle)
=============================================================================
