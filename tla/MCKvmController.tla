-------------------------- MODULE MCKvmController --------------------------
(* Values of the constants of KvmController that a .cfg cannot write.      *)
EXTENDS KvmController

MCSlot2 == 0..1

MCNext == {[action |-> "next"]}
MCSwitch == {[action |-> "next"], [action |-> "previous"],
             [action |-> "set", computer |-> 0],
             [action |-> "setDevice", computer |-> 1, dev |-> 2]}

(* Bound: a behaviour has either restarts or reports, and more than one      *)
(* report only once the first has switched to another computer.             *)
RestartOrReports ==
  /\ done'.restart = 0 \/ done'.report = 0
  /\ done'.report < 2 \/ active[1] # Local
=============================================================================
