------------------------------ MODULE MCUsbHost ------------------------------
(***************************************************************************)
(* Two devices for TLC: the first answers its string requests and has a     *)
(* boot protocol, the second does one of the two.                          *)
(***************************************************************************)
EXTENDS UsbHost

CONSTANTS d1, d2

MCInit ==
  /\ Init
  /\ d1 \in answers \cap takes /\ d2 \in answers \cup takes /\ d2 \notin answers \cap takes

MCFairSpec == MCInit /\ [][Next]_vars /\ Fairness
=============================================================================
