--------------------------- MODULE MCConfigurator ---------------------------
(* Packets of the configurator: general settings whole and cut short, and    *)
(* shortcuts: whole ones, one with fewer keys, one with a key twice, one     *)
(* that ends before its keys, and refused ones (number of the shortcut,      *)
(* keys or length of the data too large).                                    *)
EXTENDS Configurator

MCSlot == 0..0
MCLength == {1, 2}

General(fields) == [op |-> "general", fields |-> fields]
Shortcuts(fields) == [op |-> "shortcut", fields |-> fields]

MCPacket ==
  {General(<<7>>), General(<< >>), [op |-> "unknown", fields |-> <<9>>],
   Shortcuts(<<1, 1, 2, 30, 71>>), Shortcuts(<<1, 1, 1, 31>>), Shortcuts(<<0, 0, 0>>),
   Shortcuts(<<0, 1, 2, 30>>), Shortcuts(<<0, 1, 2, 31, 31>>),
   Shortcuts(<<2, 1, 1, 30>>), Shortcuts(<<0, 1, 3, 30, 31>>),
   Shortcuts(<<0, 1, 2, 31, 71, 2>>)}
=============================================================================
