--------------------------- MODULE MCControlPanel ---------------------------
(* Two applications; a file with rules for both.  Settings without rules are those *)
(* of a panel that could not read it.                                          *)
EXTENDS ControlPanel

MCExecutable == {1, 2}
MCStored ==
  {[control |-> TRUE, excluded |-> <<2>>,
    profiles |-> <<[executable |-> 2, motion |-> 0], [executable |-> 1, motion |-> 1]>>]}
=============================================================================
