-------------------------- MODULE MC_BonjourBrowser --------------------------
(***************************************************************************)
(* Instances of BonjourBrowser for model checking.                         *)
(***************************************************************************)
EXTENDS BonjourBrowser

CONSTANTS i1, i2, i3, k1, k2

\* i1 has a key of its own; i2 and i3 share one.
SharedKey == [i \in Instances |-> IF i = i1 THEN k1 ELSE k2]

=============================================================================
