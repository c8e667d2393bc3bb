-------------------------- MODULE MCEquipmentSync --------------------------
(* Small instances of EquipmentSync for TLC. *)
EXTENDS EquipmentSync

CONSTANTS own, forked

\* An own item of the organization; and a shared model with its reset.
TwoSettings == <<
  [references |-> {}, uploaded |-> {own}, edits |-> 2, removals |-> 1, resets |-> 0,
   faults |-> 1],
  [references |-> {own}, uploaded |-> {}, edits |-> 1, removals |-> 1, resets |-> 1,
   faults |-> 0]>>
=============================================================================
