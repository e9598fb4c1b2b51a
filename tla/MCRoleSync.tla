----------------------------- MODULE MCRoleSync -----------------------------
(***************************************************************************)
(* A role with a filter, written in two ways, one without, and one that is *)
(* not on the list, for TLC.                                               *)
(***************************************************************************)
EXTENDS RoleSync

CONSTANTS auditor, Auditor, unbundled, other

MCRole       == {auditor, unbundled, other}
MCSpelling   == MCRole \cup {Auditor}
MCNormalized == [s \in MCSpelling |-> IF s = Auditor THEN auditor ELSE s]
=============================================================================
