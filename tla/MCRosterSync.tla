---------------------------- MODULE MCRosterSync ----------------------------
(* Instances of RosterSync for TLC: a member shares the agent's handle, one *)
(* does not.                                                                *)
EXTENDS RosterSync

CONSTANTS a, twin, other

MCHandle == [m \in Members |-> IF m = twin THEN a ELSE m]
=============================================================================
