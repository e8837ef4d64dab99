----------------------------- MODULE MCPiRuntime -----------------------------
(* Small instances of PiRuntime: two messages for one place. *)
EXTENDS PiRuntime

OneChannel == [m \in Messages |-> "c1"]
=============================================================================
