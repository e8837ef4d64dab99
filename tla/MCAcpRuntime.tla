---------------------------- MODULE MCAcpRuntime ----------------------------
(* Small instances of AcpRuntime: a message and a task. *)
EXTENDS AcpRuntime

OneChannel == [m \in Messages |-> "c1"]
=============================================================================
