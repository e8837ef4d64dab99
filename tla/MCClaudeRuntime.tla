--------------------------- MODULE MCClaudeRuntime ---------------------------
(* Small instances of ClaudeRuntime.  The agent hears of something, gets a    *)
(* task, and leaves the channel of both.                                      *)
EXTENDS ClaudeRuntime

OneChannel == [m \in Messages |-> "c1"]
=============================================================================
