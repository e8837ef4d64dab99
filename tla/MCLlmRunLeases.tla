--------------------------- MODULE MCLlmRunLeases ---------------------------
(* Instances of LlmRunLeases for TLC: one place, two runs whose drivers live *)
(* and one whose driver dies.                                               *)
EXTENDS LlmRunLeases

CONSTANTS r1, r2, dead

MCRuns == {r1, r2, dead}
MCAbandoned == {dead}
=============================================================================
