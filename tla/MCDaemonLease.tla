--------------------------- MODULE MCDaemonLease ---------------------------
(* Instances of DaemonLease for TLC: two daemons, one of them managed.     *)
EXTENDS DaemonLease

CONSTANTS d1, d2

MCDaemons == {d1, d2}
MCManaged == {d2}
=============================================================================
