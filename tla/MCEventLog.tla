------------------------------ MODULE MCEventLog ------------------------------
(* A project with one run.  One work event is submitted in three forms that     *)
(* share a key: as it is, by another agent, and with another content.           *)
EXTENDS EventLog

Command(key, version, type, payload, origin) ==
    [key |-> key, version |-> version, type |-> type, payload |-> payload,
     origin |-> origin]

MCCommands ==
    { Command("k1", "2.0", "open",   "p1", "a"),
      Command("k2", "2.0", "work",   "p1", "a"),
      Command("k2", "2.0", "work",   "p1", "b"),
      Command("k2", "2.0", "work",   "p2", "a"),
      Command("k3", "1.0", "work",   "p1", "a"),
      Command("k4", "1.0", "finish", "p1", "a") }

=============================================================================
