-------------------------- MODULE MCServerRoutines --------------------------
(* ServerRoutines for TLC: every storage backend, Stop called by two callers. *)
EXTENDS ServerRoutines

CONSTANTS s1, s2

MCKinds == {"badger", "memory", "redis", "sqlite"}

MCStoppers == {s1, s2}
============================================================================
