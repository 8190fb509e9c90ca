---------------------------- MODULE MC_Library ----------------------------
(***************************************************************************)
(* Two unit names (an entity and an architecture), two kinds, a clock of  *)
(* two seconds of two ticks each, and up to three lib_put calls: enough   *)
(* for a name to be put twice in one process and for puts, saves and      *)
(* restarts to fall in one second and in different ones.                  *)
(***************************************************************************)
EXTENDS Library

MCNames == {"E", "E-A"}
MCKinds == {"entity", "arch"}
=============================================================================
