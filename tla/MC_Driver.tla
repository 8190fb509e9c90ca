------------------------------ MODULE MC_Driver ------------------------------
(***************************************************************************)
(* The work library with the top-level entity E and its elaborated unit   *)
(* E.elab, the kinds an analysed unit and an ELAB tree have, a clock of   *)
(* two seconds of two ticks, and three lib_put calls in all: enough for   *)
(* an analyse, and then two elaborations or a second analyse of E.        *)
(* Of the options the getopt_long loops set, one per command, for         *)
(* elaborate the one elab reads (--cover): each command line gives it or  *)
(* not, any number of times.                                              *)
(***************************************************************************)
EXTENDS Driver

MCNames == {"E", "E.elab"}
MCKinds == {"entity", "elab"}

MCAnalyseOpts == {[key |-> "bootstrap", value |-> 1]}
MCElaborateOpts == {[key |-> "cover", value |-> 1]}
MCRunOpts == {[key |-> "rt-stats", value |-> 1]}
=============================================================================
