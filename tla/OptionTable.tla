---------------------------- MODULE OptionTable ----------------------------
(***************************************************************************)
(* What the option registry of src/src/util.c promises its callers: a     *)
(* table from option name to integer, empty when a process starts, in     *)
(* which opt_set_int(k, v) makes k read v and changes nothing else, until *)
(* the process ends.  lastSet is the interface event: the arguments of    *)
(* the last opt_set_int call of the process.                              *)
(***************************************************************************)
EXTENDS Integers

CONSTANTS
    OptNames,    \* the option names the program uses
    OptValues,   \* the values it sets them to
    NotSet       \* what a name that was never set reads as (opt_get_int fails)

VARIABLES table, lastSet

NoCall == [key |-> "none", value |-> NotSet]

Init ==
    /\ table = [k \in OptNames |-> NotSet]
    /\ lastSet = NoCall

\* opt_set_int(k, v)
Set(k, v) ==
    /\ table' = [table EXCEPT ![k] = v]
    /\ lastSet' = [key |-> k, value |-> v]

\* the process ends; the next one starts with no options
Forget ==
    /\ table' = [k \in OptNames |-> NotSet]
    /\ lastSet' = NoCall

Next == (\E k \in OptNames, v \in OptValues : Set(k, v)) \/ Forget

Spec == Init /\ [][Next]_<<table, lastSet>>
=============================================================================
