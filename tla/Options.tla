------------------------------ MODULE Options ------------------------------
(***************************************************************************)
(* The option registry of src/src/util.c: the static list `options' of    *)
(* struct option {next, key, value}, as a sequence whose first element is *)
(* the list head.  opt_set_int updates the first node with the key or     *)
(* pushes a new node in front; opt_get_int returns the first node's value *)
(* or calls fatal, here the value NotSet.                                 *)
(***************************************************************************)
EXTENDS Integers, Sequences

CONSTANT NotSet

\* the for loop of both functions: the position of the first node whose key
\* is name, 0 when it reaches the end of the list
FindOpt(options, name) ==
    IF \E i \in 1..Len(options) : options[i].key = name
    THEN CHOOSE i \in 1..Len(options) :
            /\ options[i].key = name
            /\ \A j \in 1..(i - 1) : options[j].key # name
    ELSE 0

\* mutant: a new node appended at the tail, without looking for the key
OptSetIntAppend(options, name, val) ==
    Append(options, [key |-> name, value |-> val])

OptSetInt(options, name, val) ==
    LET it == FindOpt(options, name) IN
    IF it # 0 THEN [options EXCEPT ![it].value = val]
    ELSE <<[key |-> name, value |-> val]>> \o options

OptGetInt(options, name) ==
    LET it == FindOpt(options, name) IN
    IF it # 0 THEN options[it].value ELSE NotSet

\* what each name reads as: the table the list stands for
AsTable(options, names) == [k \in names |-> OptGetInt(options, k)]
=============================================================================
