------------------------------ MODULE TreeStore ------------------------------
(***************************************************************************)
(* What the tree store of src/src/tree.c promises its users, without the  *)
(* generation marks that implement it:                                    *)
(*   - tree_gc leaves exactly the trees a top-level tree reaches;         *)
(*   - saving a top-level tree puts in its file the preorder encoding in  *)
(*     which every tree appears once, later occurrences being references  *)
(*     to its position, so that sharing and cycles survive the file;      *)
(*   - a new process starts with every tree of its own allocated.         *)
(***************************************************************************)
EXTENDS TreeGraph

VARIABLES
    alive,     \* the allocated trees
    file       \* the last file saved: [root, s]

\* the position of t in a sequence of trees, or 0
PosOf(seq, t) == IF \E i \in DOMAIN seq : seq[i] = t
                 THEN CHOOSE i \in DOMAIN seq : seq[i] = t ELSE 0

(***************************************************************************)
(* The reference encoding: Enc(t, seen) gives the markers for t and the   *)
(* trees in order of first appearance; EncSlots folds over a slot list.   *)
(***************************************************************************)
RECURSIVE Enc(_, _), EncSlots(_, _, _)
Enc(t, seen) ==
    IF t = Null THEN [toks |-> <<NullTok>>, seen |-> seen]
    ELSE IF PosOf(seen, t) > 0
         THEN [toks |-> <<BackTok(PosOf(seen, t) - 1)>>, seen |-> seen]
         ELSE EncSlots(Kids[t], 1, [toks |-> <<NewTok(t)>>, seen |-> Append(seen, t)])
EncSlots(ks, i, acc) ==
    IF i > Len(ks) THEN acc
    ELSE LET r == Enc(ks[i], acc.seen) IN
         EncSlots(ks, i + 1, [toks |-> acc.toks \o r.toks, seen |-> r.seen])

Encode(t) == Enc(t, <<>>).toks

Init ==
    /\ alive = Nodes
    /\ file = NoFile

Collect ==
    /\ alive' = ReachFrom(TopLevel \cap alive, {})
    /\ UNCHANGED file

Save(t) ==
    /\ t \in TopLevel \cap alive
    /\ file' = [root |-> t, s |-> Encode(t)]
    /\ UNCHANGED alive

Restart ==
    /\ alive' = Nodes
    /\ UNCHANGED file

Next == Collect \/ (\E t \in Nodes : Save(t)) \/ Restart

Spec == Init /\ [][Next]_<<alive, file>>
=============================================================================
