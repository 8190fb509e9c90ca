------------------------------ MODULE TreeGraph ------------------------------
(***************************************************************************)
(* The tree graph of src/src/tree.c as the models of it see it: a fixed   *)
(* set of trees, each with the sequence of its child slots in the order   *)
(* tree_write writes them (ports, generics, params, decls, stmts, value,  *)
(* delay, target, ref, then the kind's own fields).  A slot may be NULL.  *)
(* The kind and the array counts are abstracted to the number of slots.   *)
(*                                                                         *)
(* The serialised form is a sequence of markers: a new tree (its kind and *)
(* counts, then its slots), the null marker 0xffff, or the back-reference *)
(* marker 0xfffe with the index of a tree already in the stream.          *)
(***************************************************************************)
EXTENDS Integers, Sequences, FiniteSets

CONSTANTS
    Nodes,     \* the allocated trees, in all_trees order (positive integers)
    Kids,      \* tree -> sequence of child slots, each a tree or Null
    TopLevel   \* the trees IS_TOP_LEVEL selects

Null == 0

\* the trees reachable from a set of trees, following non-null slots
RECURSIVE ReachFrom(_, _)
ReachFrom(frontier, seen) ==
    IF frontier \subseteq seen THEN seen
    ELSE LET s == seen \cup frontier IN
         ReachFrom(UNION {{Kids[t][k] : k \in DOMAIN Kids[t]} : t \in frontier}
                     \ (s \cup {Null}), s)

\* the markers of the serialised form (one record shape for all three)
NewTok(t) == [k |-> "new", node |-> t, n |-> Len(Kids[t]), index |-> 0]
BackTok(i) == [k |-> "back", node |-> Null, n |-> 0, index |-> i]
NullTok == [k |-> "null", node |-> Null, n |-> 0, index |-> 0]

NoFile == [root |-> Null, s |-> <<>>]
=============================================================================
