------------------------------- MODULE TreeGC -------------------------------
(***************************************************************************)
(* The generation marks of src/src/tree.c: tree_visit, and tree_write     *)
(* through tree_write_begin, give every traversal the next value of the   *)
(* global counter next_generation (an unsigned) and store it in each      *)
(* tree's generation field (an unsigned short); a traversal skips (the    *)
(* writer back-references) a tree whose field equals its generation.      *)
(* tree_gc marks by visiting every top-level tree and frees every tree    *)
(* whose field is below the counter value it started from.  tree_read    *)
(* rebuilds a tree from what tree_write wrote.                            *)
(*                                                                         *)
(* The recursion of tree_visit_aux and tree_write is a stack of           *)
(* [node, next slot].  The field is GenBits wide and stores the           *)
(* generation modulo 2^GenBits; the comparison with the full counter      *)
(* value is the C comparison after integer promotion.                     *)
(***************************************************************************)
EXTENDS TreeGraph

CONSTANTS
    GenBits,   \* width of struct tree's generation field (16 in the code)
    MaxGen,    \* bound on next_generation
    MaxDepth   \* the C stack: a deeper recursion overflows it

VARIABLES
    gen,       \* tree -> its generation field
    index,     \* tree -> its index field (set by tree_write)
    nextGen,   \* next_generation
    alive,     \* the trees in all_trees (not yet freed)
    phase,     \* "idle", "visit", "mark" (inside tree_gc), or "write"
    curGen,    \* the generation of the running traversal
    stack,     \* the frames of the recursion: [node, i] with i the next slot
    pending,   \* tree_gc: the top-level trees still to visit
    base,      \* tree_gc: base_gen
    nWritten,  \* tree_wr_ctx: n_trees
    out,       \* the markers the running tree_write has written
    root,      \* ghost: the tree the running tree_write was given
    file,      \* the last unit file written: [root, s]
    visits     \* ghost: tree -> how often the running traversal entered it

visitVars == <<curGen, stack, visits>>
writeVars == <<index, nWritten, out, root, file>>
vars == <<gen, nextGen, alive, phase, pending, base, visitVars, writeVars>>

FieldMax == 2 ^ GenBits

Reachable == ReachFrom(TopLevel \cap alive, {})

NoVisits == [t \in Nodes |-> 0]

\* a recursion deeper than the C stack allows has crashed the process
Crashed == Len(stack) > MaxDepth

\* the frame st after its next slot was taken
Advance(st) == [st EXCEPT ![Len(st)].i = @ + 1]

\* the next slot of the innermost frame, if it has one
HasSlot == LET f == stack[Len(stack)] IN f.i <= Len(Kids[f.node])
NextSlot == LET f == stack[Len(stack)] IN Kids[f.node][f.i]

-----------------------------------------------------------------------------
(***************************************************************************)
(* tree_visit_aux on entry: NULL, or a tree whose field equals the        *)
(* generation, is not entered; otherwise the field is set (truncated to   *)
(* its width) and a frame for its slots is pushed.  vs counts entries.    *)
(***************************************************************************)
\* mutant: the generation test left out
EnterNoCheck(t, g, st, vs) ==
    IF t = Null THEN /\ stack' = st /\ UNCHANGED gen /\ visits' = vs
    ELSE /\ gen' = [gen EXCEPT ![t] = g % FieldMax]
         /\ stack' = Append(st, [node |-> t, i |-> 1])
         /\ visits' = [vs EXCEPT ![t] = @ + 1]

Enter(t, g, st, vs) ==
    IF t = Null \/ gen[t] = g
    THEN /\ stack' = st
         /\ UNCHANGED gen
         /\ visits' = vs
    ELSE /\ gen' = [gen EXCEPT ![t] = g % FieldMax]
         /\ stack' = Append(st, [node |-> t, i |-> 1])
         /\ visits' = [vs EXCEPT ![t] = @ + 1]

\* tree_visit(t): the next generation for the whole visit
BeginVisit(t) ==
    /\ nextGen <= MaxGen
    /\ curGen' = nextGen
    /\ nextGen' = nextGen + 1
    /\ Enter(t, nextGen, <<>>, NoVisits)

(***************************************************************************)
(* tree_write on entry: NULL writes the null marker; a tree whose field   *)
(* equals the context's generation writes a back reference to its index;  *)
(* otherwise the field and the index are set, the kind is written and a   *)
(* frame for its slots is pushed.                                         *)
(***************************************************************************)
WriteEnter(t, st) ==
    CASE t = Null ->
            /\ out' = Append(out, NullTok)
            /\ stack' = st
            /\ UNCHANGED <<gen, index, nWritten, visits>>
      [] t # Null /\ gen[t] = curGen ->
            /\ out' = Append(out, BackTok(index[t]))
            /\ stack' = st
            /\ UNCHANGED <<gen, index, nWritten, visits>>
      [] OTHER ->
            /\ gen' = [gen EXCEPT ![t] = curGen % FieldMax]
            /\ index' = [index EXCEPT ![t] = nWritten]
            /\ nWritten' = nWritten + 1
            /\ out' = Append(out, NewTok(t))
            /\ stack' = Append(st, [node |-> t, i |-> 1])
            /\ visits' = [visits EXCEPT ![t] = @ + 1]

-----------------------------------------------------------------------------
Init ==
    /\ gen = [t \in Nodes |-> 0]
    /\ index = [t \in Nodes |-> 0]
    /\ nextGen = 1
    /\ alive = Nodes
    /\ phase = "idle"
    /\ curGen = 0
    /\ stack = <<>>
    /\ pending = <<>>
    /\ base = 0
    /\ nWritten = 0
    /\ out = <<>>
    /\ root = Null
    /\ file = NoFile
    /\ visits = NoVisits

\* a tree_visit from elab_copy or a dump
TreeVisit(t) ==
    /\ phase = "idle"
    /\ t \in alive
    /\ BeginVisit(t)
    /\ phase' = "visit"
    /\ UNCHANGED <<alive, pending, base, writeVars>>

\* mutant: the slot cursor is not advanced
VisitStepNoAdvance ==
    /\ phase \in {"visit", "mark"}
    /\ stack # <<>>
    /\ IF HasSlot
       THEN Enter(NextSlot, curGen, stack, visits)
       ELSE /\ stack' = SubSeq(stack, 1, Len(stack) - 1)
            /\ UNCHANGED <<gen, visits>>
    /\ ~Crashed
    /\ UNCHANGED <<nextGen, alive, phase, curGen, pending, base, writeVars>>

\* one step of tree_visit_aux: follow the next slot, or return
VisitStep ==
    /\ phase \in {"visit", "mark"}
    /\ stack # <<>>
    /\ IF HasSlot
       THEN Enter(NextSlot, curGen, Advance(stack), visits)
       ELSE /\ stack' = SubSeq(stack, 1, Len(stack) - 1)
            /\ UNCHANGED <<gen, visits>>
    /\ ~Crashed
    /\ UNCHANGED <<nextGen, alive, phase, curGen, pending, base, writeVars>>

\* the outermost tree_visit returns
VisitDone ==
    /\ phase = "visit"
    /\ stack = <<>>
    /\ phase' = "idle"
    /\ UNCHANGED <<gen, nextGen, alive, pending, base, visitVars, writeVars>>

\* lib_save of a unit: tree_write_begin, then tree_write of the unit
WriteBegin(t) ==
    /\ phase = "idle"
    /\ t \in TopLevel \cap alive
    /\ nextGen <= MaxGen
    /\ curGen' = nextGen
    /\ nextGen' = nextGen + 1
    /\ gen' = [gen EXCEPT ![t] = nextGen % FieldMax]
    /\ index' = [index EXCEPT ![t] = 0]
    /\ nWritten' = 1
    /\ out' = <<NewTok(t)>>
    /\ stack' = <<[node |-> t, i |-> 1]>>
    /\ visits' = [NoVisits EXCEPT ![t] = 1]
    /\ root' = t
    /\ phase' = "write"
    /\ UNCHANGED <<alive, pending, base, file>>

\* one step of tree_write (write_a and the single slots): the next slot
WriteStep ==
    /\ phase = "write"
    /\ stack # <<>>
    /\ IF HasSlot
       THEN WriteEnter(NextSlot, Advance(stack))
       ELSE /\ stack' = SubSeq(stack, 1, Len(stack) - 1)
            /\ UNCHANGED <<gen, index, nWritten, out, visits>>
    /\ ~Crashed
    /\ UNCHANGED <<nextGen, alive, phase, curGen, pending, base, root, file>>

\* tree_write returns; tree_write_end and fbuf_close leave the file
WriteDone ==
    /\ phase = "write"
    /\ stack = <<>>
    /\ file' = [root |-> root, s |-> out]
    /\ out' = <<>>
    /\ phase' = "idle"
    /\ UNCHANGED <<gen, index, nextGen, alive, pending, base, nWritten, root,
                   visitVars>>

\* tree_gc: base_gen, then the mark loop over all_trees
GcBegin ==
    /\ phase = "idle"
    /\ nextGen + Cardinality(TopLevel) <= MaxGen + 1
    /\ base' = nextGen
    /\ pending' = [k \in 1..Cardinality(TopLevel \cap alive) |->
                     CHOOSE t \in TopLevel \cap alive :
                        Cardinality({u \in TopLevel \cap alive : u < t}) = k - 1]
    /\ phase' = "mark"
    /\ UNCHANGED <<gen, nextGen, alive, visitVars, writeVars>>

\* the mark loop: tree_visit of the next top-level tree
GcMarkNext ==
    /\ phase = "mark"
    /\ stack = <<>>
    /\ pending # <<>>
    /\ BeginVisit(Head(pending))
    /\ pending' = Tail(pending)
    /\ UNCHANGED <<alive, phase, base, writeVars>>

\* mutant: the sweep also frees trees marked with base_gen itself
GcSweepUpTo ==
    /\ phase = "mark"
    /\ stack = <<>>
    /\ pending = <<>>
    /\ alive' = {t \in alive : ~(gen[t] <= base)}
    /\ phase' = "idle"
    /\ UNCHANGED <<gen, nextGen, pending, base, visitVars, writeVars>>

\* the sweep and compaction: free every tree marked below base_gen
GcSweep ==
    /\ phase = "mark"
    /\ stack = <<>>
    /\ pending = <<>>
    /\ alive' = {t \in alive : ~(gen[t] < base)}
    /\ phase' = "idle"
    /\ UNCHANGED <<gen, nextGen, pending, base, visitVars, writeVars>>

\* the process ends; the next command reads its trees afresh (the file stays)
Exit ==
    /\ phase = "idle"
    /\ gen' = [t \in Nodes |-> 0]
    /\ index' = [t \in Nodes |-> 0]
    /\ nextGen' = 1
    /\ alive' = Nodes
    /\ UNCHANGED <<phase, pending, base, nWritten, out, root, file, visitVars>>

Next ==
    \/ \E t \in Nodes : TreeVisit(t)
    \/ VisitStep
    \/ VisitDone
    \/ \E t \in Nodes : WriteBegin(t)
    \/ WriteStep
    \/ WriteDone
    \/ GcBegin
    \/ GcMarkNext
    \/ GcSweep
    \/ Exit

\* single-threaded: a running traversal or collection keeps stepping
Fairness == WF_vars(VisitStep \/ VisitDone \/ WriteStep \/ WriteDone
                    \/ GcMarkNext \/ GcSweep)

Spec == Init /\ [][Next]_vars /\ Fairness

-----------------------------------------------------------------------------
(***************************************************************************)
(* tree_read over a whole file, as a function of the markers: a new tree  *)
(* is stashed in the store before its slots are read (so that a slot may  *)
(* refer back to it), a back reference is store[index], read_a fills the  *)
(* slots in order.  A tree of the store is [label, kids]: label is the    *)
(* tree it was written from, kids are store positions or Null.  A back    *)
(* reference past the store fails tree_read's assert: BadRef.             *)
(***************************************************************************)
BadRef == -1

RECURSIVE ReadTree(_, _, _), ReadSlots(_, _, _, _, _)

\* mutant: the back-reference index taken as a 1-based position
ReadTreeOffByOne(s, p, st) ==
    LET tok == s[p] IN
    CASE tok.k = "null" -> [val |-> Null, pos |-> p + 1, st |-> st]
      [] tok.k = "back" ->
            [val |-> IF tok.index < Len(st) THEN tok.index ELSE BadRef,
             pos |-> p + 1, st |-> st]
      [] OTHER ->
            ReadSlots(s, p + 1,
                      Append(st, [label |-> tok.node, kids |-> <<>>]),
                      Len(st) + 1, tok.n)

ReadTree(s, p, st) ==
    LET tok == s[p] IN
    CASE tok.k = "null" -> [val |-> Null, pos |-> p + 1, st |-> st]
      [] tok.k = "back" ->
            [val |-> IF tok.index < Len(st) THEN tok.index + 1 ELSE BadRef,
             pos |-> p + 1, st |-> st]
      [] OTHER ->
            ReadSlots(s, p + 1,
                      Append(st, [label |-> tok.node, kids |-> <<>>]),
                      Len(st) + 1, tok.n)
ReadSlots(s, p, st, k, m) ==
    IF m = 0 THEN [val |-> k, pos |-> p, st |-> st]
    ELSE LET r == ReadTree(s, p, st) IN
         ReadSlots(s, r.pos, [r.st EXCEPT ![k].kids = Append(@, r.val)], k, m - 1)

\* the tree a read slot stands for
LabelOf(st, v) ==
    IF v = Null THEN Null ELSE IF v \in DOMAIN st THEN st[v].label ELSE BadRef

-----------------------------------------------------------------------------
(* Properties *)

(***************************************************************************)
(* The generation test of tree_visit_aux and of tree_write: within one    *)
(* traversal no tree is entered twice, so a traversal of a cyclic graph   *)
(* (a reference back to an enclosing declaration) is finite, fn runs      *)
(* once per tree, and a shared tree is written once.                      *)
(***************************************************************************)
VisitEntersOnce == \A t \in Nodes : visits[t] <= 1

(***************************************************************************)
(* A tree_visit or a tree_write returns: once started, the traversal gets *)
(* back to idle.                                                          *)
(***************************************************************************)
VisitTerminates == phase \in {"visit", "write"} ~> phase = "idle"

(***************************************************************************)
(* lib_save then lib_get in a later process: tree_read of the file gives  *)
(* back the saved tree with its sharing and cycles -- one read tree per   *)
(* tree reachable from the root, each with the slots of its original.     *)
(***************************************************************************)
ReadBackIsOriginal ==
    file # NoFile =>
        LET r == ReadTree(file.s, 1, <<>>)
            R == ReachFrom({file.root}, {})
        IN /\ r.pos = Len(file.s) + 1
           /\ LabelOf(r.st, r.val) = file.root
           /\ Len(r.st) = Cardinality(R)
           /\ {r.st[k].label : k \in DOMAIN r.st} = R
           /\ \A k \in DOMAIN r.st :
                 [i \in DOMAIN r.st[k].kids |-> LabelOf(r.st, r.st[k].kids[i])]
                    = Kids[r.st[k].label]

(***************************************************************************)
(* The generation marks implement the tree store: every collection frees  *)
(* exactly the unreachable trees and every save writes the reference      *)
(* encoding of the unit.                                                  *)
(***************************************************************************)
Store == INSTANCE TreeStore

ImplementsTreeStore == Store!Spec
=============================================================================
