------------------------------ MODULE MC_Elab ------------------------------
(***************************************************************************)
(* Libraries for Elab.  One family of three-level designs:                *)
(*                                                                         *)
(*   TOP(A):  signal a : (L .. L+2);  process proc;                       *)
(*            g : for i in L to L+1 generate                               *)
(*                  signal s;  u : entity MID port map (p => <actual>);    *)
(*   MID(M):  signal m;  function f (shared);                             *)
(*            v : entity LEAF port map (x => p, y => m);                   *)
(*   LEAF(R1), LEAF(R2): two architectures analysed from one file;        *)
(*            R2 has a block b declaring signal q.                         *)
(*                                                                         *)
(* The actual of p ranges over a whole signal, an element indexed by the  *)
(* genvar, a slice, a literal; the low bound L over {0, 2}; the formals   *)
(* p and x over constrained and unconstrained.                            *)
(***************************************************************************)
EXTENDS Elab

Port(n, w, l, def) ==
    [name |-> n, class |-> "signal", width |-> w, low |-> l, default |-> def]
Generic(n, def) ==
    [name |-> n, class |-> "constant", width |-> 1, low |-> 0, default |-> def]
Sig(n, w, l) == [kind |-> "signal", name |-> n, width |-> w, low |-> l]
Act(k, s, ix, lo, hi) == [kind |-> k, sig |-> s, index |-> ix, lo |-> lo, hi |-> hi]
Named(f, a)      == [pos |-> 0, formal |-> f, sub |-> NoSub, actual |-> a]
NamedSub(f, j, a) == [pos |-> 0, formal |-> f, sub |-> j, actual |-> a]
Inst(lbl, e, ps, gs) ==
    [kind |-> "instance", label |-> lbl, entity |-> e, class |-> "entity",
     params |-> ps, genmaps |-> gs]
Proc(lbl) == [kind |-> "process", label |-> lbl]

LeafR1 == [id |-> "LEAF-R1", entity |-> "LEAF", line |-> 10,
           decls |-> <<Sig("l", 1, 0)>>, stmts |-> <<Proc("pl")>>]
LeafR2 == [id |-> "LEAF-R2", entity |-> "LEAF", line |-> 20,
           decls |-> <<>>,
           stmts |-> <<[kind |-> "block", label |-> "b",
                        decls |-> <<Sig("q", 1, 0), [kind |-> "type", name |-> "t"]>>,
                        stmts |-> <<Proc("pb")>>]>>]

MidArch(xmap) ==
    [id |-> "MID-M", entity |-> "MID", line |-> 5,
     decls |-> <<Sig("m", 1, 0),
                 [kind |-> "func_body", name |-> "f", uid |-> "f", hasVar |-> FALSE],
                 [kind |-> "func_decl", name |-> "h"]>>,
     stmts |-> <<Inst("v", "LEAF", xmap, <<>>)>>]

TopArch(L, actual) ==
    [id |-> "TOP-A", entity |-> "TOP", line |-> 1,
     decls |-> <<Sig("a", 3, L), [kind |-> "var", name |-> "sv"]>>,
     stmts |-> <<Proc("proc"),
                 [kind |-> "for_generate", label |-> "g", genvar |-> "i",
                  low |-> L, high |-> L + 1,
                  decls |-> <<Sig("s", 1, 0)>>,
                  stmts |-> <<Inst("u", "MID", <<Named("p", actual)>>,
                                   <<[pos |-> 1, formal |-> "n", sub |-> NoSub,
                                      actual |-> Act("literal", "", IntB(0), 0, 0)]>>)>>]>>]

Units == {"TOP", "MID", "LEAF", "TOP-A", "MID-M", "LEAF-R1", "LEAF-R2"}

LibM(L, actual, pw, xw, ydef, xmap, mt) ==
    [top   |-> "TOP",
     ents  |-> [e \in {"TOP", "MID", "LEAF"} |->
                  CASE e = "TOP" -> [ports |-> <<>>, generics |-> <<>>]
                    [] e = "MID" -> [ports |-> <<Port("p", pw, 0, FALSE)>>,
                                     generics |-> <<Generic("n", TRUE)>>]
                    [] e = "LEAF" -> [ports |-> <<Port("x", xw, 0, FALSE),
                                                  Port("y", 1, 0, ydef)>>,
                                      generics |-> <<Generic("k", TRUE)>>]],
     index |-> <<TopArch(L, actual), LeafR1, MidArch(xmap), LeafR2>>,
     mtime |-> mt]

\* every unit analysed in the same second
SameTime == [u \in Units |-> 1]

Lib(L, actual, pw, xw, ydef, xmap) == LibM(L, actual, pw, xw, ydef, xmap, SameTime)

XY == <<Named("x", Act("ref", "p", IntB(0), 0, 0)), Named("y", Act("ref", "m", IntB(0), 0, 0))>>

\* an actual for p and the width of p it needs
Actuals(L) ==
    { <<Act("ref", "a", IntB(0), 0, 0), 3>>,
      <<Act("array_ref", "a", [kind |-> "name", name |-> "i"], 0, 0), 1>>,
      <<Act("slice", "a", IntB(0), L + 1, L + 2), 2>>,
      <<Act("literal", "", IntB(0), 0, 0), 1>> }

\* legal designs: every width matches, every formal is associated or has
\* a default
LegalDesignsAt(L) ==
    UNION { { Lib(L, aw[1], pw, xw, TRUE, XY) :
                pw \in {aw[2], Unconstrained}, xw \in {aw[2], Unconstrained} } :
            aw \in Actuals(L) }

LegalDesigns ==
    UNION { LegalDesignsAt(L) : L \in {0, 2} }
      \ { Lib(L, Act("literal", "", IntB(0), 0, 0), Unconstrained, xw, TRUE, XY) :
            L \in {0, 2}, xw \in {1, Unconstrained} }

\* a 2-element slice associated with a 3-element port (spec scenario S6)
MismatchDesigns ==
    { Lib(0, Act("slice", "a", IntB(0), 1, 2), 3, 3, TRUE, XY) }

\* designs elaboration rejects: ports on the top level, an if-generate
\* the simplifier left, an entity with no architecture
FatalDesigns ==
    LET d == Lib(0, Act("ref", "a", IntB(0), 0, 0), 3, 3, TRUE, XY) IN
    { [d EXCEPT !.ents["TOP"].ports = <<Port("t", 1, 0, TRUE)>>],
      [d EXCEPT !.index[1].stmts = <<[kind |-> "if_generate", label |-> "c"]>>],
      [d EXCEPT !.index = <<@[1], @[3]>>] }

\* a composite port associated element by element: p(0) => a(L), p(1) => a(L+1)
PartialDesigns ==
    LET d == Lib(0, Act("ref", "a", IntB(0), 0, 0), 2, Unconstrained, TRUE, XY)
    IN { [d EXCEPT !.index[1].stmts[2].stmts[1].params =
             <<NamedSub("p", 0, Act("array_ref", "a", IntB(0), 0, 0)),
               NamedSub("p", 1, Act("array_ref", "a", IntB(1), 0, 0))>>] }

\* LEAF's out port y has no default and MID leaves it unassociated
UnassocDesigns ==
    { Lib(0, Act("ref", "a", IntB(0), 0, 0), 3, 3, FALSE, <<XY[1]>>) }

\* LEAF-R1 analysed after LEAF-R2, from a later file
ArchDesigns ==
    { LibM(0, Act("ref", "a", IntB(0), 0, 0), 3, 3, TRUE, XY,
           [SameTime EXCEPT !["LEAF-R1"] = 2]) }

PassDesigns == LegalDesigns \cup FatalDesigns
=============================================================================
