-------------------------------- MODULE Elab --------------------------------
(***************************************************************************)
(* The elaborator of src/src/elab.c: the recursive expansion of a top      *)
(* level entity into one ELAB unit, with port and generic mapping, net     *)
(* allocation and wiring, block and for-generate expansion.               *)
(*                                                                         *)
(* The C recursion (elab_arch -> elab_decls/elab_stmts -> elab_instance   *)
(* -> elab_arch ...) is a stack of frames here; one step processes one    *)
(* declaration or one statement of the innermost scope, in the order the   *)
(* code does.  Trees are abstracted to records: a signal declaration is    *)
(* [kind, name, width, low]; an actual is [kind, sig, index, lo, hi].     *)
(* A copied declaration is identified by its hierarchical path, so the    *)
(* copy made by elab_copy for each instance or generate iteration is a     *)
(* distinct identity; a declaration elab_copy shares keeps its uid.        *)
(***************************************************************************)
EXTENDS Integers, Sequences, FiniteSets, TLC

CONSTANTS
    Designs,         \* the analysed libraries to elaborate: [top, ents, index, mtime]
    AssertsEnabled,  \* TRUE for a build without NDEBUG
    NoSub,           \* a param whose formal is the whole port
    FuncReplaceMax,  \* FUNC_REPLACE_MAX, the size of elab_funcs' rlist
    MaxFuncBodies    \* bound on the FUNC_BODY decls elab_funcs collects

NetInvalid == -1         \* a net slot never assigned (NETID_INVALID)
Unconstrained == -1       \* the width of a T_UARRAY port type

VARIABLES
    design,     \* the library being elaborated, fixed for a behaviour
    status,     \* "init", "running", "done", "failed", "fatal", "internal_error"
    stack,      \* the C call stack of elab_decls/elab_stmts/for-generate frames
    nextNet,    \* *ctx->next_net
    nets,       \* signal id -> sequence of net ids (tree_nets)
    sigType,    \* signal id -> [width, low] (type_width, range low bound)
    outDecls,   \* ELAB.decls, as declaration identities
    outStmts,   \* ELAB.stmts, as statement paths
    errors,     \* the static error counter of elab.c
    nnets,      \* the "nnets" attribute of the ELAB unit
    fresh,      \* ghost: signals whose nets elab_signal_nets allocated
    assocs      \* ghost: the port associations elab_map recorded

vars == <<design, status, stack, nextNet, nets, sigType, outDecls, outStmts,
          errors, nnets, fresh, assocs>>

Terminal == {"done", "failed", "fatal", "internal_error"}

Ents  == design.ents

SigB(sid) == [kind |-> "sig", sid |-> sid]
LitB      == [kind |-> "literal"]
OpenB     == [kind |-> "open"]
ConstB    == [kind |-> "const"]
IntB(i)   == [kind |-> "int", val |-> i]

(***************************************************************************)
(* pick_arch/find_arch: walk the library index and keep the architecture  *)
(* of the entity that compares newest.  The mtimes compared are those of  *)
(* lib_mtime(work, tree_ident2(arch)), and ident2 of an architecture is   *)
(* its entity, so both sides read the entity's mtime and only the line    *)
(* comparison decides.  No candidate is fatal ("no suitable architecture").*)
(***************************************************************************)
Ident2(arch) == arch.entity

\* the NULL result of find_arch
NoArch == [id |-> "none", entity |-> "", line |-> 0, decls |-> <<>>, stmts |-> <<>>]

RECURSIVE FindArch(_, _, _)
FindArch(ent, idx, best) ==
    IF idx = <<>> THEN best
    ELSE LET t == Head(idx)
             oldMtime == design.mtime[Ident2(best)]
             newMtime == design.mtime[Ident2(t)]
             pick == IF best = NoArch THEN t
                     ELSE IF newMtime = oldMtime
                          THEN IF t.line > best.line THEN t ELSE best
                          ELSE IF newMtime > oldMtime THEN t ELSE best
         IN FindArch(ent, Tail(idx), IF t.entity = ent THEN pick ELSE best)

PickArch(ent) == FindArch(ent, design.index, NoArch)

(***************************************************************************)
(* The names a scope's signal declarations bind, after elab_copy: each    *)
(* refers to the copy at path \o <<name>>.                                 *)
(***************************************************************************)
DeclEnv(path, decls) ==
    LET names == {decls[k].name : k \in {j \in DOMAIN decls :
                                           decls[j].kind = "signal"}}
    IN [n \in names |-> SigB(path \o <<n>>)]

ScopeFrame(path, env, decls, stmts) ==
    [kind |-> "scope", path |-> path, env |-> DeclEnv(path, decls) @@ env,
     decls |-> decls, stmts |-> stmts]

\* an index expression: a literal, or the GENVAR rewritten to one
IndexVal(env, ix) == IF ix.kind = "int" THEN ix.val ELSE env[ix.name].val

(***************************************************************************)
(* The actual of a param after rewrite_refs has run over the enclosing    *)
(* scope: a reference to a formal bound to a literal was replaced by the  *)
(* literal, one bound to OPEN was deleted (its slot is NULL, and          *)
(* tree_value of the param is then an illegal access).                    *)
(***************************************************************************)
Effective(env, a) ==
    IF a.kind \in {"literal", "open"} THEN [kind |-> a.kind]
    ELSE LET b == env[a.sig] IN
         CASE b.kind = "sig" ->
                [kind |-> a.kind, sid |-> b.sid,
                 index |-> IF a.kind = "array_ref" THEN IndexVal(env, a.index)
                           ELSE 0,
                 lo |-> a.lo, hi |-> a.hi]
           [] b.kind = "const" -> [kind |-> "const"]
           [] b.kind = "literal" /\ a.kind = "ref" -> [kind |-> "literal"]
           [] OTHER -> [kind |-> "illegal"]

\* mutant: the slice width computed from the bounds in the wrong order
ActualWidthSwapped(e) ==
    CASE e.kind = "ref"       -> sigType[e.sid].width
      [] e.kind = "array_ref" -> 1
      [] e.kind = "slice"     -> e.lo - e.hi

\* type_width(tree_type(actual)) and the low bound of the actual's type
ActualWidth(e) ==
    CASE e.kind = "ref"       -> sigType[e.sid].width
      [] e.kind = "array_ref" -> 1
      [] e.kind = "slice"     -> e.hi - e.lo + 1
ActualLow(e) ==
    CASE e.kind = "ref"       -> sigType[e.sid].low
      [] e.kind = "array_ref" -> 0
      [] e.kind = "slice"     -> e.lo

\* mutant: the element index is ignored, every element is element 0
ElabGetNetNoIndex(ns, e, n) ==
    LET low == sigType[e.sid].low IN
    CASE e.kind = "ref"       -> ns[e.sid][n + 1]
      [] e.kind = "array_ref" -> ns[e.sid][n + 1]
      [] e.kind = "slice"     -> ns[e.sid][n - low + e.lo + 1]

\* elab_get_net: the n-th net (from 0) of a signal-valued expression
ElabGetNet(ns, e, n) ==
    LET low == sigType[e.sid].low IN
    CASE e.kind = "ref"       -> ns[e.sid][n + 1]
      [] e.kind = "array_ref" -> ns[e.sid][n + (e.index - low) + 1]
      [] e.kind = "slice"     -> ns[e.sid][n - low + e.lo + 1]

\* tree_change_net (spec 4.5.5): set slot n, growing with NETID_INVALID
ChangeNet(s, n, v) ==
    [k \in 1..(IF n + 1 > Len(s) THEN n + 1 ELSE Len(s)) |->
        IF k = n + 1 THEN v ELSE IF k <= Len(s) THEN s[k] ELSE NetInvalid]

SigTypes(path, decls) ==
    LET ks == {j \in DOMAIN decls : decls[j].kind = "signal"}
    IN [sid \in {path \o <<decls[j].name>> : j \in ks} |->
          LET d == decls[CHOOSE j \in ks : path \o <<decls[j].name>> = sid]
          IN [width |-> d.width, low |-> d.low]]

(***************************************************************************)
(* elab_map: one pass over the actuals of an instance (ports, or generics)*)
(* threading the state the C loop mutates: the bindings the rewrites give *)
(* the formals, the signals elab_port_to_signal adds to the copied arch,  *)
(* the LIFO map list, have_formals, and a failed assertion.               *)
(***************************************************************************)
FormalOf(formals, p) ==
    IF p.pos > 0 THEN p.pos
    ELSE CHOOSE j \in DOMAIN formals :
            /\ formals[j].name = p.formal
            /\ \A k \in 1..(j - 1) : formals[k].name # p.formal

\* elab_signal_port with elab_port_to_signal, for one param
SignalPort(st, path, archSigs, f, p, e) ==
    IF e.kind \in {"ref", "array_ref", "slice"}
    THEN LET sid    == path \o <<f.name>>
             reuse  == f.name \in archSigs \cup DOMAIN st.created
             styp   == IF reuse THEN st.types[sid]
                       ELSE [width |-> ActualWidth(e), low |-> ActualLow(e)]
             baseLo == sigType[e.sid].low
         IN [st EXCEPT
               !.env  = (f.name :> SigB(sid)) @@ @,
               !.created = IF reuse THEN @ ELSE (f.name :> sid) @@ @,
               !.types = (sid :> styp) @@ @,
               !.decls = IF reuse THEN @
                         ELSE Append(@, [kind |-> "signal", name |-> f.name,
                                         width |-> styp.width, low |-> styp.low]),
               !.maps = <<[formal |-> f, actual |-> e, signal |-> sid,
                           name |-> p.sub]>> \o @,
               !.ghost = @ \cup {[signal |-> sid, base |-> e.sid,
                                  off |-> CASE e.kind = "ref" -> 0
                                            [] e.kind = "array_ref" -> e.index - baseLo
                                            [] e.kind = "slice" -> e.lo - baseLo,
                                  awidth |-> ActualWidth(e), fwidth |-> f.width,
                                  sub |-> p.sub]}]
    ELSE CASE e.kind = "const"   -> [st EXCEPT !.env = (f.name :> ConstB) @@ @]
           [] e.kind = "literal" -> [st EXCEPT !.env = (f.name :> LitB) @@ @]
           [] e.kind = "open"    -> [st EXCEPT !.env = (f.name :> OpenB) @@ @]
           [] OTHER              -> [st EXCEPT !.bad = TRUE]

RECURSIVE MapActuals(_, _, _, _, _, _)
MapActuals(st, path, archSigs, env, formals, params) ==
    IF params = <<>> THEN st
    ELSE LET p  == Head(params)
             j  == FormalOf(formals, p)
             f  == formals[j]
             e  == Effective(env, p.actual)
             st1 == [st EXCEPT !.have = @ \cup {j}]
             st2 == IF e.kind = "illegal" THEN [st1 EXCEPT !.bad = TRUE]
                    ELSE IF f.class = "signal"
                         THEN SignalPort(st1, path, archSigs, f, p, e)
                         ELSE [st1 EXCEPT !.env = (f.name :>
                                  IF e.kind = "literal" THEN LitB ELSE ConstB) @@ @]
         IN MapActuals(st2, path, archSigs, env, formals, Tail(params))

\* the "Assign default values" loop: assert(tree_has_value(f))
MapDefaults(st, formals) ==
    LET missing == (DOMAIN formals) \ st.have
        noDef   == {j \in missing : ~formals[j].default}
    IN IF noDef # {} /\ AssertsEnabled THEN [st EXCEPT !.bad = TRUE]
       ELSE [st EXCEPT !.env = [n \in {formals[j].name : j \in missing} |->
                                  IF \E j \in missing \ noDef : formals[j].name = n
                                  THEN ConstB ELSE OpenB] @@ @]

ElabMap(st, path, archSigs, env, formals, params) ==
    MapDefaults(MapActuals([st EXCEPT !.have = {}, !.maps = <<>>],
                           path, archSigs, env, formals, params), formals)

(***************************************************************************)
(* elab_map_nets over the LIFO map list.                                  *)
(***************************************************************************)
RECURSIVE MapNets(_, _, _, _)
MapNets(types, ns, errs, maps) ==
    IF maps = <<>> THEN [nets |-> ns, errors |-> errs]
    ELSE LET m     == Head(maps)
             cur   == IF m.signal \in DOMAIN ns THEN ns[m.signal] ELSE <<>>
             ftype == types[m.signal]
             aw    == ActualWidth(m.actual)
         IN IF m.name = NoSub
            THEN IF ftype.width # Unconstrained /\ ftype.width # aw
                 THEN MapNets(types, ns, errs + 1, Tail(maps))
                 ELSE MapNets(types, (m.signal :> cur \o [i \in 1..aw |->
                                 ElabGetNet(ns, m.actual, i - 1)]) @@ ns,
                              errs, Tail(maps))
            ELSE MapNets(types, (m.signal :> ChangeNet(cur, m.name - m.formal.low,
                                               ElabGetNet(ns, m.actual, 0))) @@ ns,
                         errs, Tail(maps))

(***************************************************************************)
(* elab_funcs and rewrite_funcs.  The FUNC_BODY decls of the package       *)
(* bodies of the contexts, in order, are a sequence of keys: a key stands  *)
(* for an ident and a type, which rewrite_funcs compares together.  A call *)
(* is its reference: the declaration (body = 0) or the j-th body.          *)
(***************************************************************************)

\* rewrite_funcs: the first body of rlist with the ident and type of the ref
RewriteFuncs(ref, bodies, rlist) ==
    LET m == {i \in DOMAIN rlist : bodies[rlist[i]] = ref.key} IN
    IF m = {} THEN ref
    ELSE [ref EXCEPT !.body = rlist[CHOOSE i \in m : \A i2 \in m : i <= i2]]

\* tree_rewrite of the architecture with rewrite_funcs: every call
TreeRewriteFuncs(refs, bodies, rlist) ==
    [c \in DOMAIN refs |-> RewriteFuncs(refs[c], bodies, rlist)]

RECURSIVE FuncsLoop(_, _, _, _)

\* mutant: a flush empties the list and forgets the body that found it full
FuncsLoopDropOnFlush(bodies, j, rlist, refs) ==
    IF j > Len(bodies)
    THEN IF rlist # <<>> THEN TreeRewriteFuncs(refs, bodies, rlist) ELSE refs
    ELSE IF Len(rlist) + 1 = FuncReplaceMax
         THEN FuncsLoop(bodies, j + 1, <<>>, TreeRewriteFuncs(refs, bodies, rlist))
         ELSE FuncsLoop(bodies, j + 1, Append(rlist, j), refs)

\* the loop over the bodies: the list is flushed when one more entry would
\* leave no room for the NULL terminator, and once more at the end
FuncsLoop(bodies, j, rlist, refs) ==
    IF j > Len(bodies)
    THEN IF rlist # <<>> THEN TreeRewriteFuncs(refs, bodies, rlist) ELSE refs
    ELSE IF Len(rlist) + 1 = FuncReplaceMax
         THEN FuncsLoop(bodies, j + 1, <<j>>, TreeRewriteFuncs(refs, bodies, rlist))
         ELSE FuncsLoop(bodies, j + 1, Append(rlist, j), refs)

ElabFuncs(bodies, refs) == FuncsLoop(bodies, 1, <<>>, refs)

\* the reference: one table of all the bodies, unbounded, scanned as
\* rewrite_funcs scans it
OneTable(bodies, ref) ==
    LET m == {j \in DOMAIN bodies : bodies[j] = ref.key} IN
    IF m = {} THEN ref
    ELSE [ref EXCEPT !.body = CHOOSE j \in m : \A j2 \in m : j <= j2]

\* the bounded inputs: every list of bodies of keys "f", "g" and "h", and
\* one call of each of them and of "k" (which has no body).  Three keys are
\* one more than a batch holds, so a list of distinct keys is flushed
\* in the middle of the loop and again at its end.
FuncBodyLists == UNION {[1..n -> {"f", "g", "h"}] : n \in 0..MaxFuncBodies}
FuncCalls == [c \in {"f", "g", "h", "k"} |-> [key |-> c, body |-> 0]]

-----------------------------------------------------------------------------
Top     == stack[Len(stack)]
PopStmt == [stack EXCEPT ![Len(stack)].stmts = Tail(@)]
PopDecl == [stack EXCEPT ![Len(stack)].decls = Tail(@)]
Running == status = "running" /\ stack # <<>>

\* the head of the innermost scope's statements, once its decls are done
StmtReady(kind) ==
    /\ Running
    /\ Top.kind = "scope"
    /\ Top.decls = <<>>
    /\ Top.stmts # <<>>
    /\ Head(Top.stmts).kind = kind

DeclReady(kinds) ==
    /\ Running
    /\ Top.kind = "scope"
    /\ Top.decls # <<>>
    /\ Head(Top.decls).kind \in kinds

Init ==
    /\ design   \in Designs
    /\ status   = "init"
    /\ stack    = <<>>
    /\ nextNet  = 0
    /\ nets     = <<>>
    /\ sigType  = <<>>
    /\ outDecls = <<>>
    /\ outStmts = <<>>
    /\ errors   = 0
    /\ nnets    = 0
    /\ fresh    = {}
    /\ assocs   = {}

\* elab() and elab_entity: the top level must have no ports or generics
ElabEntity ==
    LET ent  == Ents[design.top]
        arch == PickArch(design.top)
        path == <<design.top>>
    IN /\ status = "init"
       /\ IF ent.ports # <<>> \/ ent.generics # <<>> \/ arch = NoArch
          THEN /\ status' = "fatal"
               /\ UNCHANGED <<stack, sigType>>
          ELSE /\ status' = "running"
               /\ stack' = <<ScopeFrame(path, <<>>, arch.decls, arch.stmts)>>
               /\ sigType' = SigTypes(path, arch.decls)
       /\ UNCHANGED <<design, nextNet, nets, outDecls, outStmts, errors, nnets,
                      fresh, assocs>>

\* mutants of elab_signal_nets: one net too many (i <= width); numbering
\* restarted at 0 for every signal
AllocNetsLong(w) == [k \in 1..(w + 1) |-> nextNet + k - 1]
AllocNetsFromZero(w) == [k \in 1..w |-> k - 1]

\* elab_signal_nets: the next width ids of *ctx->next_net
AllocNets(w) == [k \in 1..w |-> nextNet + k - 1]

(***************************************************************************)
(* elab_decls for a SIGNAL_DECL: elab_signal_nets gives it width fresh    *)
(* nets unless a port map already gave it some, then it is renamed and    *)
(* appended to ELAB.decls.                                                *)
(***************************************************************************)
ElabSignalDecl ==
    LET d   == Head(Top.decls)
        sid == Top.path \o <<d.name>>
        has == sid \in DOMAIN nets /\ nets[sid] # <<>>
        w   == sigType[sid].width
    IN /\ DeclReady({"signal"})
       /\ stack' = PopDecl
       /\ IF has
          THEN UNCHANGED <<nets, nextNet, fresh>>
          ELSE /\ nets' = (sid :> AllocNets(w)) @@ nets
               /\ nextNet' = nextNet + w
               /\ fresh' = fresh \cup {sid}
       /\ outDecls' = Append(outDecls, sid)
       /\ UNCHANGED <<design, status, sigType, outStmts, errors, nnets, assocs>>

\* FUNC_BODY, VAR_DECL ...: renamed and appended.  A node elab_copy did
\* not copy (a body holding nothing the copy predicate selects) is the
\* one shared node for every instance.
ElabBodyDecl ==
    LET d == Head(Top.decls)
    IN /\ DeclReady({"func_body", "var"})
       /\ stack' = PopDecl
       /\ outDecls' = Append(outDecls,
                        IF d.kind = "var" \/ d.hasVar THEN Top.path \o <<d.name>>
                        ELSE <<"shared", d.uid>>)
       /\ UNCHANGED <<design, status, nextNet, nets, sigType, outStmts, errors, nnets,
                      fresh, assocs>>

\* FUNC_DECL is only renamed; other kinds were folded away
ElabOtherDecl ==
    /\ DeclReady({"func_decl", "type"})
    /\ stack' = PopDecl
    /\ UNCHANGED <<design, status, nextNet, nets, sigType, outDecls, outStmts, errors,
                   nnets, fresh, assocs>>

\* elab_stmts default case: the statement is appended to ELAB.stmts
ElabProcess ==
    /\ StmtReady("process")
    /\ stack' = PopStmt
    /\ outStmts' = Append(outStmts, Top.path \o <<Head(Top.stmts).label>>)
    /\ UNCHANGED <<design, status, nextNet, nets, sigType, outDecls, errors, nnets,
                   fresh, assocs>>

\* elab_block: decls then stmts under path:label, seeing the outer names
ElabBlock ==
    LET s    == Head(Top.stmts)
        path == Top.path \o <<s.label>>
    IN /\ StmtReady("block")
       /\ stack' = Append(PopStmt, ScopeFrame(path, Top.env, s.decls, s.stmts))
       /\ sigType' = SigTypes(path, s.decls) @@ sigType
       /\ UNCHANGED <<design, status, nextNet, nets, outDecls, outStmts, errors, nnets,
                      fresh, assocs>>

\* an IF-GENERATE the simplifier did not fold is fatal
ElabIfGenerate ==
    /\ StmtReady("if_generate")
    /\ status' = "fatal"
    /\ UNCHANGED <<design, stack, nextNet, nets, sigType, outDecls, outStmts, errors,
                   nnets, fresh, assocs>>

\* elab_for_generate: range_bounds, then one copy of the body per value
ElabForGenerate ==
    LET s == Head(Top.stmts)
    IN /\ StmtReady("for_generate")
       /\ stack' = Append(PopStmt, [kind |-> "gen", path |-> Top.path \o <<s.label>>,
                                    env |-> Top.env, gen |-> s, i |-> s.low])
       /\ UNCHANGED <<design, status, nextNet, nets, sigType, outDecls, outStmts, errors,
                      nnets, fresh, assocs>>

\* one iteration: copy, rewrite the GENVAR to the literal i, path[i]
GenerateIteration ==
    LET g    == Top
        path == g.path \o <<g.i>>
        env  == (g.gen.genvar :> IntB(g.i)) @@ g.env
    IN /\ Running
       /\ g.kind = "gen"
       /\ g.i <= g.gen.high
       /\ stack' = Append([stack EXCEPT ![Len(stack)].i = @ + 1],
                          ScopeFrame(path, env, g.gen.decls, g.gen.stmts))
       /\ sigType' = SigTypes(path, g.gen.decls) @@ sigType
       /\ UNCHANGED <<design, status, nextNet, nets, outDecls, outStmts, errors, nnets,
                      fresh, assocs>>

\* mutant: only declaration/statement scopes end; a finished
\* for-generate loop is never left
ScopeDoneNoGen ==
    /\ Running
    /\ Top.kind = "scope" /\ Top.decls = <<>> /\ Top.stmts = <<>>
    /\ stack' = SubSeq(stack, 1, Len(stack) - 1)
    /\ UNCHANGED <<design, status, nextNet, nets, sigType, outDecls, outStmts, errors,
                   nnets, fresh, assocs>>

\* the end of a scope: the loop of elab_stmts/elab_for_generate exits;
\* for an architecture elab_arch then runs fixup_entity_refs and renames
ScopeDone ==
    /\ Running
    /\ \/ Top.kind = "scope" /\ Top.decls = <<>> /\ Top.stmts = <<>>
       \/ Top.kind = "gen" /\ Top.i > Top.gen.high
    /\ stack' = SubSeq(stack, 1, Len(stack) - 1)
    /\ UNCHANGED <<design, status, nextNet, nets, sigType, outDecls, outStmts, errors,
                   nnets, fresh, assocs>>

\* the tail of elab(): NULL when errors were counted, else attach nnets
Finish ==
    /\ status = "running"
    /\ stack = <<>>
    /\ IF errors > 0
       THEN status' = "failed" /\ UNCHANGED nnets
       ELSE status' = "done" /\ nnets' = nextNet
    /\ UNCHANGED <<design, stack, nextNet, nets, sigType, outDecls, outStmts, errors,
                   fresh, assocs>>

(***************************************************************************)
(* elab_instance, whole: pick and copy the architecture, elab_map for     *)
(* ports then generics, elab_map_nets, then elab_arch of the copy with    *)
(* the path unchanged (the statement's path:label).                       *)
(***************************************************************************)
ElabInstance ==
    LET s        == Head(Top.stmts)
        ent      == Ents[s.entity]
        arch     == PickArch(s.entity)
        path     == Top.path \o <<s.label>>
        archSigs == {arch.decls[j].name :
                       j \in {k \in DOMAIN arch.decls : arch.decls[k].kind = "signal"}}
        st0      == [env |-> <<>>, created |-> <<>>, decls |-> <<>>,
                     types |-> SigTypes(path, arch.decls), maps |-> <<>>,
                     have |-> {}, bad |-> FALSE, ghost |-> {}]
    IN /\ StmtReady("instance")
       /\ IF s.class # "entity" \/ arch = NoArch
          THEN /\ status' = "fatal"
               /\ UNCHANGED <<stack, nets, sigType, errors, assocs>>
          \* elab_map of the ports, then of the generics, then elab_map_nets;
          \* each result is computed once and named
          ELSE \E stP \in {ElabMap(st0, path, archSigs, Top.env, ent.ports, s.params)} :
               \E stG \in {ElabMap(stP, path, archSigs, Top.env, ent.generics, s.genmaps)} :
                 IF stG.bad
                 THEN /\ status' = "internal_error"
                      /\ UNCHANGED <<stack, nets, sigType, errors, assocs>>
                 ELSE \E wired \in {MapNets(stG.types @@ sigType, nets, errors, stP.maps)} :
                      /\ stack' = Append(PopStmt, ScopeFrame(path, stG.env,
                                          arch.decls \o stG.decls, arch.stmts))
                      /\ sigType' = stG.types @@ sigType
                      /\ nets' = wired.nets
                      /\ errors' = wired.errors
                      /\ assocs' = assocs \cup stP.ghost
                      /\ UNCHANGED status
       /\ UNCHANGED <<design, nextNet, outDecls, outStmts, nnets, fresh>>

Next ==
    \/ ElabEntity
    \/ ElabSignalDecl
    \/ ElabBodyDecl
    \/ ElabOtherDecl
    \/ ElabProcess
    \/ ElabBlock
    \/ ElabIfGenerate
    \/ ElabForGenerate
    \/ GenerateIteration
    \/ ElabInstance
    \/ ScopeDone
    \/ Finish

\* elaboration is one synchronous call: it keeps running until it returns
Spec == Init /\ [][Next]_vars /\ WF_vars(Next)

-----------------------------------------------------------------------------
(* Properties *)

\* the declarations elaborated into ELAB whose nets are checked
ElabSignals == {outDecls[k] : k \in DOMAIN outDecls} \cap DOMAIN sigType

TypeOK ==
    /\ status \in {"init", "running"} \cup Terminal
    /\ nextNet \in Nat
    /\ errors \in Nat
    /\ \A sid \in DOMAIN nets : \A k \in DOMAIN nets[sid] :
          nets[sid][k] \in Nat \cup {NetInvalid}
    /\ fresh \subseteq DOMAIN nets
    /\ \A sid \in DOMAIN sigType : sigType[sid].width \in Nat

(***************************************************************************)
(* Spec 8.1, elab_signal_nets/elab_map_nets: when elaboration succeeds,   *)
(* every signal in ELAB.decls carries exactly type_width(type) nets, each *)
(* a valid net id below nnets.                                            *)
(***************************************************************************)
NetsMatchWidth ==
    status = "done" =>
        \A sid \in ElabSignals :
            /\ sid \in DOMAIN nets
            /\ Len(nets[sid]) = sigType[sid].width
            /\ \A k \in DOMAIN nets[sid] : nets[sid][k] \in 0..(nnets - 1)

(***************************************************************************)
(* Spec 8.1 "densely numbered": the nets allocated by elab_signal_nets    *)
(* across every scope and instance are pairwise disjoint and together are *)
(* exactly 0 .. nnets-1; a port signal owns no net of its own.            *)
(***************************************************************************)
FreshNetsPartition ==
    status = "done" =>
        /\ \A s1, s2 \in fresh : s1 # s2 =>
              {nets[s1][k] : k \in DOMAIN nets[s1]}
                \cap {nets[s2][k] : k \in DOMAIN nets[s2]} = {}
        /\ UNION {{nets[sd][k] : k \in DOMAIN nets[sd]} : sd \in fresh}
              = 0..(nnets - 1)

(***************************************************************************)
(* elab_signal_port + elab_get_net: a formal associated as a whole with a *)
(* signal, an element or a slice of a signal shares exactly that part of  *)
(* the actual's nets, in order, through any number of levels.             *)
(***************************************************************************)
PortNetsAreActualNets ==
    status = "done" =>
        \A m \in assocs : m.sub = NoSub =>
            nets[m.signal] = [i \in 1..m.awidth |-> nets[m.base][m.off + i]]

(***************************************************************************)
(* elab() returns: from any library, elaboration reaches a result -- the  *)
(* ELAB unit, NULL after counted errors, or a fatal exit.                 *)
(***************************************************************************)
ElabTerminates == <>(status \in Terminal)

(***************************************************************************)
(* Spec scenario S6, elab_map_nets: an actual whose width differs from a  *)
(* constrained formal's is reported ("actual width %d does not match      *)
(* formal width %d"), so a successful elaboration has none.               *)
(***************************************************************************)
WidthMismatchReported ==
    status = "done" =>
        \A m \in assocs : m.sub = NoSub /\ m.fwidth # Unconstrained =>
            m.awidth = m.fwidth

(***************************************************************************)
(* elab_map: a formal left unassociated is given its default value; an    *)
(* out port with no default is legal VHDL and must not abort elaboration. *)
(***************************************************************************)
LegalDesignNoAbort == status # "internal_error"

(***************************************************************************)
(* Spec 4 (elab_funcs): "build a replacement table keyed by (ident, type) *)
(* ... Table capacity is bounded: when full, flush by rewriting, then      *)
(* continue."  Flushing one entry before FUNC_REPLACE_MAX, restarting the  *)
(* list with the body that found it full, and the rewrite of the last     *)
(* partial batch together lose no body: whatever the list of bodies and    *)
(* wherever the flushes fall, a call ends bound to a body exactly when one *)
(* unbounded table would bind it, and always to a body of its own ident   *)
(* and type.  It holds from elab_entity on, which runs elab_funcs on the   *)
(* top-level architecture.                                                *)
(***************************************************************************)
ElabFuncsBindsEveryCall ==
    status # "init" =>
    \A bodies \in FuncBodyLists :
        LET out == ElabFuncs(bodies, FuncCalls) IN
        \A c \in DOMAIN FuncCalls :
            /\ (out[c].body = 0) <=> (OneTable(bodies, FuncCalls[c]).body = 0)
            /\ out[c].body # 0 => bodies[out[c].body] = c

(***************************************************************************)
(* Spec 8.2, pick_arch/find_arch: of two architectures of one entity the  *)
(* one with the newer mtime is chosen.                                    *)
(***************************************************************************)
PickArchNewest ==
    \A e \in DOMAIN Ents :
        LET a == PickArch(e) IN
        a # NoArch =>
            \A k \in DOMAIN design.index :
                design.index[k].entity = e =>
                    design.mtime[design.index[k].id] <= design.mtime[a.id]
=============================================================================
