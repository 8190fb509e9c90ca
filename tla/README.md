# TLA+ models of nvc

This directory models parts of the VHDL compiler in `src/` so that TLC can
check them. The repository holds seven C files. Each part below says which
module models it.

## 1. The system

| Part | Source | State | Operations | Talks to |
|---|---|---|---|---|
| Elaborator | `src/src/elab.c` | the ELAB tree under construction (decls, stmts), `next_net`, the static `errors`, the hierarchical path/instance names | `elab`, `elab_entity`, `elab_arch`, `elab_decls`, `elab_stmts`, `elab_block`, `elab_for_generate`, `elab_instance` (`elab_map`, `elab_signal_port`, `elab_map_nets`, `elab_get_net`), `elab_signal_nets`, `pick_arch`/`find_arch`, `elab_funcs` | library (`lib_get`, `lib_mtime`, `lib_walk_index`, `lib_put`), tree IR (`tree_copy`, `tree_rewrite`, `tree_change_net`, attributes) |
| Library | `src/src/lib.c` | list of loaded libraries; per library the in-memory units `[top, kind, read_ctx, dirty, mtime]` and the index list; on disk one file per unit and `_index` | `lib_new`, `lib_find` (`lib_find_at`, `lib_init`), `lib_put`, `lib_get`, `lib_get_ctx`, `lib_mtime`, `lib_save`, `lib_walk_index`, `lib_free` | tree IR (`tree_write`/`tree_read`), driver, elaborator |
| Tree IR | `src/src/tree.c` | the allocation list of all trees, each with a 16-bit `generation`; the global `next_generation` | `tree_new`, `tree_gc`, `tree_visit`, `tree_write`, `tree_read`, attributes | every other part |
| Utilities | `src/src/util.c` | the option registry, colour and paging state | `opt_set_int`/`opt_get_int`, `error_at`/`fatal`, `paginate` | every other part |
| Driver | `src/src/nvc.c` | the work library, options | `analyse`, `elaborate`, `run`, `dump` | library, elaborator |
| Shell | `src/src/rt/shell.c` | `have_quit`, the TCL interpreter | `shell_run`'s line loop; TCL commands `restart`, `run`, `quit`, `show`; the exit handler | the simulation slave (`slave_post_msg`, `slave_wait`) |

The elaborator works by recursion. `elab_entity` picks an architecture.
`elab_arch` handles its declarations and then its statements. For an
instance, `elab_instance` does these steps in order:

1. It copies the chosen architecture with `elab_copy`.
2. It maps ports and then generics with `elab_map`. This replaces each
   formal port with a signal and rewrites references to the formal.
3. It wires the nets of each port signal to the nets of its actual with
   `elab_map_nets`.
4. It recurses with the same path.

`elab_decls` gives every signal that has no nets yet the next `width` net
ids from the one shared counter, then appends the signal to ELAB.
`elab_for_generate` makes one copy of its body for each value of the range.

## 2. Modules

### Elab (`Elab.tla`, instantiated by `MC_Elab.tla`)

The C recursion is an explicit stack of frames in `stack`.

- **Frames.** A `"scope"` frame holds the declarations and statements not
  yet processed and the name environment. The environment is what the
  rewrites of `elab_map` and the genvar rewrite have bound each name to. A
  `"gen"` frame holds a for-generate loop and its loop variable `i`.
- **Actions.** Each action processes one declaration or one statement of
  the innermost scope, in the code's order:

  | Action | Code |
  |---|---|
  | `ElabSignalDecl`, `ElabBodyDecl`, `ElabOtherDecl` | the cases of `elab_decls` |
  | `ElabProcess`, `ElabBlock`, `ElabIfGenerate`, `ElabForGenerate`, `ElabInstance` | the cases of `elab_stmts` |
  | `GenerateIteration` | one pass of the loop in `elab_for_generate` |
  | `ScopeDone` | a loop that exits, with `elab_arch`'s fixup |
  | `ElabEntity`, `Finish` | `elab` and `elab_entity` |

- **`ElabInstance`.** It is the whole of `elab_instance`: pick, map the
  ports, map the generics, wire, push the copy. `elab_map` is the recursive
  operator `MapActuals` followed by `MapDefaults`, threading the state the C
  loop mutates. `elab_map_nets` is `MapNets`, walking the LIFO map list.
- **Signal identity.** A signal is identified by its hierarchical path
  (`<<"TOP","g",0,"u","m">>`), so the copy `elab_copy` makes for each
  instance or iteration is a distinct signal. A function body that
  `elab_copy` does not copy keeps one shared identity `<<"shared", uid>>`.
- **Variables.**
  - `nets`: the signal's `tree_nets`.
  - `nextNet`: `*ctx->next_net`.
  - `errors`: the static counter.
  - `outDecls`/`outStmts`: ELAB's children.
- **Ghosts.** `fresh` records which signals `elab_signal_nets` gave nets.
  `assocs` records each whole-port association that `elab_map` made.
- **The design is constant within a behaviour.** It is a record
  `[top, ents, index, mtime]`, standing for the analysed library.
  - `index` is the order `lib_walk_index` yields.
  - `mtime` is `lib_mtime` per unit name.
- **`find_arch`.** `FindArch` walks the index exactly as the callback does,
  including reading the mtime through `tree_ident2` of each candidate.
- **`tree_change_net`.** It is not in `src/` and is modelled from spec
  §4.5.5: set slot n and grow with `NETID_INVALID`.
- **`elab_funcs`.** `ElabFuncs` is the batching loop (`FuncsLoop`) with
  `rewrite_funcs` (`RewriteFuncs`) applied to every call at each flush. A
  body is a key standing for its ident and type; a call is its reference.
  `ElabFuncsBindsEveryCall` compares which calls it binds, over every
  list of up to `MaxFuncBodies` = 4 bodies of three keys, with one
  unbounded table (`OneTable`). `FuncReplaceMax` is 3 instead of 32, so a
  batch holds two bodies: a list of three distinct keys flushes in the
  middle of the loop and again at its end, and longer lists flush twice;
  the loop is the same at every size.
- **Assertions.** The constant `AssertsEnabled` chooses between the two
  builds: `assert` aborts, or with NDEBUG the formal is treated as OPEN.

**Designs** (`MC_Elab.tla`). The family of designs has three levels:

```
TOP:  signal a(L to L+2); process; g: for i in L to L+1 generate
        signal s; u: entity MID port map (p => <actual>) generic map (literal)
MID:  signal m; function f (body without variables); function decl h;
        v: entity LEAF port map (x => p, y => m)
LEAF: two architectures R1 (line 10) and R2 (line 20, a block with a signal)
```

The actual is one of `a`, `a(i)`, `a(L+1 to L+2)` or a literal. The low
bound L is 0 or 2, so a missing low-bound offset is visible. Ports `p` and
`x` are either constrained to the matching width or unconstrained. This
gives 28 legal designs. `FatalDesigns` adds the three fatal exits:
- top ports;
- an unfolded if-generate;
- no architecture.

Every design has two generate iterations. Each iteration instantiates two
nested entities, one of which has two candidate architectures. So the
interesting interactions are all present:
- nets threaded through two levels of port maps;
- copies per iteration;
- a shared body seen twice;
- the architecture tie-break.

### Library (`Library.tla`, instantiated by `MC_Library.tla` and by `Driver`)

One library directory of `lib.c`, followed across any number of nvc
processes. `MC_Library` lets any sequence of calls happen; `Driver` makes
the calls the commands of `nvc.c` make. A tree is abstracted to a version number: each `lib_put` brings
a new one.

- **State.** `units` is `lib->units` (name, version, kind, dirty flag,
  mtime, read context). `index` is `lib->index`, head first. `files` and
  `diskIndex` are the unit files and `_index`. `saving` is the position of
  `lib_save`'s unit loop, so that the process can stop between any two
  writes.
- **Actions.**

  | Action | Code |
  |---|---|
  | `LibPut` | `lib_put` and `lib_put_aux` (`PutAux`, `IndexPut`) |
  | `LibGet` | `lib_get`, `lib_get_ctx`, `lib_mtime` (`GetAux` is `lib_get_aux`) |
  | `LibSaveBegin`, `LibSaveUnit`, `LibSaveIndex` | `lib_save`: entry, one pass of the unit loop, the `_index` write |
  | `Restart` | the process exits at any point; the next one's `lib_init` reads `_index` (`ReadIndex`) |
  | `Tick` | the clock |

- **Time.** `Second` ticks make a second. `lib_put` stamps
  `WholeSeconds(now)`, as `time(NULL)` does. A unit read from disk gets the
  file's exact mtime, as `stat` with `st_mtim` does.
- **Ghosts.** `putAt` holds the tick of each `lib_put`. `latest` holds the
  newest version this process has made or can find on disk.

### Driver (`Driver.tla`, instantiated by `MC_Driver.tla`)

The commands of `nvc.c`, one process after another, over the work library.
- **Composition.** `Driver` declares the variables of `Library` and takes
  it in with `Lib == INSTANCE Library`. Each step of a command is one
  `Library` action (`Lib!LibPut`, `Lib!LibGet`, `Lib!LibSaveBegin`, ...)
  plus the command's own position `pc`. A process end is `Lib!Restart`:
  the next command's `set_work_lib` finds the library with `lib_init`.
- **Design.** One entity `Top` (`E`) and its elaborated unit `TopElab`
  (`E.elab`).
- **Collaborators.** The collaborators outside this repository are reduced
  to their effect. `parse`/`sem_check` puts a unit in the work library or
  counts an error. `elab` puts `TopElab` (`ElabOk`, modelled from
  `elab.c`: `lib_put` only when no errors) or returns NULL
  (`ElabErrors`); its inner steps are the `Elab` module. `cgen` and
  `link_bc` either write the code (`Cgen`) or end the process
  (`CgenFail`). `code` is the `TopElab` version the code on disk was
  generated from.

| Action | Code |
|---|---|
| `Start(c)` | `main` starts and calls `set_default_opts` |
| `SetDefault` | one `opt_set_int` of `set_default_opts` |
| `Dispatch` | `main`'s `getopt_long` finds `-a`, `-e`, `-r` or `--dump` and calls the command |
| `CmdOption(o)`, `ArgsEnd` | one `opt_set_int` of the command's `getopt_long` loop; the end of the loop |
| `AnalyseUnit`, `AnalyseError`, `AnalyseFail`, `AnalyseSave` | `analyse`: the parse/sem_check loop, the error check, `lib_save` |
| `ElabGetTop`, `ElabNoTop`, `ElabOk`, `ElabErrors`, `ElabSave`, `Cgen`, `CgenFail` | `elaborate`: `lib_get` of the top, `elab`, `opt`/`group_nets`, `lib_save`, `cgen`/`link_bc` |
| `SaveUnit`, `SaveIndex` | the `lib_save` a command calls, one write at a time |
| `RunStart(mode)`, `RunFatal` | `run`: `lib_get_ctx` of `TOP.elab` and the kind check; batch mode, or command mode's `slave_fork` and `shell_run` up to its loop |
| `RunBatch` | `rt_batch_exec` returns, `tree_read_end` ends the read context |
| `ShellLine(l)`, `ShellExit`, `SlaveWait` | the master's shell loop (`Shell`), its `Tcl_Exit` and exit handler, and the end of the process once `slave_wait` returns |
| `DumpUnit`, `DumpFatal` | `dump_cmd`: `lib_get` of each name |
| `Return`, `Crash` | the process returns its status, or ends at any step |
| `Tick` | the clock |

The ghost `ran` is the `TopElab` version and the code version of the
last `run`.

**Options.** `options` is `util.c`'s option list, `pending` the calls of
`set_default_opts` still to make, `args` (ghost) the options the command
line gave and `lastSet` (ghost) the arguments of the last `opt_set_int`.
`ElabOk` reads `--cover` with `opt_get_int` (`elab.c:862`); when the name
is unset `opt_get_int` calls `fatal`, which is the `Crash` step. Every
process starts with an empty list, so `Exit` empties it.

**Shell.** In command mode `run` forks and the master process runs
`shell_run`, modelled by `Shell` (`Sh == INSTANCE Shell` on the variables
`shell`, `haveQuit`, `quitPosted`, `lines`). `Crash` may end the master
at any point of it; `SlaveWait` is `Tcl_Exit`'s `exit`, so `run`'s own
`tree_read_end` and `return` are reached only in batch mode.

### Shell (`Shell.tla`, instantiated by `Driver`)

The master side of `rt/shell.c`. `ShellRun` is `shell_run` up to its loop
(`have_quit = false`, the commands and exit handler registered, RESTART
posted). `ShellLine(line)` is one turn of the loop: `shell_get_line`
returns a line of one or two commands and `Tcl_Eval` runs them in order up
to the first one returning `TCL_ERROR` (`Evaluated`, with `SelectInSeq`);
a `quit` it reaches posts QUIT and sets `have_quit`. `ExitHandler` is the
loop's end, on `have_quit` or on `shell_get_line`'s NULL at the end of the
input, then `Tcl_Exit` calling `shell_exit_handler`: QUIT unless
`have_quit`, then `slave_wait`. The commands are reduced to what they do
to the master: `quit`; `run` for every command that returns `TCL_OK`
without posting QUIT (`run`, `restart`, `show help|signals|process`);
`error` for `show` with no or an unknown argument and unknown commands.
The posted messages are reduced to `quitPosted`: the slave is not in this
repository, and whether it has been told to quit is what lets
`slave_wait` return.

### Options and OptionTable (`Options.tla`, `OptionTable.tla`)

`Options` translates the registry of `util.c`: `FindOpt` is the `for` loop
both functions share, `OptSetInt` updates the first node with the key or
pushes a new node in front, and `OptGetInt` returns its value or `NotSet`
(the `fatal`). `OptionTable` is what the registry promises: a table from
name to value, empty at process start, in which `Set(k, v)` changes only
`k`; `lastSet` is the call's arguments, so a step that changes the wrong
name or value is not a `Set` step. `Driver` shows that the list
implements the table with

    Opts == INSTANCE OptionTable WITH
                OptValues <- {0, 1},
                table <- AsTable(options, OptNames),
                lastSet <- lastSet

and checks `ImplementsOptionTable == Opts!Spec`.

### LibLoaded (`LibLoaded.tla`, instantiated by `MC_LibLoaded.tla`)

The static list `loaded` of `lib.c` and the library directories. A
library is a handle number; `tagged` are the directories with an
`_NVC_LIB` marker.
- `LibFind`: `lib_find` finds nothing loaded, and `lib_find_at` accepts a
  directory that exists and holds the marker.
- `LibNew`: `lib_new` on a directory that does not exist: `mkdir` and
  `lib_init`. `LibNewTag` is the rest of `lib_new`, the write of the
  marker; a process may end in between (`newing` is the library between
  the two).
- `SetWorkLibFails`: `set_work_lib` of `nvc.c`, when `lib_find(work)`
  finds no usable library and `lib_new(work)` fails because the directory
  exists: `exit(EXIT_FAILURE)`. Its other paths are `LibFind` and `LibNew`
  of `Work`.
- `LibInit` pushes a handle on the head of the list.
- `LibFree`: `lib_free`. `Unlink` is its loop exactly as written: `prev`
  is never set, and the increment stores each node into `loaded`.
- `Exit`: a new process starts with nothing loaded.

### TreeGraph, TreeStore and TreeGC

`TreeGraph.tla` holds what the tree models share:
- a fixed graph `Kids[t]` of child slots, in the order `tree_visit_aux`
  and `tree_write` follow them; a slot may be `Null`;
- the top-level trees;
- `ReachFrom`, the reachable set;
- the three markers of the serialised form: a new tree with its slot
  count, `0xffff` for NULL, and `0xfffe` with an index.

`TreeStore.tla` is the abstract specification of the store:
- `Collect`: the allocated set becomes what the top-level trees reach;
- `Save(t)`: the file becomes the reference encoding `Encode(t)`, a
  preorder in which each tree appears once and later occurrences are
  back-references to its position;
- `Restart`: a new process.

`TreeGC.tla` is the implementation with the generation marks of `tree.c`
(`TreeGC.tla`, instantiated by `MC_TreeGC.tla`).
- The recursion is a stack of `[node, next slot]` frames.
- `Enter` is the test at the top of `tree_visit_aux`. `WriteEnter` is the
  start of `tree_write`: NULL, the back-reference when the mark is the
  current generation, and otherwise a new tree with its `index`.
- The mark is stored modulo `2^GenBits`, because the field is an
  `unsigned short` while `next_generation` and `base_gen` are `unsigned`.

Actions:
- `TreeVisit`, `VisitStep` (one slot or the return), `VisitDone`;
- `WriteBegin` (`tree_write_begin` and the root), `WriteStep`,
  `WriteDone` (`tree_write_end`: the file is written);
- `GcBegin`, `GcMarkNext` and `GcSweep` (the three loops of `tree_gc`);
- `Exit`: a new process, with every tree allocated again and the file kept.

`ReadTree` is `tree_read` as a recursive operator over the file: it
rebuilds the trees, resolving each back-reference through the table of
trees read so far.

A recursion deeper than `MaxDepth` stands for a stack overflow: the process
has crashed and takes no further step. The ghost `visits` counts how often
the running visit or write entered each tree. The model uses `GenBits` of 3
or 2 instead of 16, so that the wrap is reached with a handful of visits.
The code is the same at every width.

The refinement mapping is the identity on `alive` and `file`: `TreeGC`
keeps both under the same names. Its visits, marks and write steps are
stuttering steps of `TreeStore`. `GcSweep` is `Collect`, `WriteDone` is
`Save` and `Exit` is `Restart`.

## 3. Runs

| Run | Config | Expect | What it shows |
|---|---|---|---|
| `elab_nets` | `MC_Elab.cfg` | pass | `NetsMatchWidth`, `FreshNetsPartition`, `PortNetsAreActualNets` and `ElabTerminates` hold over all 31 designs (see below). |
| `elab_width_mismatch` | `MC_Elab_width.cfg` | violation | A 2-element slice bound to a 3-element port elaborates with no error. The width check compares the actual's type with itself. |
| `elab_partial_assoc` | `MC_Elab_partial.cfg` | violation | With `p(0) => a(0), p(1) => a(1)` the port signal has 2 nets for a 1-element type. |
| `elab_unassoc_out` | `MC_Elab_unassoc.cfg` | violation | An unassociated port without a default aborts at `assert(tree_has_value(f))`. |
| `elab_pick_arch` | `MC_Elab_arch.cfg` | violation | With LEAF-R1 analysed later than LEAF-R2, `find_arch` still picks R2, because it reads the entity's mtime for both. |
| `driver` | `MC_Driver.cfg` | pass | Over any sequence of analyse, elaborate, run and dump processes, each possibly ending at any step: `TypeOK`; `IndexedUnitsOnDisk` (an exit between any two writes of `lib_save` never leaves `_index` naming a missing file); `SavedIsLatest` (with duplicate units, the file ends with the newest); `OptionsReadAsGiven` (past its `getopt_long` loop every option name reads as a value, the command line's when it gave one); `ImplementsOptionTable` (the option list refines the abstract table); `SlaveToldToQuit` (a command-mode master has posted QUIT before `slave_wait`, whether its loop ended on `quit`, at the end of the input, or after a line whose `quit` followed an error). |
| `lib_get_stale` | `MC_Library_get.cfg` | violation | put E, save, restart, get E (read from disk), put E again: `lib_get` still returns the first version. |
| `lib_mtime_precision` | `MC_Library_mtime.cfg` | violation | A unit put in the same second as a save, after a restart, gets a smaller mtime than the older unit read back from disk. |
| `work_lib_crash` | `MC_LibLoaded.cfg` | violation | `WorkLibReopens` (spec §5: after a crash users re-analyse). `lib_new(WORK)` makes the directory, the process ends before the marker is written, and the next command's `set_work_lib` exits: `lib_find_at` rejects the directory and `lib_new` says it already exists. |
| `driver_stale_code` | `MC_Driver_stale.cfg` | violation | `RunCodeMatchesElab`. Analyse, elaborate (code from `E.elab` v2), elaborate again with `cgen` failing after `lib_save`: `run` reads `E.elab` v3 and starts it with the code of v2. |
| `tree_gc` | `MC_TreeGC.cfg` | pass | `VisitEntersOnce` (a visit or a write enters each tree once); `ReadBackIsOriginal` (reading the saved file back gives the saved tree's graph: every reachable tree once, with its slots, sharing and cycles kept); `ImplementsTreeStore` (`TreeGC` refines `TreeStore`: the sweep leaves exactly the reachable trees, and the file is the reference encoding); `VisitTerminates`. The graph has a cycle, a shared tree, a NULL slot and a garbage tree. |
| `tree_visit_wrap` | `MC_TreeGC_wrap.cfg` | violation | Past the field's range a visit enters a tree twice and loops on the cycle. The sweep of `tree_gc` compares the same truncated field with the full `base_gen`, so past the wrap it would also free live trees. |

Two more disagreements are recorded as hazards rather than runs.
`lib_free` drops from the loaded list every library loaded before the
freed one, so a later `lib_find` loads a second handle; only
`test/test_lib.c` calls `lib_free`, so the run budget goes to the
work-library crash that every user's first command is exposed to.
`elab_copy` leaves a function body uncopied, so the shared body is renamed
and appended to ELAB once per instance of its architecture.

What each property of `elab_nets` states:
- `NetsMatchWidth`: every elaborated signal has exactly `type_width` nets.
- `FreshNetsPartition`: the allocated nets are pairwise disjoint and are
  exactly `0..nnets-1`.
- `PortNetsAreActualNets`: every whole-port signal shares, in order, the
  nets of the part of the actual it is bound to.
- `ElabFuncsBindsEveryCall`: wherever the flushes fall, a call ends
  bound to a body exactly when one unbounded table would bind it, and
  always to a body of its own ident and type. Which of two bodies of one
  ident and type it keeps is not checked: the last batch's wins where one
  table keeps the first, and spec 4 does not say which.
- `ElabTerminates`: `elab` returns.

Each property of a passing run has a mutant in `PROJECT.json`. Each
mutant is a plausible slip in the code that makes the property fail:
- `elab_nets`: an extra net; numbering restarted per signal; an element
  index ignored; swapped slice bounds; a for-generate scope never left;
  a flush of `elab_funcs` that drops the body that found the list full.
- `driver`: `set_default_opts` without its `cover` call; `opt_set_int`
  appending a node at the tail without looking for the key; an exit
  handler that does not post QUIT;
  the second rounded up; `_index` written before the units; a
  put unit not marked dirty.
- `tree_gc`: no generation test; the sweep freeing marks equal to
  `base_gen`; the child cursor never advanced; `tree_read` resolving a
  back-reference one entry too early.

## 4. Bounds

**Why the design family is enough.** The design family reaches every
branch of `elab_stmts`, `elab_decls`, `elab_signal_port` and
`elab_get_net`. It also reaches every branch of `elab_map_nets` that
`elab_map` can produce:
- two instances deep, so nets travel through a port of a port;
- two iterations, so copies must be distinct;
- low bounds 0 and 2, so index arithmetic is exercised.

**Cost of the pass run.** The full pass run has 1265 distinct states and
takes a few seconds with the liveness property. `ElabInstance` binds the
results of `elab_map` and `elab_map_nets` with `\E x \in {...}` so that
TLC computes each once: the fairness check evaluates `ENABLED` of the
action, and there a LET-defined result is recomputed at every use.

**Library.** The constants are two names (an entity and an architecture),
two kinds, `Second` = 2, `MaxTime` = 2 and `MaxVer` = 3. Three puts are
enough for a put, a save, a restart and a second put of the same name.
Two ticks in one second plus a second tick are what the mtime order needs.
There are 1.7 million states (25 s).

**Driver.** The same library constants with the names `E` and `E.elab`
and three `lib_put` calls: an analyse and two elaborations, or two
analyses and an elaboration, which is what the stale-code trace and a
save of a unit put twice need. The number of commands is not bounded:
versions, the clock and the positions are. Of the options each
`getopt_long` loop can set, the MC keeps one per command (`--bootstrap`,
`--cover`, `--stats`), given any number of times or not at all: `--cover`
is the one the code in this repository reads, and each of them overrides
a default. All seven calls of `set_default_opts` are made. The shell input
holds at most `MaxLines` = 2 lines of one or two commands each: enough for
a quit after an error on one line and a second line after it, and for the
end of the input with and without a quit. There are 293,000 states (2
minutes).

**LibLoaded.** The work library `WORK`, which does not exist yet, an
installed library `IEEE`, and three `lib_init` calls: enough for a first
command to make `WORK` and for a second to open it again. The violation
is three steps long.

**TreeGC.** The graph has five trees: two top-level trees, a two-tree
cycle, and a garbage tree pointing into the live graph. `MaxGen` = 7
allows a couple of visits followed by a full collection. `MaxDepth` = 5
exceeds the deepest acyclic path, so only a looping visit overflows.
Tree 4 has a NULL slot and shares tree 3 with the cycle, so a write
meets all three markers. The run has about 318,000 states (40 s).

## 5. Fairness

`elab` is one synchronous call. Once it starts it keeps taking steps until
it returns, so `Spec` assumes weak fairness of `Next`. After `Finish` (or a
fatal exit) the process moves on and the model stops. This is why the
configs say `CHECK_DEADLOCK FALSE`.

`TreeGC` assumes weak fairness of the steps of a running visit or
collection. `tree_visit` and `tree_gc` are synchronous calls in
single-threaded code. `Library` and `LibLoaded` check only safety. Their
callers may stop after any call, so they assume no fairness. `Driver`
checks only safety too: a user may stop issuing commands. Nor is the shell loop
assumed to end: its input is a terminal, which may never reach its end or
a `quit`. Every model
can always take a step, because process exit and restart are actions, so
deadlock is checked for them.

## 6. Not modelled, and why

- **Text.** The INSTANCE_NAME and PATH_NAME strings (`hpathf`,
  `simple_name`) are formatting only. No property concerns them.
- **Passes not in this repository.** `simplify` and `cover_tag` rewrite
  expressions inside architectures and are not in this repository.
- **`elab_copy_context`, `fixup_entity_refs`.** They attach references and
  change no state that elaboration later reads.
- **Command-line parsing.** The `getopt_long` options that set only local
  variables (`run`'s stop time, VCD and LXT file names, `dump`'s
  `-e`/`-b`) and `parse_time` select what collaborators outside this
  repository do. `run`'s batch or command mode is the parameter of
  `RunStart`, and the options that call `opt_set_int` are modelled.
- **Formatting buffers.** `get_fmt_buf`, `static_printf_begin`,
  `static_printf` and `next_power_of_2` in `util.c` have no caller in
  this repository, so there is no sequence of calls to check. The one
  that would hang, `get_fmt_buf` doubling a length of 0, is listed as a
  hazard.
- **Output.** Diagnostics, colour, paging and backtraces in `util.c` are
  output only.
- **The simulation slave.** `slave_fork`, `slave_post_msg`, `slave_wait`
  and the slave's message loop are not in this repository, so the
  `Shell` model stops at the messages the master posts, abstracted to
  whether QUIT was posted. Two shell hazards stay without a property for
  that reason: a line such as `quit; run` posts a message after QUIT, and
  a master killed inside `shell_run` never posts QUIT.
- **`show`'s output.** `show signals` and `show process` print the
  design's declarations and processes; only their `TCL_OK` or
  `TCL_ERROR` result is modelled.
- **`shell_run`'s signature.** `nvc.c:321` calls `shell_run(e, ctx)`
  while `rt/shell.c` defines `shell_run(tree_t e)`; there are no headers
  in the repository to say which is current, and the model follows
  `rt/shell.c`.

## 7. Plan

The plan, most important behaviour first:

1. **Done.** `Elab`: net allocation and wiring, architecture choice, the
   error paths.
2. **Done.** **`Library`.** Units in memory and on disk, the index, `lib_put`,
   `lib_get`, `lib_save`, a crash between unit and index writes, and restart
   (`lib_init` reading `_index`). Its properties:
   - `lib_get` returns the latest `lib_put`;
   - the mtime order agrees with analysis order (second-precision
     `lib_put` against microsecond disk mtimes);
   - the index names exactly the units.
   The loaded-library list gets `lib_find`/`lib_free`, checked against
   test_lib's use: free, then find reloads.
3. **Done.** **`TreeGC`.** `tree_visit` with generation marks and the `tree_gc`
   sweep, with the generation field 16 bits wide, as in `struct tree`.
   - Properties: GC frees only unreachable trees; a visit terminates and
     visits each node once.
   - A run with the counter near 2^16 shows the truncation.
4. **Done.** **`Driver`.** `analyse`, `elaborate`, `run` and `dump` as
   steps over `Library`. `elab` is reduced to its outcome there.
5. **Abstract specification.** What elaboration promises: a flat netlist
   where each signal owns or shares nets, related to `Elab` by a refinement
   mapping.
6. **Done.** **`TreeStore`.** The abstract store, refined by `TreeGC`.
   The serialisation is round-tripped through `tree_read`.
7. **Done.** **Pure algorithms.** `elab_funcs` batching at
   `FUNC_REPLACE_MAX`, checked against one unbounded table.
8. **Done.** **Options.** `util.c`'s option registry, driven by
   `set_default_opts` and the command lines, refines the abstract table
   `OptionTable`.
9. **Done.** **Shell.** The master side of `rt/shell.c`, composed into
   `run`'s command mode, with its exit handler's QUIT.
