------------------------------ MODULE Driver ------------------------------
(***************************************************************************)
(* The commands of src/src/nvc.c over the work library of src/src/lib.c:  *)
(* one nvc process after another, each running analyse (-a), elaborate    *)
(* (-e), run (-r) or dump (--dump) and exiting, possibly in the middle of *)
(* any step (a fatal in a collaborator, a signal, a crash).               *)
(*                                                                         *)
(* The library is the Library module itself, instantiated on the same     *)
(* variables: each step of a command is one call of it.  The design is    *)
(* one entity Top; elaboration puts TopElab (Top.elab).  The code the      *)
(* code generator leaves beside the library is abstracted to the version  *)
(* of the TopElab tree it was generated from.                             *)
(*                                                                         *)
(* Collaborators not in this repository are their observable effect:      *)
(* parse/sem_check either put a unit (sem_check adds each checked unit to  *)
(* the work library) or count an error; elab either puts TopElab or       *)
(* returns NULL with errors counted (its own steps are the Elab module);  *)
(* cgen and link_bc either write the code or end the process.             *)
(***************************************************************************)
EXTENDS Integers, Sequences, FiniteSets

CONSTANTS
    Names, Kinds, Second, MaxTime, MaxVer,   \* those of Library
    MaxLines,  \* that of Shell
    Top,       \* the entity named on the command line
    TopElab    \* its elaborated unit, Top.elab

VARIABLES
    units, index, files, diskIndex, saving, now, nextVer, putAt, latest,
    pc,        \* the command's position, "idle" between processes
    after,     \* where a command goes once its lib_save has finished
    errs,      \* the error counter of the command is non-zero
    elabVer,   \* the version of TopElab elab put in this command
    code,      \* the TopElab version the generated code on disk is from
    ran,       \* ghost: what the last run started with: [elab, code]
    options,   \* util.c's option list, head first
    pending,   \* the opt_set_int calls of set_default_opts still to make
    cmd,       \* the command main dispatches to
    args,      \* ghost: the options given on the command's command line
    lastSet,   \* ghost: the arguments of the last opt_set_int call
    shell, haveQuit, quitPosted, lines   \* those of Shell

Lib == INSTANCE Library

Sh == INSTANCE Shell

NotSet == -1

INSTANCE Options

\* mutant: set_default_opts without its "cover" call
DefaultOptsNoCover ==
    << [key |-> "rt-stats", value |-> 0], [key |-> "rt_trace_en", value |-> 0],
       [key |-> "dump-llvm", value |-> 0], [key |-> "optimise", value |-> 1],
       [key |-> "native", value |-> 0], [key |-> "bootstrap", value |-> 0] >>

\* set_default_opts: the calls main makes before it reads its arguments
DefaultOpts ==
    << [key |-> "rt-stats", value |-> 0], [key |-> "rt_trace_en", value |-> 0],
       [key |-> "dump-llvm", value |-> 0], [key |-> "optimise", value |-> 1],
       [key |-> "native", value |-> 0], [key |-> "bootstrap", value |-> 0],
       [key |-> "cover", value |-> 0] >>

\* the opt_set_int calls of each command's getopt_long loop
AnalyseOpts == {[key |-> "bootstrap", value |-> 1], [key |-> "dump-llvm", value |-> 1]}

ElaborateOpts ==
    { [key |-> "optimise", value |-> 0], [key |-> "dump-llvm", value |-> 1],
      [key |-> "native", value |-> 1], [key |-> "cover", value |-> 1] }

RunOpts == {[key |-> "rt_trace_en", value |-> 1], [key |-> "rt-stats", value |-> 1]}

CmdOptions ==
    [analyse |-> AnalyseOpts, elaborate |-> ElaborateOpts, run |-> RunOpts, dump |-> {}]

OptNames ==
    {DefaultOpts[i].key : i \in DOMAIN DefaultOpts}
        \cup {o.key : o \in UNION {CmdOptions[c] : c \in DOMAIN CmdOptions}}

\* the registry is a table: the list stands for the table of what each
\* name reads as
Opts == INSTANCE OptionTable WITH
            OptValues <- {0, 1},
            table <- AsTable(options, OptNames),
            lastSet <- lastSet

optVars == <<options, pending, cmd, args, lastSet>>
libVars == <<units, index, files, diskIndex, saving, now, nextVer, putAt, latest>>
shVars == <<shell, haveQuit, quitPosted, lines>>
drvVars == <<pc, after, errs, elabVer, code, ran, optVars, shVars>>
vars == <<libVars, drvVars>>

NoRun == [elab |-> 0, code |-> 0]

Commands == {"analyse", "elaborate", "run", "dump"}

\* lib_get_aux finds n: in memory, or a file of that name in the directory
Found(n) == Lib!UnitsNamed(n) # {} \/ files[n] # Lib!Absent

-----------------------------------------------------------------------------
Init ==
    /\ Lib!Init
    /\ pc = "idle"
    /\ after = "done"
    /\ errs = FALSE
    /\ elabVer = 0
    /\ code = 0
    /\ ran = NoRun
    /\ options = <<>>
    /\ pending = <<>>
    /\ cmd = "none"
    /\ args = {}
    /\ lastSet = Opts!NoCall
    /\ Sh!Off

\* main: a new process for command c calls set_default_opts
Start(c) ==
    /\ pc = "idle"
    /\ pc' = "defaults"
    /\ cmd' = c
    /\ pending' = DefaultOpts
    /\ errs' = FALSE
    /\ elabVer' = 0
    /\ UNCHANGED <<libVars, after, code, ran, options, args, lastSet, shVars>>

\* one opt_set_int of set_default_opts
SetDefault ==
    /\ pc = "defaults"
    /\ pending # <<>>
    /\ options' = OptSetInt(options, Head(pending).key, Head(pending).value)
    /\ lastSet' = Head(pending)
    /\ pending' = Tail(pending)
    /\ UNCHANGED <<libVars, pc, after, errs, elabVer, code, ran, cmd, args, shVars>>

\* main's getopt_long finds the command letter and calls the command, whose
\* set_work_lib is the lib_init of Exit, or lib_new for the first command
Dispatch ==
    /\ pc = "defaults"
    /\ pending = <<>>
    /\ pc' = "args"
    /\ UNCHANGED <<libVars, after, errs, elabVer, code, ran, optVars, shVars>>

\* one option of the command's getopt_long loop that calls opt_set_int
CmdOption(o) ==
    /\ pc = "args"
    /\ options' = OptSetInt(options, o.key, o.value)
    /\ lastSet' = o
    /\ args' = args \cup {o}
    /\ UNCHANGED <<libVars, pc, after, errs, elabVer, code, ran, pending, cmd, shVars>>

\* the loop has read the last option: the command proper begins
ArgsEnd ==
    /\ pc = "args"
    /\ pc' = cmd
    /\ UNCHANGED <<libVars, after, errs, elabVer, code, ran, optVars, shVars>>

\* the process ends: main returns, exit or fatal is called, or it is killed;
\* e is its error counter being non-zero.  The next process's set_work_lib
\* finds the library, and its lib_init reads _index.
Exit(e) ==
    /\ Lib!Restart
    /\ pc' = "idle"
    /\ errs' = e
    /\ options' = <<>>
    /\ pending' = <<>>
    /\ cmd' = "none"
    /\ args' = {}
    /\ lastSet' = Opts!NoCall
    /\ Sh!Reset
    /\ UNCHANGED <<after, elabVer, code, ran>>

\* any step of a running command may be the last one: fatal (its fatal_fn,
\* then exit(EXIT_FAILURE)), a failed assert, a signal
Crash == pc # "idle" /\ Exit(errs)

\* main's return of the command's EXIT_SUCCESS
Return == pc = "done" /\ Exit(errs)

Tick == Lib!Tick /\ UNCHANGED drvVars

\* lib_save, driven by analyse or elaborate; then on to `after'
SaveUnit == pc = "save" /\ Lib!LibSaveUnit /\ UNCHANGED drvVars

SaveIndex ==
    /\ pc = "save"
    /\ Lib!LibSaveIndex
    /\ pc' = after
    /\ UNCHANGED <<after, errs, elabVer, code, ran, optVars, shVars>>
-----------------------------------------------------------------------------
(* analyse *)

\* the parse/sem_check loop: a unit that checks is put in the work library
AnalyseUnit(k) ==
    /\ pc = "analyse"
    /\ Lib!LibPut(Top, k)
    /\ UNCHANGED drvVars

\* a parse, sem_check or simplify error: the counter goes up, the loop goes on
AnalyseError ==
    /\ pc = "analyse"
    /\ errs' = TRUE
    /\ UNCHANGED <<libVars, pc, after, elabVer, code, ran, optVars, shVars>>

\* errors: return EXIT_FAILURE without saving
AnalyseFail ==
    /\ pc = "analyse"
    /\ errs
    /\ Exit(errs)

\* no errors: lib_save, then cgen of the packages and EXIT_SUCCESS
AnalyseSave ==
    /\ pc = "analyse"
    /\ ~errs
    /\ Lib!LibSaveBegin
    /\ pc' = "save"
    /\ after' = "done"
    /\ UNCHANGED <<errs, elabVer, code, ran, optVars, shVars>>

-----------------------------------------------------------------------------
(* elaborate *)

\* lib_get of the top-level unit
ElabGetTop ==
    /\ pc = "elaborate"
    /\ Lib!LibGet(Top, FALSE)
    /\ pc' = "elab"
    /\ UNCHANGED <<after, errs, elabVer, code, ran, optVars, shVars>>

\* "cannot find unit": fatal
ElabNoTop ==
    /\ pc = "elaborate"
    /\ ~Found(Top)
    /\ Exit(errs)

\* elab with no errors: lib_put of the ELAB tree, returned
ElabOk ==
    /\ pc = "elab"
    /\ OptGetInt(options, "cover") # NotSet
    /\ elabVer' = nextVer
    /\ Lib!LibPut(TopElab, "elab")
    /\ pc' = "opt"
    /\ UNCHANGED <<after, errs, code, ran, optVars, shVars>>

\* elab counted errors (or simplify did): NULL, so EXIT_FAILURE, no save
ElabErrors ==
    /\ pc = "elab"
    /\ Exit(TRUE)

\* opt and group_nets, then lib_save "so the code generator can attach
\* temporary meta data", then cgen and link_bc
ElabSave ==
    /\ pc = "opt"
    /\ Lib!LibSaveBegin
    /\ pc' = "save"
    /\ after' = "cgen"
    /\ UNCHANGED <<errs, elabVer, code, ran, optVars, shVars>>

\* cgen and link_bc write the code of this ELAB tree
Cgen ==
    /\ pc = "cgen"
    /\ code' = elabVer
    /\ pc' = "done"
    /\ UNCHANGED <<libVars, after, errs, elabVer, ran, optVars, shVars>>

\* cgen or link_bc fails: a fatal, the process ends
CgenFail == pc = "cgen" /\ Exit(errs)

-----------------------------------------------------------------------------
(* run and dump *)

\* lib_get_ctx of Top.elab, a T_ELAB, handed to the run-time with the code:
\* in batch mode (-b, the default) to rt_batch_exec; in command mode (-c)
\* slave_fork starts the slave and the master enters shell_run
RunStart(mode) ==
    /\ pc = "run"
    /\ Lib!LibGet(TopElab, TRUE)
    /\ units'[Lib!FirstUnit(TopElab)'].kind = "elab"
    /\ ran' = [elab |-> Lib!Returned(TopElab)', code |-> code]
    /\ \/ mode = "batch" /\ pc' = "batch" /\ UNCHANGED shVars
       \/ mode = "command" /\ pc' = "shell" /\ Sh!ShellRun
    /\ UNCHANGED <<after, errs, elabVer, code, optVars>>

\* rt_batch_exec returns; tree_read_end ends the read context, and run
\* returns EXIT_SUCCESS
RunBatch ==
    /\ pc = "batch"
    /\ units' = [units EXCEPT ![Lib!FirstUnit(TopElab)].ctx = "none"]
    /\ pc' = "done"
    /\ UNCHANGED <<index, files, diskIndex, saving, now, nextVer, putAt, latest>>
    /\ UNCHANGED <<after, errs, elabVer, code, ran, optVars, shVars>>

\* the master's shell loop and its Tcl_Exit
ShellLine(line) ==
    /\ pc = "shell"
    /\ Sh!ShellLine(line)
    /\ UNCHANGED <<libVars, pc, after, errs, elabVer, code, ran, optVars>>

ShellExit ==
    /\ pc = "shell"
    /\ Sh!ExitHandler
    /\ UNCHANGED <<libVars, pc, after, errs, elabVer, code, ran, optVars>>

\* slave_wait returns once the slave has exited, and Tcl_Exit ends the
\* master: run's tree_read_end and return are never reached
SlaveWait ==
    /\ pc = "shell"
    /\ shell = "wait"
    /\ Exit(errs)

\* "not elaborated": fatal
RunFatal ==
    /\ pc = "run"
    /\ ~Found(TopElab)
    /\ Exit(errs)

\* one name of the command line: lib_get, then dump; more names may follow
DumpUnit(n) ==
    /\ pc = "dump"
    /\ Lib!LibGet(n, FALSE)
    /\ pc' \in {"dump", "done"}
    /\ UNCHANGED <<after, errs, elabVer, code, ran, optVars, shVars>>

\* "not analysed": fatal
DumpFatal(n) ==
    /\ pc = "dump"
    /\ ~Found(n)
    /\ Exit(errs)

Next ==
    \/ \E c \in Commands : Start(c)
    \/ SetDefault \/ Dispatch \/ ArgsEnd
    \/ pc = "args" /\ \E o \in CmdOptions[cmd] : CmdOption(o)
    \/ \E k \in Kinds \ {"elab"} : AnalyseUnit(k)
    \/ AnalyseError \/ AnalyseFail \/ AnalyseSave
    \/ ElabGetTop \/ ElabNoTop \/ ElabOk \/ ElabErrors \/ ElabSave
    \/ SaveUnit \/ SaveIndex
    \/ Cgen \/ CgenFail
    \/ \E m \in {"batch", "command"} : RunStart(m)
    \/ RunFatal \/ RunBatch
    \/ \E l \in Sh!Lines : ShellLine(l)
    \/ ShellExit \/ SlaveWait
    \/ \E n \in Names : DumpUnit(n) \/ DumpFatal(n)
    \/ Return \/ Crash \/ Tick

Spec == Init /\ [][Next]_vars

-----------------------------------------------------------------------------
(* Properties *)

TypeOK ==
    /\ Lib!TypeOK
    /\ pc \in Commands \cup {"idle", "defaults", "args", "elab", "opt", "save", "cgen",
                               "batch", "shell", "done"}
    /\ after \in {"done", "cgen"}
    /\ elabVer \in 0..MaxVer
    /\ code \in 0..MaxVer
    /\ ran \in [elab : 0..MaxVer, code : 0..MaxVer]
    /\ options \in Seq([key : OptNames, value : {0, 1}])
    /\ cmd \in Commands \cup {"none"}
    /\ args \subseteq UNION {CmdOptions[c] : c \in DOMAIN CmdOptions}
    /\ Sh!TypeOK

(***************************************************************************)
(* Spec 5, lib_save rewrites _index last, over the saves the commands     *)
(* really make: however a process ends, even inside the lib_save of       *)
(* analyse or of elaborate, every unit _index names has its file.         *)
(***************************************************************************)
IndexedUnitsOnDisk == Lib!IndexedUnitsOnDisk

(***************************************************************************)
(* lib_save after an analyse that put a unit twice: once the unit loop    *)
(* has finished, each file holds the newest tree of its name.             *)
(***************************************************************************)
SavedIsLatest == Lib!SavedIsLatest

(***************************************************************************)
(* elaborate's lib_save comes before cgen and link_bc: whenever run       *)
(* starts a simulation, the generated code on disk, if there is any, was  *)
(* generated from the Top.elab tree run has read.                         *)
(***************************************************************************)
RunCodeMatchesElab ==
    ran # NoRun => ran.code \in {0, ran.elab}

(***************************************************************************)
(* opt_get_int calls fatal for a name no opt_set_int has set, and the     *)
(* code generator, the run-time and elab's cover_tag read the options     *)
(* the command line gave: once a command is past its getopt_long loop,    *)
(* every option name reads as a value, and as the one its command line    *)
(* gave when it gave one, whatever set_default_opts set before.           *)
(***************************************************************************)
OptionsReadAsGiven ==
    pc \notin {"idle", "defaults", "args"} =>
        \A k \in OptNames :
            /\ OptGetInt(options, k) # NotSet
            /\ \A o \in args : o.key = k => OptGetInt(options, k) = o.value

(***************************************************************************)
(* util.c's option list implements a table: each opt_set_int(k, v) of     *)
(* set_default_opts and of the getopt_long loops makes k, and only k,     *)
(* read v, and a new process starts with no options (OptionTable).        *)
(***************************************************************************)
ImplementsOptionTable == Opts!Spec

(***************************************************************************)
(* The master of a command-mode run blocks in slave_wait until the slave  *)
(* exits, and the slave is told to exit by a QUIT message: whether the    *)
(* shell loop ended on the quit command, on a line whose quit followed    *)
(* an error, or at the end of the input, by the time shell_exit_handler   *)
(* calls slave_wait a QUIT has been posted.                               *)
(***************************************************************************)
SlaveToldToQuit == shell = "wait" => quitPosted
=============================================================================
