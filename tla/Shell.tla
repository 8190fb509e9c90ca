------------------------------ MODULE Shell ------------------------------
(***************************************************************************)
(* The master side of the simulation shell, src/src/rt/shell.c: nvc run   *)
(* in command mode forks a slave (slave_fork) that runs the design, and   *)
(* the master reads TCL lines and posts RESTART, RUN and QUIT messages to *)
(* it.  shell_run creates the interpreter, registers the exit handler and *)
(* the four commands, posts RESTART and loops: while quit has not been    *)
(* called it reads a line (shell_get_line, NULL at the end of the input)  *)
(* and Tcl_Eval runs its commands in order, stopping at the first one    *)
(* that returns TCL_ERROR.  After the loop, Tcl_Exit runs the exit        *)
(* handler, which posts QUIT unless the quit command has done so, and     *)
(* waits for the slave (slave_wait) before the process exits.             *)
(*                                                                         *)
(* The messages matter to the slave only through whether it has been told *)
(* to quit: the message log is abstracted to quitPosted.                  *)
(***************************************************************************)
EXTENDS Naturals, Sequences
LOCAL INSTANCE SequencesExt

CONSTANT MaxLines    \* the lines the input holds before its end

VARIABLES
    shell,       \* "off" before shell_run, "loop", "wait" in slave_wait
    haveQuit,    \* shell_run's have_quit, set by the quit command
    quitPosted,  \* a SLAVE_QUIT message has been posted
    lines        \* the lines read so far

shVars == <<shell, haveQuit, quitPosted, lines>>

(***************************************************************************)
(* The commands of a line, by what they do to the master: "quit"          *)
(* (shell_cmd_quit); "run" for those that return TCL_OK and post no QUIT  *)
(* (shell_cmd_run, shell_cmd_restart, show with help, signals or          *)
(* process); "error" for those that return TCL_ERROR (show with no or an  *)
(* unknown argument, a command the interpreter does not know).            *)
(***************************************************************************)
ShellCommands == {"run", "quit", "error"}

\* the lines of one or two commands
Lines == {<<c>> : c \in ShellCommands} \cup {<<c, d>> : c, d \in ShellCommands}

\* Tcl_Eval: the commands of the line up to its first error
Evaluated(line) ==
    LET e == SelectInSeq(line, LAMBDA c : c = "error")
    IN  IF e = 0 THEN line ELSE SubSeq(line, 1, e - 1)

\* the lines whose evaluation reaches a quit command
QuitLines == {line \in Lines : "quit" \in ToSet(Evaluated(line))}

Off ==
    /\ shell = "off"
    /\ haveQuit = FALSE
    /\ quitPosted = FALSE
    /\ lines = 0

\* the process ends: the next one has not started a shell
Reset ==
    /\ shell' = "off"
    /\ haveQuit' = FALSE
    /\ quitPosted' = FALSE
    /\ lines' = 0

\* shell_run up to its loop: have_quit = false, the exit handler and the
\* commands registered, RESTART posted
ShellRun ==
    /\ shell = "off"
    /\ shell' = "loop"
    /\ UNCHANGED <<haveQuit, quitPosted, lines>>

\* one turn of the loop: have_quit is false and shell_get_line returns a
\* line; quit (shell_cmd_quit) posts QUIT and sets have_quit
ShellLine(line) ==
    /\ shell = "loop"
    /\ ~haveQuit
    /\ lines < MaxLines
    /\ haveQuit' = (line \in QuitLines)
    /\ quitPosted' = (quitPosted \/ line \in QuitLines)
    /\ lines' = lines + 1
    /\ UNCHANGED shell

\* mutant: an exit handler that never posts QUIT
ExitHandlerNoPost ==
    /\ shell = "loop"
    /\ shell' = "wait"
    /\ UNCHANGED <<haveQuit, quitPosted, lines>>

(***************************************************************************)
(* The loop ends, because have_quit is set or because shell_get_line      *)
(* returned NULL at the end of the input; Tcl_Exit calls                   *)
(* shell_exit_handler, which posts QUIT if have_quit is false, and then   *)
(* blocks in slave_wait.                                                  *)
(***************************************************************************)
ExitHandler ==
    /\ shell = "loop"
    /\ shell' = "wait"
    /\ quitPosted' = (quitPosted \/ ~haveQuit)
    /\ UNCHANGED <<haveQuit, lines>>

TypeOK ==
    /\ shell \in {"off", "loop", "wait"}
    /\ haveQuit \in BOOLEAN
    /\ quitPosted \in BOOLEAN
    /\ lines \in 0..MaxLines
=============================================================================
