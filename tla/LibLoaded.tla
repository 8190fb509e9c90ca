----------------------------- MODULE LibLoaded -----------------------------
(***************************************************************************)
(* The list of loaded libraries of src/src/lib.c (static "loaded"):       *)
(* lib_find returns a loaded library of that name or loads one from disk, *)
(* lib_new creates one, lib_init pushes every new library on the head of  *)
(* the list, and lib_free unlinks a library and frees it.  A directory is *)
(* a library only with its _NVC_LIB marker, which lib_new writes after    *)
(* mkdir and lib_init; a process may end between the two.  set_work_lib   *)
(* of src/src/nvc.c opens the work library with lib_find, else lib_new.   *)
(*                                                                         *)
(* A lib_t is a handle number; a library directory is its name.           *)
(***************************************************************************)
EXTENDS Integers, Sequences, FiniteSets

CONSTANTS
    LibNames,   \* library names (already upper case, as upcase_name makes them)
    Existing,   \* the libraries whose directories exist at the start
    MaxHandles, \* bound on lib_init calls
    Work        \* the work library's name

VARIABLES
    loaded,     \* the loaded list, head first: a sequence of handles
    lib,        \* handle -> the library name it was initialised for
    freed,      \* handles lib_free has freed
    dirs,       \* library directories that exist
    tagged,     \* the directories holding an _NVC_LIB marker
    newing,     \* the library lib_new has made but not yet tagged, or "none"
    workFailed  \* ghost: a set_work_lib has exited for want of a work library

vars == <<loaded, lib, freed, dirs, tagged, newing, workFailed>>

Handles == DOMAIN lib
Live == Handles \ freed
LoadedSet == {loaded[k] : k \in DOMAIN loaded}

\* no lib_new is between its mkdir and its marker
Idle == newing = "none"

IsLoaded(name) == \E k \in DOMAIN loaded : lib[loaded[k]] = name

-----------------------------------------------------------------------------
\* lib_init: a new handle pushed on the head of the loaded list
LibInit(name) ==
    LET h == Cardinality(Handles) + 1 IN
    /\ h <= MaxHandles
    /\ lib' = [x \in Handles \cup {h} |-> IF x = h THEN name ELSE lib[x]]
    /\ loaded' = <<h>> \o loaded

\* lib_find: the first loaded library of that name, else a directory found
\* on the search path (lib_find_at) is initialised
\* on the search path (lib_find_at: the directory and its marker exist)
\* is initialised
LibFind(name) ==
    /\ Idle
    /\ ~IsLoaded(name)
    /\ name \in dirs \cap tagged
    /\ LibInit(name)
    /\ UNCHANGED <<freed, dirs, tagged, newing, workFailed>>

\* lib_new: the directory must not exist; mkdir, then lib_init
LibNew(name) ==
    /\ Idle
    /\ name \notin dirs
    /\ dirs' = dirs \cup {name}
    /\ LibInit(name)
    /\ newing' = name
    /\ UNCHANGED <<freed, tagged, workFailed>>

\* lib_new, continued: fopen, fprintf and fclose of the _NVC_LIB marker
LibNewTag ==
    /\ ~Idle
    /\ tagged' = tagged \cup {newing}
    /\ newing' = "none"
    /\ UNCHANGED <<loaded, lib, freed, dirs, workFailed>>

\* set_work_lib when lib_find(work) finds nothing usable and lib_new(work)
\* fails with "file ... already exists": exit(EXIT_FAILURE)
SetWorkLibFails ==
    /\ Idle
    /\ ~IsLoaded(Work)
    /\ Work \in dirs \ tagged
    /\ workFailed' = TRUE
    /\ loaded' = <<>>
    /\ lib' = <<>>
    /\ freed' = {}
    /\ UNCHANGED <<dirs, tagged, newing>>

(***************************************************************************)
(* The unlink loop of lib_free as written:                                *)
(*   for (it = loaded, prev = NULL; it != NULL; loaded = it, it = it->next)*)
(*      if (it->item == lib) { if (prev) ... else loaded = it->next; ... } *)
(* prev is never assigned, and the increment stores each node passed into *)
(* loaded: the list is left starting after the freed library (or at its   *)
(* last node when the library is not in it).                              *)
(***************************************************************************)
RECURSIVE Unlink(_, _, _)
Unlink(list, it, h) ==
    IF it > Len(list) THEN list
    ELSE IF list[it] = h
         THEN SubSeq(list, it + 1, Len(list))
         ELSE Unlink(SubSeq(list, it, Len(list)), 2, h)

LibFree(h) ==
    /\ Idle
    /\ h \in Live
    /\ loaded' = Unlink(loaded, 1, h)
    /\ freed' = freed \cup {h}
    /\ UNCHANGED <<lib, dirs, tagged, newing, workFailed>>

\* the process ends, at any step; the next nvc command starts with nothing
\* loaded
Exit ==
    /\ loaded' = <<>>
    /\ lib' = <<>>
    /\ freed' = {}
    /\ newing' = "none"
    /\ UNCHANGED <<dirs, tagged, workFailed>>

Init ==
    /\ loaded = <<>>
    /\ lib = <<>>
    /\ freed = {}
    /\ dirs = Existing
    /\ tagged = Existing
    /\ newing = "none"
    /\ workFailed = FALSE

Next ==
    \/ \E n \in LibNames : LibFind(n) \/ LibNew(n)
    \/ \E h \in Live : LibFree(h)
    \/ LibNewTag \/ SetWorkLibFails
    \/ Exit

Spec == Init /\ [][Next]_vars

-----------------------------------------------------------------------------
(* Properties *)

(***************************************************************************)
(* Spec 5: a crash leaves the library for the user to re-analyse: however *)
(* an nvc process ended, the set_work_lib of the next command finds the   *)
(* work library or creates it, and never exits for want of one.           *)
(***************************************************************************)
WorkLibReopens == ~workFailed
=============================================================================
