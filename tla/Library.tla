------------------------------ MODULE Library ------------------------------
(***************************************************************************)
(* One design library of src/src/lib.c: the units held in memory by one   *)
(* nvc process, the index list, and the directory on disk (one file per   *)
(* unit plus _index), across any number of processes.                     *)
(*                                                                         *)
(* A tree is abstracted to a version number: every lib_put brings a new   *)
(* tree, and a unit read back from disk is the version that file holds.   *)
(* Time is counted in ticks, Second ticks to a second: time(NULL) gives   *)
(* whole seconds, stat gives the file's full-precision mtime.            *)
(* lib_save writes one unit per step so that a crash (or any exit of the  *)
(* process) can fall between the unit writes and the _index write.        *)
(***************************************************************************)
EXTENDS Integers, Sequences, FiniteSets, TLC

CONSTANTS
    Names,     \* unit identifiers
    Kinds,     \* tree kinds a unit may have
    Second,    \* ticks per second
    MaxTime,   \* bound on the clock
    MaxVer     \* bound on the number of lib_put calls

Absent == [ver |-> 0]   \* no file of that name in the directory

VARIABLES
    units,     \* lib->units: sequence of [name, ver, kind, dirty, mtime, ctx]
    index,     \* lib->index, head first: sequence of [name, kind]
    files,     \* the unit files: name -> [ver, kind, mtime] or Absent
    diskIndex, \* the _index file: sequence of [name, kind]
    saving,    \* 0, or the position lib_save's unit loop has reached
    now,       \* the clock
    nextVer,   \* the version the next lib_put gives its tree
    putAt,     \* ghost: version -> the tick at which it was lib_put
    latest     \* ghost: name -> the newest version this process has made or
               \* found on disk: what lib_get should return

vars == <<units, index, files, diskIndex, saving, now, nextVer, putAt, latest>>

-----------------------------------------------------------------------------
\* mutant: the second rounded up
WholeSecondsUp(t) == (t \div Second + 1) * Second

\* lib_time_to_usecs(time(NULL)): the clock truncated to whole seconds
WholeSeconds(t) == (t \div Second) * Second

IndexNames == {index[k].name : k \in DOMAIN index}

\* the positions of the in-memory units called n, first to last
UnitsNamed(n) == {k \in DOMAIN units : units[k].name = n}

\* lib_get_aux's scan of lib->units: the first unit whose name matches
FirstUnit(n) == CHOOSE k \in UnitsNamed(n) : \A j \in UnitsNamed(n) : k <= j

\* lib_put_aux's index update: retag an entry of that name or push a new one
IndexPut(idx, n, k) ==
    IF \E j \in DOMAIN idx : idx[j].name = n
    THEN [j \in DOMAIN idx |-> IF idx[j].name = n THEN [name |-> n, kind |-> k]
                               ELSE idx[j]]
    ELSE <<[name |-> n, kind |-> k]>> \o idx

\* mutant: the dirty flag is not stored
PutAuxClean(n, ver, k, dirty, mt, ctx) ==
    /\ units' = Append(units, [name |-> n, ver |-> ver, kind |-> k,
                               dirty |-> FALSE, mtime |-> mt, ctx |-> ctx])
    /\ index' = IndexPut(index, n, k)

\* lib_put_aux: append a unit (never replacing one) and index it
PutAux(n, ver, k, dirty, mt, ctx) ==
    /\ units' = Append(units, [name |-> n, ver |-> ver, kind |-> k,
                               dirty |-> dirty, mtime |-> mt, ctx |-> ctx])
    /\ index' = IndexPut(index, n, k)

\* lib_init: each _index entry is pushed on the head of the list in turn
RECURSIVE ReadIndex(_, _)
ReadIndex(entries, idx) ==
    IF entries = <<>> THEN idx
    ELSE ReadIndex(Tail(entries), <<Head(entries)>> \o idx)

Idle == saving = 0

-----------------------------------------------------------------------------
\* a new library: lib_new makes the directory; no units, no _index
Init ==
    /\ units = <<>>
    /\ index = <<>>
    /\ files = [n \in Names |-> Absent]
    /\ diskIndex = <<>>
    /\ saving = 0
    /\ now = 0
    /\ nextVer = 1
    /\ putAt = <<>>
    /\ latest = [n \in Names |-> 0]

\* lib_put: a dirty unit stamped with the current whole second
LibPut(n, k) ==
    /\ Idle
    /\ nextVer <= MaxVer
    /\ PutAux(n, nextVer, k, TRUE, WholeSeconds(now), "none")
    /\ nextVer' = nextVer + 1
    /\ putAt' = putAt @@ (nextVer :> now)
    /\ latest' = [latest EXCEPT ![n] = nextVer]
    /\ UNCHANGED <<files, diskIndex, saving, now>>

(***************************************************************************)
(* lib_get_aux: the first in-memory unit of that name; otherwise the file *)
(* of that name is read (tree_read_begin, tree_read) and appended, clean, *)
(* with its stat mtime and the read context still open.  keep says        *)
(* whether the context is left open (lib_get_ctx, lib_mtime) or ended     *)
(* (lib_get).                                                             *)
(***************************************************************************)
GetAux(n, keep) ==
    IF UnitsNamed(n) # {}
    THEN LET k == FirstUnit(n) IN
         /\ units' = IF keep THEN units ELSE [units EXCEPT ![k].ctx = "none"]
         /\ UNCHANGED index
    ELSE /\ files[n] # Absent
         /\ PutAux(n, files[n].ver, files[n].kind, FALSE, files[n].mtime,
                   IF keep THEN "open" ELSE "none")

\* lib_get (ends the read context), lib_get_ctx and lib_mtime (keep it)
LibGet(n, keep) ==
    /\ Idle
    /\ GetAux(n, keep)
    /\ UNCHANGED <<files, diskIndex, saving, now, nextVer, putAt, latest>>

\* mutant: _index rewritten before the units
LibSaveBeginIndexFirst ==
    /\ Idle
    /\ saving' = 1
    /\ diskIndex' = index
    /\ UNCHANGED <<units, index, files, now, nextVer, putAt, latest>>

\* lib_save, entry
LibSaveBegin ==
    /\ Idle
    /\ saving' = 1
    /\ UNCHANGED <<units, index, files, diskIndex, now, nextVer, putAt, latest>>

\* lib_save, one pass of the unit loop: a dirty unit is written and cleaned
LibSaveUnit ==
    /\ saving \in DOMAIN units
    /\ LET u == units[saving] IN
       IF u.dirty
       THEN /\ files' = [files EXCEPT ![u.name] =
                           [ver |-> u.ver, kind |-> u.kind, mtime |-> now]]
            /\ units' = [units EXCEPT ![saving].dirty = FALSE]
       ELSE UNCHANGED <<files, units>>
    /\ saving' = saving + 1
    /\ UNCHANGED <<index, diskIndex, now, nextVer, putAt, latest>>

\* lib_save, last: _index is rewritten from lib->index, head first
LibSaveIndex ==
    /\ saving = Len(units) + 1
    /\ diskIndex' = index
    /\ saving' = 0
    /\ UNCHANGED <<units, index, files, now, nextVer, putAt, latest>>

\* the process exits, at any point (a crash, a fatal, or the end of a
\* command); the next nvc command's lib_find runs lib_init
Restart ==
    /\ units' = <<>>
    /\ index' = ReadIndex(diskIndex, <<>>)
    /\ saving' = 0
    /\ latest' = [n \in Names |-> files[n].ver]
    /\ UNCHANGED <<files, diskIndex, now, nextVer, putAt>>

Tick ==
    /\ now < MaxTime
    /\ now' = now + 1
    /\ UNCHANGED <<units, index, files, diskIndex, saving, nextVer, putAt, latest>>

Next ==
    \/ \E n \in Names, k \in Kinds : LibPut(n, k)
    \/ \E n \in Names, keep \in BOOLEAN : LibGet(n, keep)
    \/ LibSaveBegin
    \/ LibSaveUnit
    \/ LibSaveIndex
    \/ Restart
    \/ Tick

Spec == Init /\ [][Next]_vars

-----------------------------------------------------------------------------
(* Properties *)

Unit == [name : Names, ver : 1..MaxVer, kind : Kinds, dirty : BOOLEAN,
         mtime : 0..MaxTime, ctx : {"open", "none"}]

TypeOK ==
    /\ units \in Seq(Unit)
    /\ index \in Seq([name : Names, kind : Kinds])
    /\ \A n \in Names : files[n] = Absent \/
          files[n] \in [ver : 1..MaxVer, kind : Kinds, mtime : 0..MaxTime]
    /\ saving \in 0..(Len(units) + 1)
    /\ now \in 0..MaxTime

(***************************************************************************)
(* Spec 5, lib_save rewrites _index last: whenever the process stops,     *)
(* even between two writes of lib_save, every unit _index names has its   *)
(* file in the directory, so lib_get of an indexed name finds a tree.     *)
(***************************************************************************)
IndexedUnitsOnDisk ==
    \A k \in DOMAIN diskIndex : files[diskIndex[k].name] # Absent

(***************************************************************************)
(* lib_save over units with duplicates: once the unit loop of lib_save    *)
(* has finished, each file holds the newest tree of its name -- the       *)
(* later of two dirty units of one name is written last.                  *)
(***************************************************************************)
SavedIsLatest ==
    saving = Len(units) + 1 => \A n \in Names : files[n].ver = latest[n]

\* the version lib_get_aux returns for n, in the state after the call
Returned(n) == units[FirstUnit(n)].ver

(***************************************************************************)
(* Spec 4.4.3, "put ... get(id) returns a cached unit": a lib_get after a *)
(* lib_put of the same name in one process returns that newest tree.      *)
(***************************************************************************)
GetReturnsLatest ==
    [][\A n \in Names, keep \in BOOLEAN :
          LibGet(n, keep) => Returned(n)' = latest[n]]_vars

(***************************************************************************)
(* Spec 4.4.3/4.4.4, mtimes in microseconds ordering architectures by     *)
(* analysis: of two units held in memory, the one lib_put later never has *)
(* the smaller mtime.                                                     *)
(***************************************************************************)
MtimeFollowsAnalysis ==
    \A j, k \in DOMAIN units :
        putAt[units[j].ver] < putAt[units[k].ver] =>
            units[j].mtime <= units[k].mtime
=============================================================================
