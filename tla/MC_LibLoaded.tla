--------------------------- MODULE MC_LibLoaded ---------------------------
(***************************************************************************)
(* The work library WORK, which lib_new makes, and an installed library   *)
(* IEEE that lib_find loads; three lib_init calls are enough for two      *)
(* processes to open the work library.                                    *)
(***************************************************************************)
EXTENDS LibLoaded

MCLibNames == {"WORK", "IEEE"}
MCExisting == {"IEEE"}
=============================================================================
