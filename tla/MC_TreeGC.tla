------------------------------ MODULE MC_TreeGC ------------------------------
(***************************************************************************)
(* Five trees in all_trees order.  Trees 1 and 4 are top level (design    *)
(* units); 2 and 3 reference each other, as a recursive function body     *)
(* whose call refers back to its declaration; 4 shares 3 with 1 and has a *)
(* NULL slot; 5 is left over from an earlier copy and only refers into    *)
(* the live graph.                                                        *)
(***************************************************************************)
EXTENDS TreeGC

MCNodes == 1..5

\* 1 -> 2 -> 3 -> 2 (cycle), 4 -> 3 and NULL, 5 -> 2
MCKids == [t \in MCNodes |->
             CASE t = 1 -> <<2>>
               [] t = 2 -> <<3>>
               [] t = 3 -> <<2>>
               [] t = 4 -> <<3, Null>>
               [] t = 5 -> <<2>>]

MCTopLevel == {1, 4}
====
