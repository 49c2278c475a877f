-------------------------- MODULE MCOutputCleanup --------------------------
(***************************************************************************)
(* The order and the beginnings of the path names of the runs of           *)
(* OutputCleanup: "page" is what remains when "page.html" is cut.          *)
(***************************************************************************)
EXTENDS OutputCleanup

MCRank == [p \in Paths |-> CASE p = "about.html" -> 1
                             [] p = "page"       -> 2
                             [] p = "page.html"  -> 3]

MCBeginnings == [p \in Paths |-> IF p = "page.html" THEN {"page"} \cap Paths
                                                    ELSE {}]
=============================================================================
