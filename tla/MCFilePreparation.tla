------------------------- MODULE MCFilePreparation -------------------------
(***************************************************************************)
(* Small files over four strings: shared words make non-identity remaps.   *)
(* The thresholds of the strategies are scaled down so that each one runs; *)
(* the policy itself is proved for every threshold in FilePreparationProofs.*)
(***************************************************************************)
EXTENDS FilePreparation

MCBaseTable == << "a" >>
MCFileText ==
    [f \in Files |-> CASE f = 0 -> << "b", "c" >>
                       [] f = 1 -> << "c", "a" >>
                       [] f = 2 -> << "d", "b" >>
                       [] f = 3 -> << "c" >>
                       [] OTHER -> << "d" >>]
=============================================================================
