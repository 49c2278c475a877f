------------------------- MODULE MCDirectoryCompile -------------------------
(***************************************************************************)
(* Four roots, module 1 a support root.  Root files sort in another order  *)
(* than root directories; the texts share strings with each other and with *)
(* the build's table.                                                      *)
(***************************************************************************)
EXTENDS DirectoryCompile, TLC

MCString == {"a", "b", "c"}
MCBuildTable == <<"a">>
MCModuleText == (0 :> <<"b", "a">>) @@ (1 :> << >>) @@ (2 :> <<"c", "b">>) @@
                (3 :> <<"b", "c">>)
MCPathRank == (0 :> 2) @@ (1 :> 0) @@ (2 :> 1) @@ (3 :> 3)

MCLink(p, m) == [provider |-> p, consumer |-> m]

\* No edge; a chain through the support root; two consumers of one provider;
\* a cycle below an entry.
MCObservations ==
    { << >>,
      << MCLink(3, 1), MCLink(1, 0) >>,
      << MCLink(3, 2), MCLink(3, 0), MCLink(3, 2) >>,
      << MCLink(2, 3), MCLink(3, 2), MCLink(3, 0) >> }
=============================================================================
