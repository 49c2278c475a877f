--------------------------- MODULE MCHeaderOrder ---------------------------
(***************************************************************************)
(* The modules the check enumerates: every graph of type names over a few  *)
(* declarations of one file, so that walks meet cycles, missing imports and *)
(* finished headers in every order; constants of two files that read each  *)
(* other's declarations, with a type that goes over an import; and types   *)
(* of two files that name each other with a namespace.                     *)
(***************************************************************************)
EXTENDS HeaderOrder

Header(kind, file, named, reads) ==
    [kind |-> kind, file |-> file, hints |-> named, qualified |-> {},
     refs |-> reads]

Bound(first, second) ==
    [f \in File |-> [s \in Import |-> IF f = "a" THEN first ELSE second]]

\* Three declarations around a start function, the first naming a type that
\* exists nowhere, and an import that is missing, public or one of them.
Graphs3 ==
    {[headers |-> << Header("nominal", "a", n[1] \cup {Undeclared}, << >>),
                     Header("nominal", "a", n[2], << >>),
                     Header("start", "a", {}, << >>),
                     Header("alias", "a", n[3], << >>) >>,
      bound |-> Bound(to, Unbound)] :
        n \in [1 .. 3 -> SUBSET ({1, 2, 4} \cup Import)],
        to \in {Missing, PublicExport, 2}}

\* Four declarations that name at most two of one another.
Graphs4 ==
    {[headers |-> << Header("nominal", "a", n[1], << >>),
                     Header("nominal", "a", n[2], << >>),
                     Header("nominal", "a", n[3], << >>),
                     Header("alias", "a", n[4], << >>) >>,
      bound |-> Bound(Unbound, Unbound)] :
        n \in [1 .. 4 -> {s \in SUBSET (1 .. 4) : Cardinality(s) <= 2}]}

\* A constant reads nothing, or one name of the module or outside it.
Reads ==
    {<< >>} \cup {<<[to |-> t, call |-> c]>> :
                     t \in 1 .. 4 \cup {Hidden, External}, c \in {FALSE}}

\* Two constants of file a, then a struct and a constant of file b; the
\* struct's capacity may be a constant, its fields and the first constant's
\* annotation may be imports.
Constants ==
    {[headers |-> << Header("constant", "a", named[1], reads[1]),
                     Header("constant", "a", {}, reads[2]),
                     Header("nominal", "b", named[2], reads[3]),
                     Header("constant", "b", {}, reads[4]) >>,
      bound |-> Bound(3, to)] :
        named \in [1 .. 2 -> SUBSET Import],
        reads \in [1 .. 4 -> Reads],
        to \in {1, Missing}}

\* Constants that build a struct or read through an alias.
Constructors ==
    {[headers |-> << Header("constant", "a", {}, r), Header("nominal", "a", {}, << >>),
                     Header("alias", "a", {2}, << >>), Header("template", "b", Import, s) >>,
      bound |-> Bound(to, to)] :
        r \in {<<[to |-> t, call |-> c]>> : t \in 2 .. 3, c \in BOOLEAN},
        s \in {<<[to |-> 1, call |-> FALSE], [to |-> t, call |-> TRUE]>> :
                   t \in {1, 2, Unknown, External}},
        to \in {1, 3, Unbound, PublicExport}}

\* No type, or one with a namespace, whose last component the file may know as
\* another of its declarations or as an import.
Qualified(types, lasts) ==
    {{}} \cup {{q} : q \in [type : types,
                            last : lasts \cup Import \cup {Undeclared}]}

\* Two types of file a and an alias of file b that name each other with a
\* namespace and, in file a, without one.
Namespaces ==
    {[headers |-> << [Header("nominal", "a", n[1], << >>) EXCEPT !.qualified = q[1]],
                     [Header("nominal", "a", n[2], << >>) EXCEPT !.qualified = q[2]],
                     [Header("alias", "b", {}, << >>) EXCEPT !.qualified = q[3]] >>,
      bound |-> Bound(to, Unbound)] :
        n \in [1 .. 2 -> SUBSET {1, 2}],
        q \in {f \in [1 .. 3 -> Qualified({3}, {1, 2}) \cup Qualified({1, 2}, {3})] :
                  /\ f[1] \in Qualified({3}, {1, 2})
                  /\ f[2] \in Qualified({3}, {1, 2})
                  /\ f[3] \in Qualified({1, 2}, {3})},
        to \in {3, Unbound}}

MCInputs == {Graphs3, Graphs4, Constants, Constructors, Namespaces}
=============================================================================
