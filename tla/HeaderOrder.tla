---------------------------- MODULE HeaderOrder ----------------------------
(***************************************************************************)
(* Binding and ordering of the top-level declarations of one module: the   *)
(* end of bind_module_headers (canonicalize_local_ordering_hints, then     *)
(* add_constant_initializer_dependencies) and resolve_module_dependencies, *)
(* the depth-first sort that puts every declaration after the ones it      *)
(* needs.  AST construction walks the result once, front to back.          *)
(*                                                                         *)
(* A header is its position in source order.  It names types plainly, as   *)
(* declarations of its own file or as imports of that file, or qualified   *)
(* by a namespace, and then only the last component is looked at.  Its     *)
(* references are the names its constant initializer, template condition   *)
(* and collection capacities read; what the defaults of struct fields read *)
(* is not collected.                                                       *)
(***************************************************************************)
EXTENDS Integers, Sequences, FiniteSets

CONSTANTS
    Inputs,       \* families of the modules that may reach binding
    Import,       \* the spellings of imports
    File,         \* the files of a module
    Undeclared,   \* a same-file path no header declares
    Missing,      \* a path that names nothing the module may use
    PublicExport, \* a public path of a source-backed package
    Unbound,      \* an import without a visible source name: external, virtual
    External,     \* a reference to an external symbol
    Hidden,       \* a reference to a constant this file may not see
    Unknown       \* a reference to a name nothing explains: AST's affair

NoHeader == {Undeclared, Missing, PublicExport}

Kinds == {"constant", "template", "nominal", "alias", "function", "start"}

ASSUME TargetsAssumption ==
    /\ (Import \cup NoHeader \cup {Unbound, External, Hidden, Unknown})
           \cap Nat = {}
    /\ Import \cap (NoHeader \cup {Unbound}) = {}
    /\ Missing \notin {Undeclared, PublicExport}
    /\ Unbound \notin NoHeader

Spelling == Nat \cup Import \cup {Undeclared}

\* A module as its files declare it.  A plain name reaches another file over an
\* import only; a qualified one is of some type, of any file, and ends in a name
\* that its own file may also know, as something else.  A start function has no
\* name to be reached by and names nothing itself.
Syntax == [kind : Kinds, file : File,
           hints : SUBSET Spelling,
           qualified : SUBSET [type : Nat, last : Spelling],
           refs : Seq([to : Nat \cup {External, Hidden, Unknown},
                       call : BOOLEAN])]

Spelled(h) == h.hints \cup {q.last : q \in h.qualified}

WellFormed(m) ==
    /\ m.headers \in Seq(Syntax)
    /\ m.bound \in [File -> [Import -> Nat \cup NoHeader \cup {Unbound}]]
    /\ \A i \in DOMAIN m.headers :
          LET h == m.headers[i]
              Named == {j \in DOMAIN m.headers : m.headers[j].kind # "start"}
          IN  /\ h.kind = "start" =>
                    h.hints = {} /\ h.qualified = {} /\ h.refs = << >>
              /\ \A q \in h.qualified : q.type \in Named
              /\ \A j \in Spelled(h) \cap Nat :
                    j \in Named /\ m.headers[j].file = h.file
              /\ \A k \in DOMAIN h.refs :
                    h.refs[k].to \in Nat => h.refs[k].to \in Named
              /\ \A s \in Import :
                    m.bound[h.file][s] \in Nat => m.bound[h.file][s] \in Named

ASSUME InputsAssumption == \A family \in Inputs : \A m \in family : WellFormed(m)

VARIABLES
    module,   \* the headers in source order and what each import is bound to
    hints,    \* hints[i] : local_ordering_hints of header i
    phase,    \* the pass that runs, or "rejected" or "sorted" at the end
    root,     \* the header the outer loop is at
    frames,   \* the recursion: a header and the hints it has yet to follow
    marked,   \* DependencyTracker.temp_mark
    visited,  \* DependencyTracker.visited
    order,    \* the headers finished, in order; at the end the whole result
    failing,  \* the diagnostic the recursion is returning with
    bag       \* the diagnostics reported: the root and its error

vars == <<module, hints, phase, root, frames, marked, visited, order,
          failing, bag>>

Headers == DOMAIN module.headers
KindOf(i) == module.headers[i].kind
FileOf(i) == module.headers[i].file

\* The start functions are partitioned off before the graph is built.
GraphHeaders == {i \in Headers : KindOf(i) # "start"}

NoError == [kind |-> "none", at |-> 0]

-----------------------------------------------------------------------------
\* What syntax preparation retains of the types header i names: the last
\* component of a qualified name like a plain one, and never the own name of a
\* struct, choice or function.
Retained(i) ==
    {t \in Spelled(module.headers[i]) :
        t = i => KindOf(i) \notin {"nominal", "function"}}

Init ==
    /\ \E family \in Inputs : module \in family
    /\ hints = [i \in Headers |-> Retained(i)]
    /\ phase = "hints"
    /\ root = 1
    /\ frames = << >>
    /\ marked = {}
    /\ visited = {}
    /\ order = << >>
    /\ failing = NoError
    /\ bag = << >>

\* A hint spelled like an import of the file becomes the path the import is
\* bound to, or goes when it is bound to no source name; the rest stay.
Canonical(i, spelled) ==
    LET bound == module.bound[FileOf(i)]
    IN  (spelled \ Import)
            \cup ({bound[s] : s \in spelled \cap Import} \ {Unbound})

CanonicalizeHints ==
    /\ phase = "hints"
    /\ hints' = [i \in Headers |-> Canonical(i, hints[i])]
    /\ phase' = "constants"
    /\ UNCHANGED <<module, root, frames, marked, visited, order, failing, bag>>

\* What classify_reference makes of a reference of header i.
IsConstant(r) == r.to \in Headers /\ KindOf(r.to) = "constant"

IsConstructor(r) == r.call /\ KindOf(r.to) = "nominal"

\* A plausible bug: the header right below is not seen as a forward reference.
LooksFurtherForward(i, r) == FileOf(r.to) = FileOf(i) /\ r.to > i + 1

LooksForward(i, r) == FileOf(r.to) = FileOf(i) /\ r.to > i

RefersBadly(i, r) ==
    \/ r.to = Hidden
    \/ IsConstant(r) /\ (r.to = i \/ LooksForward(i, r))
    \/ r.to \in Headers /\ KindOf(r.to) \notin {"constant", "alias"}
           /\ ~IsConstructor(r)

References(i) == {module.headers[i].refs[k] : k \in DOMAIN module.headers[i].refs}

\* A plausible bug: only the constants of the file are edges, as in the source order
\* check next to it.
SameFileEdges(i) ==
    {r.to : r \in {q \in References(i) :
                      IsConstant(q) /\ ~RefersBadly(i, q)
                          /\ FileOf(q.to) = FileOf(i)}}

\* Every header is looked at and every bad reference reported; the edges are
\* added after the pass, and a single diagnostic rejects the module.
ConstantEdges(i) ==
    {r.to : r \in {q \in References(i) : IsConstant(q) /\ ~RefersBadly(i, q)}}

AddConstantDependencies ==
    /\ phase = "constants"
    /\ hints' = [i \in Headers |-> hints[i] \cup ConstantEdges(i)]
    /\ phase' = IF \E i \in Headers : \E r \in References(i) : RefersBadly(i, r)
                THEN "rejected" ELSE "sort"
    /\ UNCHANGED <<module, root, frames, marked, visited, order, failing, bag>>

-----------------------------------------------------------------------------
Running == phase = "sort" /\ failing = NoError

Top == frames[Len(frames)]
Pop == SubSeq(frames, 1, Len(frames) - 1)

\* DependencyTracker.enter
Enter(i) ==
    /\ marked' = marked \cup {i}
    /\ frames' = Append(frames, [node |-> i, left |-> hints[i]])

\* A plausible bug: the header leaves the stack and keeps its mark.
PopOnly ==
    /\ frames' = Pop
    /\ UNCHANGED marked

\* DependencyTracker.abandon, of the header whose call returns
Abandon ==
    /\ marked' = marked \ {Top.node}
    /\ frames' = Pop

\* The outer loop takes the headers of the graph in source order and calls
\* visit_node on the ones no earlier call finished.
VisitRoot ==
    /\ Running /\ frames = << >> /\ root \in Headers
    /\ root \in GraphHeaders \ visited
    /\ Enter(root)
    /\ UNCHANGED <<module, hints, phase, root, visited, order, failing, bag>>

SkipRoot ==
    /\ Running /\ frames = << >> /\ root \in Headers
    /\ root \notin GraphHeaders \ visited
    /\ root' = root + 1
    /\ UNCHANGED <<module, hints, phase, frames, marked, visited, order,
                   failing, bag>>

\* Edges are followed in the source order of their targets; the ones to no
\* header come last, in the order of their paths.
IsNextEdge(t) ==
    /\ t \in Top.left
    /\ t \in Nat => \A u \in Top.left \cap Nat : t <= u
    /\ t \notin Nat => Top.left \cap Nat = {}

DropEdge(t) ==
    [frames EXCEPT ![Len(frames)] = [node |-> Top.node, left |-> Top.left \ {t}]]

\* A plausible bug: only roots are entered into the tracker.
DescendUnmarked(t) ==
    /\ t \in GraphHeaders /\ t \notin marked /\ t \notin visited
    /\ frames' = Append(DropEdge(t), [node |-> t, left |-> hints[t]])
    /\ UNCHANGED <<marked, visited, failing>>

\* visit_node of a header that is neither finished nor on the stack.
Descend(t) ==
    /\ t \in GraphHeaders /\ t \notin marked /\ t \notin visited
    /\ marked' = marked \cup {t}
    /\ frames' = Append(DropEdge(t), [node |-> t, left |-> hints[t]])
    /\ UNCHANGED <<visited, failing>>

\* A finished header, a public export or a same-file name nobody declares:
\* there is nothing to wait for.
PassOver(t) ==
    /\ t \in visited \cup {PublicExport, Undeclared}
    /\ t \notin marked
    /\ frames' = DropEdge(t)
    /\ UNCHANGED <<marked, visited, failing>>

Fail(t) ==
    /\ \/ t = Missing /\ failing' = [kind |-> "missing", at |-> Top.node]
       \/ t \in marked /\ failing' = [kind |-> "circular", at |-> t]
    /\ UNCHANGED <<frames, marked, visited>>

FollowEdge ==
    /\ Running /\ frames # << >>
    /\ \E t \in Top.left :
          IsNextEdge(t) /\ (Descend(t) \/ PassOver(t) \/ Fail(t))
    /\ UNCHANGED <<module, hints, phase, root, order, bag>>

\* All edges followed: the header is pushed and finished.
FinishHeader ==
    /\ Running /\ frames # << >> /\ Top.left = {}
    /\ order' = Append(order, Top.node)
    /\ visited' = visited \cup {Top.node}
    /\ Abandon
    /\ UNCHANGED <<module, hints, phase, root, failing, bag>>

\* An error leaves visit_node after abandon, call by call ...
Unwind ==
    /\ phase = "sort" /\ failing # NoError /\ frames # << >>
    /\ Abandon
    /\ UNCHANGED <<module, hints, phase, root, visited, order, failing, bag>>

\* ... until the outer loop keeps it and goes on with the next root.
Report ==
    /\ phase = "sort" /\ failing # NoError /\ frames = << >>
    /\ bag' = Append(bag, [root |-> root, error |-> failing])
    /\ failing' = NoError
    /\ root' = root + 1
    /\ UNCHANGED <<module, hints, phase, frames, marked, visited, order>>

\* Any diagnostic rejects the module.
EndSort ==
    /\ Running /\ frames = << >> /\ root \notin Headers
    /\ phase' = IF bag = << >> THEN "extend" ELSE "rejected"
    /\ root' = 1
    /\ UNCHANGED <<module, hints, frames, marked, visited, order, failing, bag>>

\* Otherwise the start functions follow the declarations, in source order.
ExtendWithStart ==
    /\ phase = "extend" /\ root \in Headers
    /\ order' = IF KindOf(root) = "start" THEN Append(order, root) ELSE order
    /\ root' = root + 1
    /\ UNCHANGED <<module, hints, phase, frames, marked, visited, failing, bag>>

ReturnSorted ==
    /\ phase = "extend" /\ root \notin Headers
    /\ phase' = "sorted"
    /\ UNCHANGED <<module, hints, root, frames, marked, visited, order,
                   failing, bag>>

Next ==
    \/ CanonicalizeHints \/ AddConstantDependencies
    \/ VisitRoot \/ SkipRoot \/ FollowEdge \/ FinishHeader
    \/ Unwind \/ Report \/ EndSort \/ ExtendWithStart \/ ReturnSorted

Spec == Init /\ [][Next]_vars

-----------------------------------------------------------------------------
OnStack == {frames[k].node : k \in DOMAIN frames}
Finished == {order[p] : p \in DOMAIN order}
Reported == {bag[k].root : k \in DOMAIN bag}

NoneTwice == \A p, q \in DOMAIN order : order[p] = order[q] => p = q

Targets == Headers \cup NoHeader

\* Types: before canonicalization a hint may be spelled like an import, after
\* it only paths are left, and what the sort keeps are headers of the graph.
TypeOK ==
    /\ WellFormed(module)
    /\ DOMAIN hints = Headers
    /\ \A i \in Headers :
          hints[i] \subseteq IF phase = "hints" THEN Targets \cup Import
                                                ELSE Targets
    /\ phase \in {"hints", "constants", "sort", "extend", "rejected", "sorted"}
    /\ root \in Nat
    /\ frames \in Seq([node : GraphHeaders, left : SUBSET Targets])
    /\ marked \subseteq GraphHeaders
    /\ visited \subseteq GraphHeaders
    /\ order \in Seq(Headers)
    /\ failing = NoError
         \/ failing \in [kind : {"missing", "circular"}, at : GraphHeaders]
    /\ bag \in Seq([root : GraphHeaders,
                    error : [kind : {"missing", "circular"}, at : GraphHeaders]])

Spells(i, named, j) ==
    \/ j \in named
    \/ \E s \in named \cap Import : module.bound[FileOf(i)][s] = j

\* The declarations whose types header i names plainly, itself or through an
\* import, and the constants it reads: the module as written, before any pass.
NamesType(i, j) == Spells(i, module.headers[i].hints, j)

ReadsConstant(i, j) ==
    \E r \in References(i) : r.to = j /\ KindOf(j) = "constant"

\* An accepted module is complete, holds every header once, and each of its
\* declarations comes after the other types it names plainly and the constants
\* its initializer, condition and capacities read, in this file or, through an
\* import, in another: AST construction and constant folding look at the
\* declarations in this order and only once.  It says nothing of types named with
\* a namespace, nor of what the defaults of struct fields read: there the code
\* makes no edge to what is meant.
UsesComeFirst ==
    phase = "sorted" =>
        /\ Finished = Headers /\ NoneTwice
        /\ \A p \in DOMAIN order, j \in Headers :
              (NamesType(order[p], j) /\ j # order[p]) \/ ReadsConstant(order[p], j)
                  => \E q \in 1 .. p - 1 : order[q] = j

\* A declaration cannot be ordered when it needs something missing, or leads
\* into a cycle: it belongs to a set in which everyone needs something missing
\* or another one of the set.
Stuck(h) ==
    \E S \in SUBSET GraphHeaders :
        h \in S /\ \A x \in S : Missing \in hints[x] \/ hints[x] \cap S # {}

\* The sort goes on after an error with the marks and the finished headers of
\* the roots before.  All the same the headers it reports are the ones that
\* cannot be ordered, each with one diagnostic, whatever the walk that came
\* upon them; all the others are finished, once, and none is both.
ReportsAreExact ==
    phase = "sort" /\ root \notin Headers =>
        /\ Reported = {h \in GraphHeaders : Stuck(h)}
        /\ \A k, l \in DOMAIN bag : bag[k].root = bag[l].root => k = l
        /\ visited = {h \in GraphHeaders : ~Stuck(h)}
        /\ Finished = visited /\ NoneTwice

\* visit_node recurses on the native stack: it is never deeper than the module
\* has declarations, however cyclic they are and after whatever errors.
RecursionIsBounded == Len(frames) <= Cardinality(GraphHeaders)

\* Inside a file a constant may only read the constants above it, and only the
\* binding pass sees that.  So when the sort runs into a cycle, the cycle leaves
\* the file or goes over the name of a type, be it only the last component of a
\* qualified one: constants of one file are never reported as circular, a
\* diagnostic that names no declaration order.
CyclesLeaveTheFile ==
    failing.kind = "circular" /\ frames # << >> /\ failing.at \in hints[Top.node]
        /\ failing.at \in OnStack =>
        LET first == CHOOSE k \in DOMAIN frames : frames[k].node = failing.at
            Cycle == {frames[k].node : k \in first .. Len(frames)}
        IN  \/ \E i, j \in Cycle : FileOf(i) # FileOf(j)
            \/ \E i, j \in Cycle : Spells(i, Spelled(module.headers[i]), j)
=============================================================================
