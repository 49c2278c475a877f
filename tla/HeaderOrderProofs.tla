------------------------- MODULE HeaderOrderProofs -------------------------
(***************************************************************************)
(* For every module: an accepted declaration order has each declaration    *)
(* after the ones it uses, the diagnostics of a rejected one name exactly  *)
(* the declarations that cannot be ordered, the recursion is no deeper     *)
(* than the graph has headers, and constants of one file are never         *)
(* reported as circular.                                                   *)
(***************************************************************************)
EXTENDS HeaderOrder, CommonLemmas

\* The targets that never hold a header back.
Free == {PublicExport, Undeclared}

Paths == GraphHeaders \cup NoHeader

Frame == [node : GraphHeaders, left : SUBSET Paths]

Ordering == phase \in {"sort", "extend", "sorted"}

\* From the sort on, hints hold what the module as written needs.
HintsAreNeeds ==
    /\ phase = "hints" =>
          \A i \in Headers : hints[i] = Retained(i)
    /\ phase = "constants" =>
          \A i \in Headers : hints[i] = Canonical(i, Retained(i))
    /\ Ordering => \A i \in Headers :
          /\ hints[i] \subseteq Paths
          /\ KindOf(i) = "start" => hints[i] = {}
          /\ \A j \in Headers :
                (NamesType(i, j) /\ j # i) \/ ReadsConstant(i, j) => j \in hints[i]

\* Nothing is under way before the sort and after it.
OnlyInSort ==
    /\ phase \in {"hints", "constants", "sort", "extend", "rejected", "sorted"}
    /\ phase # "sort" => frames = << >> /\ failing = NoError
    /\ phase \in {"hints", "constants"} =>
          visited = {} /\ marked = {} /\ order = << >> /\ bag = << >> /\ root = 1

\* The frames are a path of the graph from the root, without a header twice.
StackIsPath ==
    /\ frames \in Seq(Frame)
    /\ \A k \in DOMAIN frames : frames[k].left \subseteq hints[frames[k].node]
    /\ \A k, l \in DOMAIN frames : frames[k].node = frames[l].node => k = l
    /\ \A k \in 1 .. Len(frames) - 1 :
          frames[k + 1].node \in hints[frames[k].node]
    /\ frames # << >> => frames[1].node = root

MarksAreStack == marked = OnStack /\ OnStack \cap visited = {}

\* An edge that was followed led to a finished header or is the next frame.
EdgesFollowed ==
    failing = NoError =>
        \A k \in DOMAIN frames : \A t \in hints[frames[k].node] \ frames[k].left :
            \/ t \in visited \cup Free
            \/ k < Len(frames) /\ t = frames[k + 1].node

OrderIsSound ==
    /\ order \in Seq(Headers)
    /\ NoneTwice
    /\ \A p \in DOMAIN order : \A t \in hints[order[p]] :
          t \in Free \/ \E q \in 1 .. p - 1 : order[q] = t

OrderIsFull ==
    /\ phase \in {"hints", "constants", "sort"} => Finished = visited
    /\ phase = "extend" =>
          Finished = GraphHeaders \cup {i \in Headers \ GraphHeaders : i < root}
    /\ phase = "sorted" => Finished = Headers

NoneStuck == visited \subseteq GraphHeaders /\ \A h \in visited : ~Stuck(h)

FailingIsStuck == failing # NoError => root \in GraphHeaders /\ Stuck(root)

RootsAreDone ==
    /\ root \in Nat \ {0}
    /\ bag \in Seq([root : GraphHeaders,
                    error : [kind : {"missing", "circular"}, at : GraphHeaders]])
    /\ \A k \in DOMAIN bag : Stuck(bag[k].root)
    /\ \A k, l \in DOMAIN bag : bag[k].root = bag[l].root => k = l
    /\ phase = "sort" =>
          /\ \A k \in DOMAIN bag : bag[k].root < root
          /\ \A h \in GraphHeaders : h < root => h \in visited \cup Reported

ErrorType ==
    failing = NoError
        \/ failing \in [kind : {"missing", "circular"}, at : GraphHeaders]

HeaderInv ==
    /\ WellFormed(module) /\ DOMAIN hints = Headers
    /\ HintsAreNeeds /\ OnlyInSort
    /\ StackIsPath /\ MarksAreStack /\ EdgesFollowed
    /\ OrderIsSound /\ OrderIsFull
    /\ NoneStuck /\ FailingIsStuck /\ ErrorType /\ RootsAreDone

-----------------------------------------------------------------------------
LEMMA LastOrBefore ==
    ASSUME NEW n \in Nat \ {0}
    PROVE  /\ 1 \in 1 .. n /\ n \in 1 .. n
           /\ \A k \in 1 .. n : k = n \/ k \in 1 .. n - 1
           /\ \A k \in 1 .. n - 1 : k \in 1 .. n /\ k + 1 \in 1 .. n
           /\ \A k \in 1 .. n + 1 : k = n + 1 \/ k \in 1 .. n
    OBVIOUS

LEMMA ShorterStack ==
    ASSUME NEW n \in Nat \ {0}, NEW m \in Nat, m = n \/ m = n - 1
    PROVE  /\ 1 .. m \subseteq 1 .. n
           /\ \A k \in 1 .. m - 1 : k \in 1 .. n - 1 /\ k \in 1 .. m /\ k + 1 \in 1 .. m
           /\ m # 0 => 1 \in 1 .. m
    OBVIOUS

LEMMA PopFacts ==
    ASSUME NEW X, NEW s \in Seq(X), s # << >>
    PROVE  /\ SubSeq(s, 1, Len(s) - 1) \in Seq(X)
           /\ Len(SubSeq(s, 1, Len(s) - 1)) = Len(s) - 1
           /\ \A k \in 1 .. Len(s) - 1 : SubSeq(s, 1, Len(s) - 1)[k] = s[k]
           /\ Len(s) \in Nat \ {0}
<1>1. Len(s) \in Nat \ {0} /\ s \in [1 .. Len(s) -> X]
    OBVIOUS
<1>2. SubSeq(s, 1, Len(s) - 1) = [k \in 1 .. Len(s) - 1 |-> s[k]]
    BY <1>1
<1>3. [k \in 1 .. Len(s) - 1 |-> s[k]] \in [1 .. Len(s) - 1 -> X]
    BY <1>1
<1>4. [k \in 1 .. Len(s) - 1 |-> s[k]] \in Seq(X)
    BY <1>1, <1>3
<1>5. Len([k \in 1 .. Len(s) - 1 |-> s[k]]) = Len(s) - 1
    BY <1>1, <1>3, <1>4
<1> QED
    BY <1>1, <1>2, <1>4, <1>5

LEMMA AppendFacts ==
    ASSUME NEW X, NEW s \in Seq(X), NEW x \in X
    PROVE  /\ Append(s, x) \in Seq(X)
           /\ Len(Append(s, x)) = Len(s) + 1
           /\ \A k \in 1 .. Len(s) : Append(s, x)[k] = s[k]
           /\ Append(s, x)[Len(s) + 1] = x
    OBVIOUS

LEMMA DropFacts ==
    ASSUME NEW X, NEW s \in Seq(X), s # << >>, NEW x \in X
    PROVE  LET d == [s EXCEPT ![Len(s)] = x]
           IN  /\ d \in Seq(X)
               /\ Len(d) = Len(s)
               /\ \A k \in 1 .. Len(s) - 1 : d[k] = s[k]
               /\ d[Len(s)] = x
    OBVIOUS

LEMMA HeadersFacts ==
    ASSUME WellFormed(module)
    PROVE  /\ Headers = 1 .. Len(module.headers) /\ Len(module.headers) \in Nat
           /\ Headers \subseteq Nat /\ GraphHeaders \subseteq Headers
           /\ \A i \in Headers : i \notin NoHeader
<1>1. PICK R : module.headers \in Seq(R)
    BY DEF WellFormed
<1>2. Headers = 1 .. Len(module.headers) /\ Len(module.headers) \in Nat
    BY <1>1 DEF Headers
<1>3. Headers \subseteq Nat /\ GraphHeaders \subseteq Headers
    BY <1>2 DEF GraphHeaders
<1>4. NoHeader \cap Nat = {}
    BY TargetsAssumption
<1> QED
    BY <1>2, <1>3, <1>4

LEMMA InitHolds == Init => HeaderInv
<1> SUFFICES ASSUME Init PROVE HeaderInv
    OBVIOUS
<1>1. WellFormed(module)
    BY InputsAssumption DEF Init
<1>2. DOMAIN hints = Headers
    BY DEF Init, Headers
<1>3. HintsAreNeeds
    BY DEF Init, HintsAreNeeds, Ordering
<1>4. OnlyInSort /\ StackIsPath /\ MarksAreStack /\ EdgesFollowed
    BY DEF Init, OnlyInSort, StackIsPath, MarksAreStack, EdgesFollowed, OnStack
<1>5. OrderIsSound /\ OrderIsFull
    BY DEF Init, OrderIsSound, OrderIsFull, Finished, NoneTwice
<1>6. NoneStuck /\ FailingIsStuck /\ ErrorType
    BY DEF Init, NoneStuck, FailingIsStuck, ErrorType
<1>7. RootsAreDone
    BY DEF Init, RootsAreDone
<1> QED
    BY <1>1, <1>2, <1>3, <1>4, <1>5, <1>6, <1>7 DEF HeaderInv

-----------------------------------------------------------------------------
LEMMA CanonicalIsNeeded ==
    ASSUME WellFormed(module), NEW i \in Headers
    PROVE  LET c == Canonical(i, Retained(i))
           IN  /\ c \subseteq Paths
               /\ KindOf(i) = "start" => c = {}
               /\ \A j \in Headers : NamesType(i, j) /\ j # i => j \in c
<1> DEFINE h == module.headers[i]
           kept == Retained(i)
           c == Canonical(i, kept)
           imports == module.bound[FileOf(i)]
<1>1. /\ h.file \in File /\ FileOf(i) = h.file
      /\ Spelled(h) \subseteq Spelling
  <2>1. h \in Syntax
    BY DEF WellFormed, Headers
  <2>2. h.hints \subseteq Spelling /\ \A q \in h.qualified : q.last \in Spelling
    BY <2>1 DEF Syntax
  <2> QED
    BY <2>1, <2>2 DEF Syntax, FileOf, Spelled
<1>2. imports \in [Import -> Nat \cup NoHeader \cup {Unbound}]
    BY <1>1 DEF WellFormed
<1>3. \A j \in Spelled(h) \cap Nat : j \in GraphHeaders
    BY DEF WellFormed, Headers, GraphHeaders, KindOf
<1>4. \A s \in Import : imports[s] \in Nat => imports[s] \in GraphHeaders
    BY <1>1 DEF WellFormed, Headers, GraphHeaders, KindOf
<1>5. c = (kept \ Import)
              \cup ({imports[s] : s \in kept \cap Import} \ {Unbound})
    BY DEF Canonical
<1>6. kept \subseteq Spelled(h) /\ \A t \in Spelled(h) : t # i => t \in kept
    BY DEF Retained
<1> HIDE DEF kept, c
<1>7. c \subseteq Paths
    BY <1>1, <1>2, <1>3, <1>4, <1>5, <1>6 DEF Spelling, Paths, NoHeader
<1>8. ASSUME KindOf(i) = "start" PROVE c = {}
  <2>1. h.hints = {} /\ h.qualified = {}
    BY <1>8 DEF WellFormed, Headers, KindOf
  <2>2. kept = {}
    BY <2>1, <1>6 DEF Spelled
  <2> QED
    BY <2>2, <1>5
<1>9. ASSUME NEW j \in Headers, NamesType(i, j), j # i PROVE j \in c
  <2>1. j \in Nat /\ j \notin Import /\ j # Unbound
    BY HeadersFacts, TargetsAssumption
  <2>2. i \in Nat /\ i \notin Import
    BY HeadersFacts, TargetsAssumption
  <2>3. h.hints \subseteq Spelled(h)
    BY DEF Spelled
  <2>4. CASE j \in h.hints
    BY <2>1, <2>3, <2>4, <1>5, <1>6, <1>9
  <2>5. CASE \E s \in h.hints \cap Import : imports[s] = j
    BY <2>1, <2>2, <2>3, <2>5, <1>5, <1>6
  <2> QED
    BY <2>4, <2>5, <1>9 DEF NamesType, Spells
<1> QED
    BY <1>7, <1>8, <1>9 DEF c, kept

\* Without a bad reference the pass has an edge for every constant read.
LEMMA ConstantEdgesAreReads ==
    ASSUME WellFormed(module), NEW i \in Headers,
           \A r \in References(i) : ~RefersBadly(i, r)
    PROVE  /\ ConstantEdges(i) \subseteq GraphHeaders
           /\ KindOf(i) = "start" => ConstantEdges(i) = {}
           /\ \A j \in Headers : ReadsConstant(i, j) => j \in ConstantEdges(i)
<1>1. ConstantEdges(i) \subseteq GraphHeaders
    BY DEF ConstantEdges, GraphHeaders, IsConstant
<1>2. ASSUME KindOf(i) = "start" PROVE ConstantEdges(i) = {}
  <2>1. module.headers[i].refs = << >>
    BY <1>2 DEF WellFormed, Headers, KindOf
  <2>2. References(i) = {}
    BY <2>1 DEF References
  <2> QED
    BY <2>2 DEF ConstantEdges
<1>3. ASSUME NEW j \in Headers, ReadsConstant(i, j) PROVE j \in ConstantEdges(i)
    BY <1>3 DEF ReadsConstant, ConstantEdges, IsConstant
<1> QED
    BY <1>1, <1>2, <1>3

LEMMA HintsStayNeeds ==
    ASSUME HeaderInv, [Next]_vars
    PROVE  /\ WellFormed(module)' /\ (DOMAIN hints = Headers)'
           /\ HintsAreNeeds'
<1> USE DEF HeaderInv
<1>1. module' = module
    BY DEF Next, vars, CanonicalizeHints, AddConstantDependencies, VisitRoot,
           SkipRoot, FollowEdge, FinishHeader, Unwind, Report, EndSort,
           ExtendWithStart, ReturnSorted
<1>2. /\ WellFormed(module)' /\ Headers' = Headers /\ Paths' = Paths
      /\ \A i, j : NamesType(i, j)' = NamesType(i, j)
      /\ \A i, j : ReadsConstant(i, j)' = ReadsConstant(i, j)
      /\ \A i : KindOf(i)' = KindOf(i) /\ Retained(i)' = Retained(i)
    BY <1>1 DEF Headers, Paths, GraphHeaders, KindOf, NamesType, Spells,
                FileOf, ReadsConstant, References, Retained
<1>3. CASE CanonicalizeHints
  <2>1. /\ phase = "hints" /\ phase' = "constants" /\ DOMAIN hints' = Headers
        /\ \A i \in Headers : hints'[i] = Canonical(i, hints[i])
    BY <1>3 DEF CanonicalizeHints
  <2>2. \A i \in Headers : hints'[i] = Canonical(i, Retained(i))
    BY <2>1 DEF HintsAreNeeds
  <2>3. \A i, s : Canonical(i, s)' = Canonical(i, s)
    BY <1>1 DEF Canonical, FileOf
  <2> QED
    BY <1>1, <1>2, <2>1, <2>2 DEF HintsAreNeeds, Ordering, Canonical, FileOf
<1>4. CASE AddConstantDependencies
  <2>1. /\ phase = "constants" /\ DOMAIN hints' = Headers
        /\ \A i \in Headers : hints'[i] = hints[i] \cup ConstantEdges(i)
        /\ phase' \in {"rejected", "sort"}
        /\ phase' = "sort" =>
              \A i \in Headers : \A r \in References(i) : ~RefersBadly(i, r)
    BY <1>4 DEF AddConstantDependencies
  <2>2. ASSUME phase' = "sort", NEW i \in Headers
        PROVE  /\ hints'[i] \subseteq Paths
               /\ KindOf(i) = "start" => hints'[i] = {}
               /\ \A j \in Headers :
                     (NamesType(i, j) /\ j # i) \/ ReadsConstant(i, j)
                         => j \in hints'[i]
    <3>1. hints'[i] = Canonical(i, Retained(i)) \cup ConstantEdges(i)
        BY <2>1 DEF HintsAreNeeds
    <3>2. \A r \in References(i) : ~RefersBadly(i, r)
        BY <2>1, <2>2
    <3> QED
        BY <3>1, <3>2, CanonicalIsNeeded, ConstantEdgesAreReads DEF Paths
  <2> QED
    BY <1>2, <2>1, <2>2 DEF HintsAreNeeds, Ordering
<1>5. CASE UNCHANGED hints /\ phase' = phase
    BY <1>1, <1>2, <1>5 DEF HintsAreNeeds, Ordering, Canonical, FileOf
<1>6. CASE UNCHANGED hints /\ Ordering
               /\ phase' \in {"sort", "extend", "rejected", "sorted"}
    BY <1>1, <1>2, <1>6 DEF HintsAreNeeds, Ordering
<1> QED
    BY <1>3, <1>4, <1>5, <1>6
    DEF Next, vars, VisitRoot, SkipRoot, FollowEdge, FinishHeader, Unwind,
        Report, EndSort, ExtendWithStart, ReturnSorted, Running, Ordering

-----------------------------------------------------------------------------
LEMMA GraphIsFixed ==
    ASSUME UNCHANGED <<module, hints>>
    PROVE  /\ Headers' = Headers /\ GraphHeaders' = GraphHeaders
           /\ Paths' = Paths /\ Frame' = Frame
           /\ \A h : Stuck(h)' = Stuck(h)
    BY DEF Headers, GraphHeaders, KindOf, Paths, Frame, Stuck

LEMMA HintsArePaths ==
    ASSUME HeaderInv, phase = "sort"
    PROVE  \A i \in Headers : hints[i] \in SUBSET Paths
    BY DEF HeaderInv, HintsAreNeeds, Ordering

LEMMA TopFacts ==
    ASSUME HeaderInv, frames # << >>
    PROVE  /\ Len(frames) \in Nat \ {0} /\ frames \in Seq(Frame)
           /\ DOMAIN frames = 1 .. Len(frames)
           /\ phase = "sort"
           /\ Top \in Frame /\ Top.node \in GraphHeaders /\ Top.left \subseteq Paths
           /\ Top.left \subseteq hints[Top.node]
           /\ \A k \in DOMAIN frames :
                 frames[k].node \in GraphHeaders /\ frames[k].left \subseteq Paths
<1>1. Len(frames) \in Nat \ {0} /\ frames \in Seq(Frame)
         /\ DOMAIN frames = 1 .. Len(frames) /\ phase = "sort"
    BY DEF HeaderInv, StackIsPath, OnlyInSort
<1>2. \A k \in DOMAIN frames : frames[k] \in Frame
    BY <1>1
<1> QED
    BY <1>1, <1>2 DEF Top, Frame, HeaderInv, StackIsPath

\* What each move does to the frames, frame by frame.
LEMMA EnterFrames ==
    ASSUME HeaderInv, VisitRoot
    PROVE  /\ frames' \in Seq(Frame) /\ Len(frames') = 1
           /\ frames'[1] = [node |-> root, left |-> hints[root]]
           /\ root \in GraphHeaders /\ root \notin visited
<1>1. /\ root \in GraphHeaders /\ root \notin visited /\ phase = "sort"
      /\ frames' = Append(<< >>, [node |-> root, left |-> hints[root]])
    BY DEF VisitRoot, Enter, Running
<1>2. [node |-> root, left |-> hints[root]] \in Frame
    BY <1>1, HintsArePaths, HeadersFacts DEF HeaderInv, Frame
<1> QED
    BY <1>1, <1>2

LEMMA DescendFrames ==
    ASSUME HeaderInv, frames # << >>, NEW t \in Top.left, Descend(t)
    PROVE  /\ frames' \in Seq(Frame) /\ Len(frames') = Len(frames) + 1
           /\ \A k \in 1 .. Len(frames) - 1 : frames'[k] = frames[k]
           /\ frames'[Len(frames)] = [node |-> Top.node, left |-> Top.left \ {t}]
           /\ frames'[Len(frames) + 1] = [node |-> t, left |-> hints[t]]
<1> DEFINE new == [node |-> t, left |-> hints[t]]
           top == [node |-> Top.node, left |-> Top.left \ {t}]
<1>1. top \in Frame
    BY TopFacts DEF Frame
<1>2. new \in Frame
    BY TopFacts, HintsArePaths, HeadersFacts DEF HeaderInv, Frame, Descend
<1>3. /\ DropEdge(t) \in Seq(Frame) /\ Len(DropEdge(t)) = Len(frames)
      /\ \A k \in 1 .. Len(frames) - 1 : DropEdge(t)[k] = frames[k]
      /\ DropEdge(t)[Len(frames)] = top
  <2>1. DropEdge(t) = [frames EXCEPT ![Len(frames)] = top]
    BY DEF DropEdge
  <2>2. frames \in Seq(Frame)
    BY TopFacts
  <2> HIDE DEF top
  <2> QED
    BY <1>1, <2>1, <2>2, DropFacts
<1>4. frames' = Append(DropEdge(t), new)
    BY DEF Descend
<1> HIDE DEF new, top
<1>5. /\ frames' \in Seq(Frame) /\ Len(frames') = Len(frames) + 1
      /\ \A k \in 1 .. Len(frames) : frames'[k] = DropEdge(t)[k]
      /\ frames'[Len(frames) + 1] = new
    BY <1>2, <1>3, <1>4, AppendFacts
<1> QED
    BY <1>3, <1>5, TopFacts DEF new, top

LEMMA PassFrames ==
    ASSUME HeaderInv, frames # << >>, NEW t \in Top.left, PassOver(t)
    PROVE  /\ frames' \in Seq(Frame) /\ Len(frames') = Len(frames)
           /\ \A k \in 1 .. Len(frames) - 1 : frames'[k] = frames[k]
           /\ frames'[Len(frames)] = [node |-> Top.node, left |-> Top.left \ {t}]
<1> DEFINE top == [node |-> Top.node, left |-> Top.left \ {t}]
<1>1. top \in Frame
    BY TopFacts DEF Frame
<1>2. frames' = [frames EXCEPT ![Len(frames)] = top]
    BY DEF DropEdge, PassOver
<1> HIDE DEF top
<1>3. /\ frames' \in Seq(Frame) /\ Len(frames') = Len(frames)
      /\ \A k \in 1 .. Len(frames) - 1 : frames'[k] = frames[k]
      /\ frames'[Len(frames)] = top
  <2>1. frames \in Seq(Frame)
    BY TopFacts
  <2> QED
    BY <1>1, <1>2, <2>1, DropFacts
<1> QED
    BY <1>3 DEF top

LEMMA PopFrames ==
    ASSUME HeaderInv, frames # << >>, Abandon
    PROVE  /\ frames' \in Seq(Frame) /\ Len(frames') = Len(frames) - 1
           /\ \A k \in 1 .. Len(frames) - 1 : frames'[k] = frames[k]
           /\ marked' = marked \ {Top.node}
    BY TopFacts, PopFacts DEF Abandon, Pop

LEMMA DescendFields ==
    ASSUME HeaderInv, frames # << >>, NEW t \in Top.left, Descend(t)
    PROVE  /\ Len(frames) \in Nat \ {0} /\ Len(frames') = Len(frames) + 1
           /\ DOMAIN frames = 1 .. Len(frames)
           /\ DOMAIN frames' = 1 .. Len(frames) + 1
           /\ \A k \in 1 .. Len(frames) : frames'[k].node = frames[k].node
           /\ \A k \in 1 .. Len(frames) - 1 : frames'[k].left = frames[k].left
           /\ frames'[Len(frames)].left = frames[Len(frames)].left \ {t}
           /\ frames'[Len(frames) + 1].node = t
           /\ frames'[Len(frames) + 1].left = hints[t]
<1> DEFINE n == Len(frames)
<1>1. /\ n \in Nat \ {0} /\ DOMAIN frames = 1 .. n
      /\ Len(frames') = n + 1 /\ frames' \in Seq(Frame)
      /\ \A k \in 1 .. n - 1 : frames'[k] = frames[k]
      /\ frames'[n] = [node |-> Top.node, left |-> Top.left \ {t}]
      /\ frames'[n + 1] = [node |-> t, left |-> hints[t]]
    BY TopFacts, DescendFrames
<1>2. frames'[n].node = frames[n].node /\ frames'[n].left = frames[n].left \ {t}
    BY <1>1 DEF Top
<1>3. frames'[n + 1].node = t /\ frames'[n + 1].left = hints[t]
    BY <1>1
<1>4. DOMAIN frames' = 1 .. n + 1
    BY <1>1
<1> HIDE DEF n
<1>5. \A k \in 1 .. n : frames'[k].node = frames[k].node
    BY <1>1, <1>2, LastOrBefore
<1> QED
    BY <1>1, <1>2, <1>3, <1>4, <1>5 DEF n

LEMMA PassFields ==
    ASSUME HeaderInv, frames # << >>, NEW t \in Top.left, PassOver(t)
    PROVE  /\ Len(frames) \in Nat \ {0} /\ Len(frames') = Len(frames)
           /\ DOMAIN frames = 1 .. Len(frames) /\ DOMAIN frames' = 1 .. Len(frames)
           /\ \A k \in 1 .. Len(frames) : frames'[k].node = frames[k].node
           /\ \A k \in 1 .. Len(frames) - 1 : frames'[k].left = frames[k].left
           /\ frames'[Len(frames)].left = frames[Len(frames)].left \ {t}
<1> DEFINE n == Len(frames)
<1>1. /\ n \in Nat \ {0} /\ DOMAIN frames = 1 .. n
      /\ Len(frames') = n /\ frames' \in Seq(Frame)
      /\ \A k \in 1 .. n - 1 : frames'[k] = frames[k]
      /\ frames'[n] = [node |-> Top.node, left |-> Top.left \ {t}]
    BY TopFacts, PassFrames
<1>2. frames'[n].node = frames[n].node /\ frames'[n].left = frames[n].left \ {t}
    BY <1>1 DEF Top
<1>3. DOMAIN frames' = 1 .. n
    BY <1>1
<1> HIDE DEF n
<1>4. \A k \in 1 .. n : frames'[k].node = frames[k].node
    BY <1>1, <1>2, LastOrBefore
<1> QED
    BY <1>1, <1>2, <1>3, <1>4 DEF n

LEMMA PopFields ==
    ASSUME HeaderInv, frames # << >>, Abandon
    PROVE  /\ Len(frames) \in Nat \ {0} /\ Len(frames') = Len(frames) - 1
           /\ DOMAIN frames = 1 .. Len(frames)
           /\ DOMAIN frames' = 1 .. Len(frames) - 1
           /\ \A k \in 1 .. Len(frames) - 1 :
                 frames'[k].node = frames[k].node /\ frames'[k].left = frames[k].left
           /\ marked' = marked \ {Top.node} /\ Top.node = frames[Len(frames)].node
<1>1. /\ frames' \in Seq(Frame) /\ Len(frames') = Len(frames) - 1
      /\ \A k \in 1 .. Len(frames) - 1 : frames'[k] = frames[k]
      /\ marked' = marked \ {Top.node}
    BY PopFrames
<1>2. Len(frames) \in Nat \ {0} /\ DOMAIN frames = 1 .. Len(frames)
    BY TopFacts
<1>3. DOMAIN frames' = 1 .. Len(frames) - 1
    BY <1>1
<1> QED
    BY <1>1, <1>2, <1>3 DEF Top

\* Where frame k's followed edges lead, by number of the frame.
FollowedTo(k, u, n) ==
    u \in visited \cup Free \/ (k < n /\ u = frames[k + 1].node)

LEMMA FollowedSoFar ==
    ASSUME HeaderInv, frames # << >>, failing = NoError
    PROVE  \A k \in 1 .. Len(frames) :
              \A u \in hints[frames[k].node] \ frames[k].left :
                 FollowedTo(k, u, Len(frames))
<1>1. DOMAIN frames = 1 .. Len(frames)
    BY TopFacts
<1>2. EdgesFollowed
    BY DEF HeaderInv
<1> QED
    BY <1>1, <1>2 DEF EdgesFollowed, FollowedTo

\* What the steps that leave the frames alone have in common.
Still ==
    /\ UNCHANGED frames
    /\ frames = << >> \/ UNCHANGED <<module, hints, root>>

LEMMA StackStaysPath == HeaderInv /\ [Next]_vars => StackIsPath'
<1> SUFFICES ASSUME HeaderInv, [Next]_vars PROVE StackIsPath'
    OBVIOUS
<1>1. CASE Still
  <2>1. CASE frames = << >>
    BY <1>1, <2>1 DEF Still, StackIsPath
  <2>2. CASE UNCHANGED <<module, hints, root>>
    BY <1>1, <2>2, GraphIsFixed DEF Still, StackIsPath, HeaderInv
  <2> QED
    BY <1>1, <2>1, <2>2 DEF Still
<1>2. CASE VisitRoot
  <2>1. UNCHANGED <<module, hints, root>>
    BY <1>2 DEF VisitRoot
  <2>2. /\ frames' \in Seq(Frame) /\ Len(frames') = 1 /\ DOMAIN frames' = 1 .. 1
        /\ frames'[1].node = root /\ frames'[1].left = hints[root]
    BY <1>2, EnterFrames
  <2> QED
    BY <2>1, <2>2, GraphIsFixed DEF StackIsPath
<1>3. ASSUME frames # << >>, NEW t \in Top.left, Descend(t),
             UNCHANGED <<module, hints, root>>
      PROVE  StackIsPath'
  <2> DEFINE n == Len(frames)
  <2>1. /\ n \in Nat \ {0}
        /\ \A k \in 1 .. n : frames'[k].node = frames[k].node
                               /\ frames'[k].left \subseteq frames[k].left
        /\ frames'[n + 1].node = t /\ frames'[n + 1].left = hints[t]
        /\ Len(frames') = n + 1 /\ frames' \in Seq(Frame)
    <3>1. /\ n \in Nat \ {0} /\ Len(frames') = n + 1
          /\ \A k \in 1 .. n : frames'[k].node = frames[k].node
          /\ \A k \in 1 .. n - 1 : frames'[k].left = frames[k].left
          /\ frames'[n].left = frames[n].left \ {t}
          /\ frames'[n + 1].node = t /\ frames'[n + 1].left = hints[t]
        BY <1>3, DescendFields
    <3>2. frames' \in Seq(Frame)
        BY <1>3, DescendFrames
    <3> HIDE DEF n
    <3>3. \A k \in 1 .. n : frames'[k].left \subseteq frames[k].left
        BY <3>1, LastOrBefore
    <3> QED
        BY <3>1, <3>2, <3>3
  <2>2. DOMAIN frames' = 1 .. n + 1 /\ DOMAIN frames = 1 .. n
    BY <2>1, TopFacts, <1>3
  <2>3. \A k \in 1 .. n : frames[k].node # t
    BY <1>3, <2>2 DEF Descend, HeaderInv, MarksAreStack, OnStack
  <2>4. t \in hints[frames[n].node]
    BY <1>3, TopFacts DEF Top
  <2> HIDE DEF n
  <2>5. \A k \in 1 .. n + 1 : frames'[k].left \subseteq hints[frames'[k].node]
    BY <2>1, <2>2 DEF HeaderInv, StackIsPath
  <2>6. \A k, l \in 1 .. n + 1 : frames'[k].node = frames'[l].node => k = l
    <3>1. \A k, l \in 1 .. n : frames[k].node = frames[l].node => k = l
        BY <2>2 DEF HeaderInv, StackIsPath
    <3>2. \A k \in 1 .. n + 1 : k \in 1 .. n \/ k = n + 1
        BY <2>1
    <3> QED
        BY <2>1, <2>3, <3>1, <3>2
  <2>7. \A k \in 1 .. n : frames'[k + 1].node \in hints[frames'[k].node]
    <3>1. \A k \in 1 .. n - 1 : frames[k + 1].node \in hints[frames[k].node]
        BY DEF n, HeaderInv, StackIsPath
    <3> QED
        BY <2>1, <2>4, <3>1
  <2>8. frames'[1].node = root
    BY <1>3, <2>1 DEF HeaderInv, StackIsPath
  <2> QED
    BY <1>3, <2>1, <2>2, <2>5, <2>6, <2>7, <2>8, GraphIsFixed DEF StackIsPath
<1>4. ASSUME frames # << >>, Len(frames') = Len(frames) \/ Len(frames') = Len(frames) - 1,
             frames' \in Seq(Frame), UNCHANGED <<module, hints, root>>,
             \A k \in 1 .. Len(frames') :
                /\ frames'[k].node = frames[k].node
                /\ frames'[k].left \subseteq frames[k].left
      PROVE  StackIsPath'
  <2>1. /\ DOMAIN frames' = 1 .. Len(frames') /\ DOMAIN frames = 1 .. Len(frames)
        /\ Len(frames) \in Nat \ {0} /\ Len(frames') \in Nat
    <3>1. DOMAIN frames' = 1 .. Len(frames') /\ Len(frames') \in Nat
        BY <1>4
    <3> QED
        BY <1>4, <3>1, TopFacts
  <2>2. /\ 1 .. Len(frames') \subseteq 1 .. Len(frames)
        /\ \A k \in 1 .. Len(frames') - 1 :
              /\ k \in 1 .. Len(frames) - 1
              /\ k \in 1 .. Len(frames') /\ k + 1 \in 1 .. Len(frames')
        /\ Len(frames') # 0 => 1 \in 1 .. Len(frames')
    BY <1>4, <2>1, ShorterStack
  <2>3. \A k \in DOMAIN frames' : frames'[k].left \subseteq hints[frames'[k].node]
    BY <1>4, <2>1, <2>2 DEF HeaderInv, StackIsPath
  <2>4. \A k, l \in DOMAIN frames' : frames'[k].node = frames'[l].node => k = l
    BY <1>4, <2>1, <2>2 DEF HeaderInv, StackIsPath
  <2>5. \A k \in 1 .. Len(frames') - 1 :
            frames'[k + 1].node \in hints[frames'[k].node]
    <3>1. \A k \in 1 .. Len(frames) - 1 :
              frames[k + 1].node \in hints[frames[k].node]
        BY DEF HeaderInv, StackIsPath
    <3> QED
        BY <1>4, <2>2, <3>1
  <2>6. frames' # << >> => frames'[1].node = root
    <3>1. ASSUME frames' # << >> PROVE 1 \in 1 .. Len(frames')
      <4>1. Len(frames') # 0
        BY <1>4, <3>1
      <4> QED
        BY <2>2, <4>1
    <3> QED
        BY <1>4, <3>1 DEF HeaderInv, StackIsPath
  <2> QED
    BY <1>4, <2>3, <2>4, <2>5, <2>6, GraphIsFixed DEF StackIsPath
<1>5. CASE FollowEdge
  <2>1. /\ frames # << >> /\ UNCHANGED <<module, hints, root>>
        /\ \E t \in Top.left : Descend(t) \/ PassOver(t) \/ Fail(t)
    BY <1>5 DEF FollowEdge
  <2>2. PICK t \in Top.left : Descend(t) \/ PassOver(t) \/ Fail(t)
    BY <2>1
  <2>3. CASE Descend(t)
    BY <1>3, <2>1, <2>3
  <2>4. CASE PassOver(t)
    <3>1. /\ frames' \in Seq(Frame) /\ Len(frames') = Len(frames)
          /\ \A k \in 1 .. Len(frames) - 1 : frames'[k] = frames[k]
          /\ frames'[Len(frames)] = [node |-> Top.node, left |-> Top.left \ {t}]
        BY <2>1, <2>4, PassFrames
    <3>2. /\ frames'[Len(frames)].node = frames[Len(frames)].node
          /\ frames'[Len(frames)].left \subseteq frames[Len(frames)].left
        BY <3>1 DEF Top
    <3>3. \A k \in 1 .. Len(frames) : k = Len(frames) \/ k \in 1 .. Len(frames) - 1
        BY <2>1, TopFacts, LastOrBefore
    <3> QED
        BY <1>4, <2>1, <3>1, <3>2, <3>3
  <2>5. CASE Fail(t)
    BY <1>1, <2>1, <2>5 DEF Fail, Still
  <2> QED
    BY <2>2, <2>3, <2>4, <2>5
<1>6. CASE FinishHeader \/ Unwind
  <2>1. frames # << >> /\ Abandon /\ UNCHANGED <<module, hints, root>>
    BY <1>6 DEF FinishHeader, Unwind
  <2> QED
    BY <1>4, <2>1, PopFrames, TopFacts
<1>7. CASE CanonicalizeHints \/ AddConstantDependencies
    BY <1>1, <1>7
    DEF CanonicalizeHints, AddConstantDependencies, Still, HeaderInv, OnlyInSort
<1>8. CASE SkipRoot \/ Report \/ EndSort
    BY <1>1, <1>8 DEF SkipRoot, Report, EndSort, Still
<1>9. CASE ExtendWithStart \/ ReturnSorted \/ UNCHANGED vars
    BY <1>1, <1>9
    DEF ExtendWithStart, ReturnSorted, vars, Still, HeaderInv, OnlyInSort
<1> QED
    BY <1>2, <1>5, <1>6, <1>7, <1>8, <1>9 DEF Next

-----------------------------------------------------------------------------
LEMMA SortStaysAlone ==
    HeaderInv /\ [Next]_vars => OnlyInSort' /\ ErrorType'
<1> SUFFICES ASSUME HeaderInv, [Next]_vars PROVE OnlyInSort' /\ ErrorType'
    OBVIOUS
<1> USE DEF HeaderInv, OnlyInSort, ErrorType
<1>1. CASE CanonicalizeHints \/ AddConstantDependencies
    BY <1>1 DEF CanonicalizeHints, AddConstantDependencies, GraphHeaders,
                Headers, KindOf
<1>2. CASE VisitRoot \/ SkipRoot \/ FinishHeader \/ Unwind \/ Report
    BY <1>2, GraphIsFixed DEF VisitRoot, SkipRoot, FinishHeader, Unwind, Report, Running
<1>3. CASE FollowEdge
  <2>1. /\ phase = "sort" /\ phase' = "sort" /\ frames # << >>
        /\ UNCHANGED <<module, hints>> /\ failing = NoError
        /\ failing' = NoError \/ failing' = [kind |-> "missing", at |-> Top.node]
             \/ \E t \in marked : failing' = [kind |-> "circular", at |-> t]
    BY <1>3 DEF FollowEdge, Running, Descend, PassOver, Fail
  <2>2. Top.node \in GraphHeaders /\ marked \subseteq GraphHeaders
    BY <2>1, TopFacts DEF MarksAreStack, OnStack
  <2> QED
    BY <2>1, <2>2, GraphIsFixed
<1>4. CASE EndSort \/ ExtendWithStart \/ ReturnSorted
    BY <1>4, GraphIsFixed DEF EndSort, ExtendWithStart, ReturnSorted, Running
<1>5. CASE UNCHANGED vars
    BY <1>5, GraphIsFixed DEF vars
<1> QED
    BY <1>1, <1>2, <1>3, <1>4, <1>5 DEF Next

LEMMA MarksStayStack == HeaderInv /\ [Next]_vars => MarksAreStack'
<1> SUFFICES ASSUME HeaderInv, [Next]_vars PROVE MarksAreStack'
    OBVIOUS
<1>1. CASE UNCHANGED <<frames, marked, visited>>
    BY <1>1 DEF HeaderInv, MarksAreStack, OnStack
<1>2. CASE VisitRoot
  <2>1. /\ DOMAIN frames' = 1 .. 1 /\ frames'[1].node = root /\ root \notin visited
    BY <1>2, EnterFrames
  <2>2. marked' = marked \cup {root} /\ frames = << >> /\ visited' = visited
    BY <1>2 DEF VisitRoot, Enter
  <2>3. OnStack' = {root} /\ OnStack = {}
    BY <2>1, <2>2 DEF OnStack
  <2> QED
    BY <2>1, <2>2, <2>3 DEF HeaderInv, MarksAreStack
<1>3. ASSUME frames # << >>, NEW t \in Top.left, Descend(t) PROVE MarksAreStack'
  <2>1. /\ DOMAIN frames' = 1 .. Len(frames) + 1 /\ DOMAIN frames = 1 .. Len(frames)
        /\ Len(frames) \in Nat \ {0}
        /\ frames'[Len(frames) + 1].node = t
        /\ \A k \in 1 .. Len(frames) : frames'[k].node = frames[k].node
    BY <1>3, DescendFields
  <2>2. OnStack' = OnStack \cup {t}
    BY <2>1 DEF OnStack
  <2> QED
    BY <1>3, <2>2 DEF Descend, HeaderInv, MarksAreStack
<1>4. ASSUME frames # << >>, NEW t \in Top.left, PassOver(t) PROVE MarksAreStack'
  <2>1. OnStack' = OnStack
    BY <1>4, PassFields DEF OnStack
  <2> QED
    BY <1>4, <2>1 DEF PassOver, HeaderInv, MarksAreStack
<1>5. ASSUME frames # << >>, Abandon, visited' \subseteq visited \cup {Top.node}
      PROVE  MarksAreStack'
  <2> DEFINE n == Len(frames)
  <2>1. /\ n \in Nat \ {0} /\ DOMAIN frames = 1 .. n /\ DOMAIN frames' = 1 .. n - 1
        /\ \A k \in 1 .. n - 1 : frames'[k].node = frames[k].node
        /\ marked' = marked \ {Top.node} /\ Top.node = frames[n].node
    BY <1>5, PopFields
  <2>2. \A k, l \in DOMAIN frames : frames[k].node = frames[l].node => k = l
    BY DEF HeaderInv, StackIsPath
  <2> HIDE DEF n
  <2>3. OnStack' = OnStack \ {Top.node}
    BY <2>1, <2>2, LastOrBefore DEF OnStack
  <2> QED
    BY <1>5, <2>1, <2>3 DEF HeaderInv, MarksAreStack
<1>6. CASE FollowEdge
    BY <1>1, <1>3, <1>4, <1>6 DEF FollowEdge, Fail
<1>7. CASE FinishHeader \/ Unwind
    BY <1>5, <1>7 DEF FinishHeader, Unwind
<1> QED
    BY <1>1, <1>2, <1>6, <1>7
    DEF Next, vars, CanonicalizeHints, AddConstantDependencies, SkipRoot,
        Report, EndSort, ExtendWithStart, ReturnSorted

LEMMA EdgesStayFollowed == HeaderInv /\ [Next]_vars => EdgesFollowed'
<1> SUFFICES ASSUME HeaderInv, [Next]_vars, failing' = NoError
             PROVE  EdgesFollowed'
    BY DEF EdgesFollowed
<1>1. CASE frames = << >> /\ UNCHANGED frames
    BY <1>1 DEF EdgesFollowed
<1>2. CASE UNCHANGED <<frames, hints, visited, failing>>
    BY <1>2 DEF HeaderInv, EdgesFollowed, Free
<1>3. CASE VisitRoot
  <2>1. /\ DOMAIN frames' = 1 .. 1 /\ frames'[1].node = root
        /\ frames'[1].left = hints[root] /\ hints' = hints
    BY <1>3, EnterFrames DEF VisitRoot
  <2> QED
    BY <2>1 DEF EdgesFollowed
<1>4. ASSUME frames # << >>, NEW t \in Top.left, Descend(t), failing = NoError,
             UNCHANGED <<hints, visited>>
      PROVE  EdgesFollowed'
  <2> DEFINE n == Len(frames)
  <2>1. /\ n \in Nat \ {0} /\ DOMAIN frames' = 1 .. n + 1 /\ Len(frames') = n + 1
        /\ \A k \in 1 .. n : frames'[k].node = frames[k].node
        /\ \A k \in 1 .. n - 1 : frames'[k].left = frames[k].left
        /\ frames'[n].left = frames[n].left \ {t}
        /\ frames'[n + 1].node = t /\ frames'[n + 1].left = hints[t]
    BY <1>4, DescendFields
  <2>2. \A k \in 1 .. n : \A u \in hints[frames[k].node] \ frames[k].left :
            FollowedTo(k, u, n)
    BY <1>4, FollowedSoFar
  <2> HIDE DEF n
  <2>3. ASSUME NEW k \in 1 .. n + 1, NEW u \in hints[frames'[k].node] \ frames'[k].left
        PROVE  u \in visited \cup Free \/ (k < n + 1 /\ u = frames'[k + 1].node)
    <3>1. CASE k \in 1 .. n - 1
      <4>1. k \in 1 .. n /\ k + 1 \in 1 .. n /\ k < n + 1
        BY <2>1, <3>1
      <4> QED
        BY <2>1, <2>2, <2>3, <3>1, <4>1 DEF FollowedTo
    <3>2. CASE k = n
      <4>1. n \in 1 .. n /\ n < n + 1 /\ ~(n < n)
        BY <2>1
      <4>2. u = t \/ u \in hints[frames[n].node] \ frames[n].left
        BY <2>1, <2>3, <3>2, <4>1
      <4> QED
        BY <2>1, <2>2, <3>2, <4>1, <4>2 DEF FollowedTo
    <3>3. CASE k = n + 1
        BY <2>1, <2>3, <3>3
    <3> QED
        BY <2>1, <3>1, <3>2, <3>3, LastOrBefore
  <2> QED
    BY <1>4, <2>1, <2>3 DEF EdgesFollowed, Free
<1>5. ASSUME frames # << >>, NEW t \in Top.left, PassOver(t), failing = NoError,
             UNCHANGED <<hints, visited>>
      PROVE  EdgesFollowed'
  <2> DEFINE n == Len(frames)
  <2>1. /\ n \in Nat \ {0} /\ DOMAIN frames' = 1 .. n /\ Len(frames') = n
        /\ \A k \in 1 .. n : frames'[k].node = frames[k].node
        /\ \A k \in 1 .. n - 1 : frames'[k].left = frames[k].left
        /\ frames'[n].left = frames[n].left \ {t}
    BY <1>5, PassFields
  <2>2. \A k \in 1 .. n : \A u \in hints[frames[k].node] \ frames[k].left :
            FollowedTo(k, u, n)
    BY <1>5, FollowedSoFar
  <2>3. t \in visited \cup Free
    BY <1>5 DEF PassOver, Free
  <2> HIDE DEF n
  <2>4. ASSUME NEW k \in 1 .. n, NEW u \in hints[frames'[k].node] \ frames'[k].left
        PROVE  u \in visited \cup Free \/ (k < n /\ u = frames'[k + 1].node)
    <3>1. CASE k \in 1 .. n - 1
      <4>1. k \in 1 .. n /\ k + 1 \in 1 .. n
        BY <2>1, <3>1
      <4> QED
        BY <2>1, <2>2, <2>4, <3>1, <4>1 DEF FollowedTo
    <3>2. CASE k = n
      <4>1. u = t \/ u \in hints[frames[n].node] \ frames[n].left
        BY <2>1, <2>4, <3>2
      <4>2. ~(n < n)
        BY <2>1
      <4> QED
        BY <2>1, <2>2, <2>3, <2>4, <3>2, <4>1, <4>2 DEF FollowedTo
    <3> QED
        BY <2>1, <3>1, <3>2, LastOrBefore
  <2> QED
    BY <1>5, <2>1, <2>4 DEF EdgesFollowed, Free
<1>6. CASE FollowEdge
    BY <1>4, <1>5, <1>6 DEF FollowEdge, Running, Descend, PassOver, Fail, NoError
<1>7. CASE FinishHeader
  <2> DEFINE n == Len(frames)
  <2>1. /\ frames # << >> /\ Abandon /\ failing = NoError /\ hints' = hints
        /\ visited' = visited \cup {Top.node}
    BY <1>7 DEF FinishHeader, Running
  <2>2. /\ n \in Nat \ {0} /\ DOMAIN frames' = 1 .. n - 1 /\ Len(frames') = n - 1
        /\ Top.node = frames[n].node
        /\ \A k \in 1 .. n - 1 :
              frames'[k].node = frames[k].node /\ frames'[k].left = frames[k].left
    BY <2>1, PopFields
  <2>3. \A k \in 1 .. n : \A u \in hints[frames[k].node] \ frames[k].left :
            FollowedTo(k, u, n)
    BY <2>1, FollowedSoFar
  <2> HIDE DEF n
  <2>4. ASSUME NEW k \in 1 .. n - 1, NEW u \in hints[frames'[k].node] \ frames'[k].left
        PROVE  u \in visited' \cup Free \/ (k < n - 1 /\ u = frames'[k + 1].node)
    <3>1. k \in 1 .. n
        BY <2>2
    <3>2. u \in visited \cup Free \/ u = frames[k + 1].node
        BY <2>2, <2>3, <2>4, <3>1 DEF FollowedTo
    <3>3. CASE k = n - 1
      <4>1. k + 1 = n
        BY <2>2, <3>3
      <4> QED
        BY <2>1, <2>2, <3>2, <4>1
    <3>4. CASE k # n - 1
      <4>1. k + 1 \in 1 .. n - 1 /\ k < n - 1
        BY <2>2, <3>4
      <4> QED
        BY <2>1, <2>2, <3>2, <4>1
    <3> QED
        BY <3>3, <3>4
  <2> QED
    BY <2>1, <2>2, <2>4 DEF EdgesFollowed, Free
<1>8. CASE CanonicalizeHints \/ AddConstantDependencies
    BY <1>1, <1>8
    DEF CanonicalizeHints, AddConstantDependencies, HeaderInv, OnlyInSort
<1>9. CASE SkipRoot \/ Report \/ EndSort
    BY <1>1, <1>9 DEF SkipRoot, Report, EndSort
<1>10. CASE ExtendWithStart \/ ReturnSorted \/ UNCHANGED vars
    BY <1>2, <1>10 DEF ExtendWithStart, ReturnSorted, vars
<1>11. CASE Unwind
    BY <1>11 DEF Unwind
<1> QED
    BY <1>3, <1>6, <1>7, <1>8, <1>9, <1>10, <1>11 DEF Next

-----------------------------------------------------------------------------
LEMMA FinishFacts ==
    ASSUME HeaderInv, FinishHeader
    PROVE  /\ Top.node \in GraphHeaders \ visited
           /\ hints[Top.node] \subseteq visited \cup Free
           /\ phase = "sort" /\ phase' = "sort"
           /\ UNCHANGED <<module, hints, root, failing, bag>>
           /\ failing = NoError /\ frames # << >>
           /\ order' = Append(order, Top.node)
           /\ visited' = visited \cup {Top.node}
<1>1. /\ frames # << >> /\ failing = NoError /\ Top.left = {} /\ phase = "sort"
      /\ UNCHANGED <<module, hints, phase, root, failing, bag>>
      /\ order' = Append(order, Top.node)
      /\ visited' = visited \cup {Top.node}
    BY DEF FinishHeader, Running
<1>2. /\ Top.node \in GraphHeaders /\ Len(frames) \in Nat \ {0}
      /\ DOMAIN frames = 1 .. Len(frames)
    BY <1>1, TopFacts
<1>3. Len(frames) \in 1 .. Len(frames) /\ ~(Len(frames) < Len(frames))
    BY <1>2
<1>4. Top.node \in OnStack
    BY <1>2, <1>3 DEF OnStack, Top
<1>5. Top.node \notin visited
    BY <1>4 DEF HeaderInv, MarksAreStack
<1>6. \A u \in hints[Top.node] : FollowedTo(Len(frames), u, Len(frames))
    BY <1>1, <1>3, FollowedSoFar DEF Top
<1> QED
    BY <1>1, <1>2, <1>3, <1>5, <1>6 DEF FollowedTo

LEMMA OrderStaysSound == HeaderInv /\ [Next]_vars => OrderIsSound'
<1> SUFFICES ASSUME HeaderInv, [Next]_vars PROVE OrderIsSound'
    OBVIOUS
<1>1. CASE order = << >> /\ order' = << >>
    BY <1>1 DEF OrderIsSound, NoneTwice
<1>2. CASE UNCHANGED <<module, hints, order>>
    BY <1>2, GraphIsFixed DEF HeaderInv, OrderIsSound, NoneTwice, Free
<1>3. ASSUME NEW h \in Headers, UNCHANGED <<module, hints>>,
             order' = Append(order, h), h \notin Finished,
             \A t \in hints[h] : t \in Free \/ t \in Finished
      PROVE  OrderIsSound'
  <2>1. order \in Seq(Headers) /\ Len(order) \in Nat /\ DOMAIN order = 1 .. Len(order)
    BY DEF HeaderInv, OrderIsSound
  <2>2. /\ order' \in Seq(Headers) /\ Len(order') = Len(order) + 1
        /\ \A p \in 1 .. Len(order) : order'[p] = order[p]
        /\ order'[Len(order) + 1] = h
    BY <1>3, <2>1, AppendFacts
  <2>3. DOMAIN order' = 1 .. Len(order) + 1
    BY <2>2
  <2>4. \A p \in 1 .. Len(order) : order[p] # h
    BY <1>3, <2>1 DEF Finished
  <2>5. \A p \in 1 .. Len(order) + 1 : p \in 1 .. Len(order) \/ p = Len(order) + 1
    BY <2>1
  <2>6. ASSUME NEW p \in DOMAIN order', NEW q \in DOMAIN order', order'[p] = order'[q]
        PROVE  p = q
    <3>1. \A k, l \in 1 .. Len(order) : order[k] = order[l] => k = l
        BY <2>1 DEF HeaderInv, OrderIsSound, NoneTwice
    <3> QED
        BY <2>2, <2>3, <2>4, <2>5, <2>6, <3>1
  <2>7. ASSUME NEW p \in DOMAIN order', NEW t \in hints[order'[p]], t \notin Free
        PROVE  \E q \in 1 .. p - 1 : order'[q] = t
    <3>1. CASE p \in 1 .. Len(order)
      <4>1. PICK q \in 1 .. p - 1 : order[q] = t
        BY <2>1, <2>2, <2>7, <3>1 DEF HeaderInv, OrderIsSound
      <4>2. q \in 1 .. Len(order)
        BY <2>1, <3>1
      <4> QED
        BY <2>2, <4>1, <4>2
    <3>2. CASE p = Len(order) + 1
      <4>1. PICK q \in 1 .. Len(order) : order[q] = t
        BY <1>3, <2>1, <2>2, <2>7, <3>2 DEF Finished
      <4>2. q \in 1 .. p - 1
        BY <2>1, <3>2
      <4> QED
        BY <2>2, <4>1, <4>2
    <3> QED
        BY <2>3, <2>5, <3>1, <3>2
  <2>8. order' \in Seq(Headers)'
    BY <1>3, <2>2, GraphIsFixed
  <2>9. NoneTwice'
    BY <2>6 DEF NoneTwice
  <2>10. \A p \in DOMAIN order' : \A t \in hints'[order'[p]] :
            t \in Free \/ \E q \in 1 .. p - 1 : order'[q] = t
    BY <1>3, <2>7
  <2> QED
    BY <2>8, <2>9, <2>10 DEF OrderIsSound, Free
<1>4. CASE FinishHeader
  <2>1. Finished = visited
    BY <1>4, FinishFacts DEF HeaderInv, OrderIsFull
  <2>2. Top.node \in Headers
    BY <1>4, FinishFacts, HeadersFacts DEF HeaderInv
  <2> QED
    BY <1>3, <1>4, <2>1, <2>2, FinishFacts
<1>5. CASE ExtendWithStart
  <2>1. /\ phase = "extend" /\ root \in Headers /\ UNCHANGED <<module, hints>>
        /\ order' = IF KindOf(root) = "start" THEN Append(order, root) ELSE order
    BY <1>5 DEF ExtendWithStart
  <2>2. CASE KindOf(root) = "start"
    <3>1. hints[root] = {}
        BY <2>1, <2>2 DEF HeaderInv, HintsAreNeeds, Ordering
    <3>2. root \notin GraphHeaders
        BY <2>2 DEF GraphHeaders
    <3>3. Finished = GraphHeaders \cup {i \in Headers \ GraphHeaders : i < root}
        BY <2>1 DEF HeaderInv, OrderIsFull
    <3>4. root \in Nat /\ ~(root < root)
        BY <2>1, HeadersFacts DEF HeaderInv
    <3>5. root \notin Finished
        BY <3>2, <3>3, <3>4
    <3> QED
        BY <1>3, <2>1, <2>2, <3>1, <3>5
  <2>3. CASE KindOf(root) # "start"
    BY <1>2, <2>1, <2>3
  <2> QED
    BY <2>2, <2>3
<1>6. CASE CanonicalizeHints \/ AddConstantDependencies
    BY <1>1, <1>6
    DEF CanonicalizeHints, AddConstantDependencies, HeaderInv, OnlyInSort
<1>7. CASE VisitRoot \/ SkipRoot \/ FollowEdge \/ Unwind \/ Report
    BY <1>2, <1>7 DEF VisitRoot, SkipRoot, FollowEdge, Unwind, Report
<1>8. CASE EndSort \/ ReturnSorted \/ UNCHANGED vars
    BY <1>2, <1>8 DEF EndSort, ReturnSorted, vars
<1> QED
    BY <1>4, <1>5, <1>6, <1>7, <1>8 DEF Next

\* A stuck set that avoids the finished headers avoids the one that is next:
\* it misses nothing, and what it needs is outside the set.
LEMMA NoneBecomesStuck == HeaderInv /\ [Next]_vars => NoneStuck'
<1> SUFFICES ASSUME HeaderInv, [Next]_vars PROVE NoneStuck'
    OBVIOUS
<1>1. CASE visited = {} /\ visited' = {}
    BY <1>1 DEF NoneStuck
<1>2. CASE UNCHANGED <<module, hints, visited>>
    BY <1>2, GraphIsFixed DEF HeaderInv, NoneStuck
<1>3. CASE FinishHeader
  <2>1. /\ Top.node \in GraphHeaders /\ hints[Top.node] \subseteq visited \cup Free
        /\ visited' = visited \cup {Top.node} /\ UNCHANGED <<module, hints>>
    BY <1>3, FinishFacts
  <2>2. /\ visited \subseteq GraphHeaders
        /\ \A h \in visited : ~Stuck(h)
    BY DEF HeaderInv, NoneStuck
  <2>3. Missing \notin hints[Top.node] /\ Free \cap GraphHeaders = {}
    BY <2>1, <2>2, HeadersFacts, TargetsAssumption DEF HeaderInv, Free, NoHeader
  <2>4. ~Stuck(Top.node)
    <3>1. SUFFICES ASSUME NEW S \in SUBSET GraphHeaders, Top.node \in S,
                          \A x \in S : Missing \in hints[x] \/ hints[x] \cap S # {}
                   PROVE  FALSE
        BY DEF Stuck
    <3>2. PICK y \in hints[Top.node] : y \in S
        BY <2>3, <3>1
    <3>3. y \in visited
        BY <2>1, <2>3, <3>1, <3>2
    <3>4. Stuck(y)
        BY <3>1, <3>2 DEF Stuck
    <3> QED
        BY <2>2, <3>3, <3>4
  <2> QED
    BY <2>1, <2>2, <2>4, GraphIsFixed DEF NoneStuck
<1>4. CASE CanonicalizeHints \/ AddConstantDependencies
    BY <1>1, <1>4
    DEF CanonicalizeHints, AddConstantDependencies, HeaderInv, OnlyInSort
<1>5. CASE VisitRoot \/ SkipRoot \/ FollowEdge \/ Unwind \/ Report
    BY <1>2, <1>5 DEF VisitRoot, SkipRoot, FollowEdge, Descend, PassOver, Fail,
                      Unwind, Report
<1>6. CASE EndSort \/ ExtendWithStart \/ ReturnSorted \/ UNCHANGED vars
    BY <1>2, <1>6 DEF EndSort, ExtendWithStart, ReturnSorted, vars
<1> QED
    BY <1>3, <1>4, <1>5, <1>6 DEF Next

\* When an error arises everything on the stack is stuck, the root first: each
\* frame needs the next one, and the last one needs what is missing or a header
\* of the stack.
LEMMA FailingStaysStuck == HeaderInv /\ [Next]_vars => FailingIsStuck'
<1> SUFFICES ASSUME HeaderInv, [Next]_vars, failing' # NoError
             PROVE  root' \in GraphHeaders' /\ Stuck(root)'
    BY DEF FailingIsStuck
<1>1. CASE UNCHANGED <<module, hints, root, failing>>
    BY <1>1, GraphIsFixed DEF HeaderInv, FailingIsStuck, Stuck
<1>2. ASSUME frames # << >>, NEW t \in Top.left, Fail(t),
             UNCHANGED <<module, hints, root>>
      PROVE  root' \in GraphHeaders' /\ Stuck(root)'
  <2> DEFINE n == Len(frames)
  <2>1. /\ n \in Nat \ {0} /\ DOMAIN frames = 1 .. n
        /\ \A k \in 1 .. n : frames[k].node \in GraphHeaders
        /\ t \in hints[frames[n].node]
    BY <1>2, TopFacts DEF Top
  <2>2. /\ \A k \in 1 .. n - 1 : frames[k + 1].node \in hints[frames[k].node]
        /\ frames[1].node = root
        /\ marked = OnStack
    BY <1>2 DEF HeaderInv, StackIsPath, MarksAreStack
  <2> HIDE DEF n
  <2>3. OnStack \subseteq GraphHeaders /\ root \in OnStack
    BY <2>1, <2>2, LastOrBefore DEF OnStack
  <2>4. t = Missing \/ t \in OnStack
    BY <1>2, <2>2 DEF Fail
  <2>5. ASSUME NEW x \in OnStack
        PROVE  Missing \in hints[x] \/ hints[x] \cap OnStack # {}
    <3>1. PICK k \in 1 .. n : frames[k].node = x
        BY <2>1 DEF OnStack
    <3>2. CASE k = n
        BY <2>1, <2>4, <3>1, <3>2
    <3>3. CASE k \in 1 .. n - 1
      <4>1. k + 1 \in 1 .. n
        BY <2>1, <3>3
      <4>2. frames[k + 1].node \in OnStack
        BY <2>1, <4>1 DEF OnStack
      <4> QED
        BY <2>2, <3>1, <3>3, <4>2
    <3> QED
        BY <2>1, <3>2, <3>3, LastOrBefore
  <2>6. Stuck(root)
    BY <2>3, <2>5 DEF Stuck
  <2>7. Stuck(root)'
    BY <1>2, <2>6 DEF Stuck, GraphHeaders, Headers, KindOf
  <2> QED
    BY <1>2, <2>3, <2>7, GraphIsFixed
<1>3. CASE FollowEdge
    BY <1>1, <1>2, <1>3 DEF FollowEdge, Descend, PassOver, Running
<1>4. CASE VisitRoot \/ FinishHeader \/ Unwind \/ UNCHANGED vars
    BY <1>1, <1>4 DEF VisitRoot, FinishHeader, Unwind, vars
<1>5. CASE CanonicalizeHints \/ AddConstantDependencies \/ ExtendWithStart
              \/ ReturnSorted
    BY <1>5
    DEF CanonicalizeHints, AddConstantDependencies, ExtendWithStart,
        ReturnSorted, HeaderInv, OnlyInSort
<1>6. CASE SkipRoot \/ Report \/ EndSort
    BY <1>6 DEF SkipRoot, Report, EndSort, Running
<1> QED
    BY <1>3, <1>4, <1>5, <1>6 DEF Next

-----------------------------------------------------------------------------
LEMMA OrderStaysFull == HeaderInv /\ [Next]_vars => OrderIsFull'
<1> SUFFICES ASSUME HeaderInv, [Next]_vars PROVE OrderIsFull'
    OBVIOUS
<1>1. CASE UNCHANGED <<module, order, visited, root, phase>>
    BY <1>1 DEF HeaderInv, OrderIsFull, Finished, Headers, GraphHeaders, KindOf
<1>2. CASE UNCHANGED <<order, visited>> /\ phase = "sort"
               /\ phase' \in {"sort", "rejected"}
    BY <1>2 DEF HeaderInv, OrderIsFull, Finished
<1>3. CASE FinishHeader
  <2>1. /\ order' = Append(order, Top.node) /\ visited' = visited \cup {Top.node}
        /\ Top.node \in Headers /\ phase' = "sort" /\ Finished = visited
        /\ order \in Seq(Headers)
    BY <1>3, FinishFacts, HeadersFacts DEF HeaderInv, OrderIsFull, OrderIsSound
  <2>2. Finished' = Finished \cup {Top.node}
    BY <2>1 DEF Finished
  <2> QED
    BY <2>1, <2>2 DEF OrderIsFull
<1>4. CASE EndSort
  <2>1. /\ phase = "sort" /\ root \notin Headers /\ root' = 1
        /\ UNCHANGED <<module, order, visited, bag>>
        /\ phase' = IF bag = << >> THEN "extend" ELSE "rejected"
    BY <1>4 DEF EndSort, Running
  <2>2. CASE bag = << >>
    <3>1. \A h \in GraphHeaders : h < root
      <4>1. /\ Headers = 1 .. Len(module.headers) /\ Len(module.headers) \in Nat
            /\ GraphHeaders \subseteq Headers /\ root \in Nat \ {0}
        BY HeadersFacts DEF HeaderInv, RootsAreDone
      <4> QED
        BY <2>1, <4>1
    <3>2. Reported = {}
        BY <2>2 DEF Reported
    <3>3. visited = GraphHeaders
        BY <2>1, <3>1, <3>2 DEF HeaderInv, RootsAreDone, NoneStuck
    <3>4. Finished' = GraphHeaders
        BY <2>1, <3>3 DEF HeaderInv, OrderIsFull, Finished
    <3>5. {i \in Headers \ GraphHeaders : i < 1} = {}
        BY HeadersFacts DEF HeaderInv
    <3> QED
        BY <2>1, <2>2, <3>4, <3>5 DEF OrderIsFull, Headers, GraphHeaders, KindOf
  <2>3. CASE bag # << >>
    BY <2>1, <2>3 DEF OrderIsFull
  <2> QED
    BY <2>2, <2>3
<1>5. CASE ExtendWithStart
  <2>1. /\ phase = "extend" /\ phase' = "extend" /\ root \in Headers
        /\ root' = root + 1 /\ UNCHANGED <<module, hints>>
        /\ order' = IF KindOf(root) = "start" THEN Append(order, root) ELSE order
    BY <1>5 DEF ExtendWithStart
  <2>2. /\ Finished = GraphHeaders \cup {i \in Headers \ GraphHeaders : i < root}
        /\ order \in Seq(Headers)
    BY <2>1 DEF HeaderInv, OrderIsFull, OrderIsSound
  <2>3. \A i \in Headers : i < root + 1 <=> i < root \/ i = root
    BY <2>1, HeadersFacts DEF HeaderInv
  <2>4. KindOf(root) = "start" <=> root \notin GraphHeaders
    BY <2>1 DEF GraphHeaders
  <2>5. Finished' = IF KindOf(root) = "start" THEN Finished \cup {root} ELSE Finished
    BY <2>1, <2>2 DEF Finished
  <2>6. Finished' = GraphHeaders \cup {i \in Headers \ GraphHeaders : i < root + 1}
    BY <2>1, <2>2, <2>3, <2>4, <2>5
  <2> QED
    BY <2>1, <2>6, GraphIsFixed DEF OrderIsFull
<1>6. CASE ReturnSorted
  <2>1. /\ phase = "extend" /\ phase' = "sorted" /\ root \notin Headers
        /\ UNCHANGED <<module, hints, order>>
    BY <1>6 DEF ReturnSorted
  <2>2. \A i \in Headers : i < root
    <3>1. /\ Headers = 1 .. Len(module.headers) /\ Len(module.headers) \in Nat
          /\ root \in Nat \ {0}
        BY HeadersFacts DEF HeaderInv, RootsAreDone
    <3> QED
        BY <2>1, <3>1
  <2>3. Finished' = Headers
    BY <2>1, <2>2, HeadersFacts DEF HeaderInv, OrderIsFull, Finished
  <2> QED
    BY <2>1, <2>3, GraphIsFixed DEF OrderIsFull
<1>7. CASE CanonicalizeHints \/ AddConstantDependencies
    BY <1>7 DEF CanonicalizeHints, AddConstantDependencies, HeaderInv,
                OrderIsFull, OnlyInSort, Finished
<1>8. CASE VisitRoot \/ SkipRoot \/ FollowEdge \/ Unwind \/ Report
    BY <1>2, <1>8 DEF VisitRoot, SkipRoot, FollowEdge, Descend, PassOver, Fail,
                      Unwind, Report, Running
<1>9. CASE UNCHANGED vars
    BY <1>1, <1>9 DEF vars
<1> QED
    BY <1>3, <1>4, <1>5, <1>6, <1>7, <1>8, <1>9 DEF Next

LEMMA BagFacts ==
    ASSUME HeaderInv
    PROVE  \A k \in DOMAIN bag : bag[k].root \in GraphHeaders
<1> DEFINE Entry == [root : GraphHeaders,
                     error : [kind : {"missing", "circular"}, at : GraphHeaders]]
<1>1. bag \in Seq(Entry)
    BY DEF HeaderInv, RootsAreDone
<1>2. \A e \in Entry : e.root \in GraphHeaders
    OBVIOUS
<1> HIDE DEF Entry
<1>3. \A k \in DOMAIN bag : bag[k] \in Entry
    BY <1>1
<1> QED
    BY <1>2, <1>3

LEMMA RootsStayDone == HeaderInv /\ [Next]_vars => RootsAreDone'
<1> SUFFICES ASSUME HeaderInv, [Next]_vars PROVE RootsAreDone'
    OBVIOUS
<1> DEFINE Entry == [root : GraphHeaders,
                     error : [kind : {"missing", "circular"}, at : GraphHeaders]]
<1>1. CASE UNCHANGED <<module, hints, bag, root>> /\ visited \subseteq visited'
               /\ (phase' = "sort" => phase = "sort")
  <2>1. UNCHANGED GraphHeaders /\ \A h : Stuck(h)' = Stuck(h)
    BY <1>1, GraphIsFixed
  <2>2. Reported' = Reported
    BY <1>1 DEF Reported
  <2> QED
    BY <1>1, <2>1, <2>2 DEF HeaderInv, RootsAreDone
<1>2. CASE CanonicalizeHints \/ AddConstantDependencies
  <2>1. bag' = << >> /\ root' = 1 /\ module' = module
    BY <1>2 DEF CanonicalizeHints, AddConstantDependencies, HeaderInv, OnlyInSort
  <2>2. \A h \in GraphHeaders' : ~(h < 1)
    BY <2>1, HeadersFacts DEF HeaderInv, GraphHeaders, Headers, KindOf
  <2> QED
    BY <2>1, <2>2 DEF RootsAreDone
<1>3. CASE SkipRoot
  <2>1. /\ phase = "sort" /\ root' = root + 1 /\ root \notin GraphHeaders \ visited
        /\ UNCHANGED <<module, hints, bag, visited>>
    BY <1>3 DEF SkipRoot, Running
  <2>2. /\ GraphHeaders' = GraphHeaders /\ \A h : Stuck(h)' = Stuck(h)
        /\ Reported' = Reported
    BY <2>1, GraphIsFixed DEF Reported
  <2>3. root \in Nat \ {0} /\ \A h \in GraphHeaders : h \in Nat
    BY HeadersFacts DEF HeaderInv, RootsAreDone
  <2>4. \A h \in GraphHeaders : h < root + 1 => h \in visited \cup Reported
    BY <2>1, <2>3 DEF HeaderInv, RootsAreDone
  <2>5. \A k \in DOMAIN bag : bag[k].root < root + 1
    <3>1. \A k \in DOMAIN bag : bag[k].root \in GraphHeaders /\ bag[k].root < root
        BY <2>1, BagFacts DEF HeaderInv, RootsAreDone
    <3> QED
        BY <2>3, <3>1
  <2>6. root + 1 \in Nat \ {0}
    BY <2>3
  <2> QED
    BY <2>1, <2>2, <2>4, <2>5, <2>6 DEF HeaderInv, RootsAreDone
<1>4. CASE Report
  <2> DEFINE new == [root |-> root, error |-> failing]
  <2>1. /\ phase = "sort" /\ failing # NoError /\ root' = root + 1
        /\ bag' = Append(bag, new)
        /\ UNCHANGED <<module, hints, visited>>
    BY <1>4 DEF Report
  <2>2. GraphHeaders' = GraphHeaders /\ \A h : Stuck(h)' = Stuck(h)
    BY <2>1, GraphIsFixed
  <2>3. /\ root \in Nat \ {0} /\ \A h \in GraphHeaders : h \in Nat
        /\ root \in GraphHeaders /\ Stuck(root)
        /\ new \in Entry /\ new.root = root
        /\ bag \in Seq(Entry) /\ Len(bag) \in Nat /\ DOMAIN bag = 1 .. Len(bag)
    BY <2>1, HeadersFacts DEF HeaderInv, RootsAreDone, FailingIsStuck, ErrorType
  <2> HIDE DEF new, Entry
  <2>4. /\ bag' \in Seq(Entry) /\ Len(bag') = Len(bag) + 1
        /\ \A k \in 1 .. Len(bag) : bag'[k] = bag[k]
        /\ bag'[Len(bag) + 1] = new
    BY <2>1, <2>3, AppendFacts
  <2>5. /\ DOMAIN bag' = 1 .. Len(bag) + 1
        /\ \A k \in 1 .. Len(bag) + 1 : k \in 1 .. Len(bag) \/ k = Len(bag) + 1
    BY <2>3, <2>4
  <2>6. /\ \A k \in 1 .. Len(bag) : Stuck(bag[k].root)
        /\ \A k, l \in 1 .. Len(bag) : bag[k].root = bag[l].root => k = l
        /\ \A h \in GraphHeaders : h < root => h \in visited \cup Reported
    BY <2>1, <2>3 DEF HeaderInv, RootsAreDone
  <2>7. \A k \in 1 .. Len(bag) : bag[k].root < root
    BY <2>1, <2>3 DEF HeaderInv, RootsAreDone
  <2>8. \A k \in 1 .. Len(bag) : bag[k].root \in GraphHeaders
    <3>1. \A k \in 1 .. Len(bag) : bag[k] \in Entry
        BY <2>3
    <3> QED
        BY <3>1 DEF Entry
  <2>9. \A k \in 1 .. Len(bag) : bag[k].root # root
    BY <2>3, <2>7
  <2>10. \A k \in DOMAIN bag' : Stuck(bag'[k].root) /\ bag'[k].root < root + 1
    <3>1. \A k \in 1 .. Len(bag) : bag[k].root < root + 1
      <4>1. root \in Nat /\ \A h \in GraphHeaders : h \in Nat
        BY <2>3
      <4> QED
        BY <2>7, <2>8, <4>1
    <3>2. root < root + 1
        BY <2>3
    <3> QED
        BY <2>3, <2>4, <2>5, <2>6, <3>1, <3>2
  <2>11. \A k, l \in DOMAIN bag' : bag'[k].root = bag'[l].root => k = l
    BY <2>3, <2>4, <2>5, <2>6, <2>9
  <2>12. Reported' = Reported \cup {root}
    BY <2>3, <2>4, <2>5 DEF Reported
  <2>13. \A h \in GraphHeaders : h < root + 1 => h \in visited \cup Reported'
    <3>1. \A h \in GraphHeaders : h < root + 1 => h < root \/ h = root
        BY <2>3
    <3> QED
        BY <2>6, <2>12, <3>1
  <2>14. root + 1 \in Nat \ {0}
    BY <2>3
  <2>15. bag' \in Seq([root : GraphHeaders,
                       error : [kind : {"missing", "circular"}, at : GraphHeaders]])
    BY <2>4 DEF Entry
  <2> QED
    BY <2>1, <2>2, <2>10, <2>11, <2>13, <2>14, <2>15 DEF RootsAreDone
<1>5. CASE EndSort
  <2>1. /\ phase' \in {"extend", "rejected"} /\ root' = 1
        /\ UNCHANGED <<module, hints, bag>>
    BY <1>5 DEF EndSort
  <2> QED
    BY <2>1, GraphIsFixed DEF HeaderInv, RootsAreDone
<1>6. CASE ExtendWithStart
  <2>1. /\ phase' = "extend" /\ root' = root + 1 /\ UNCHANGED <<module, hints, bag>>
    BY <1>6 DEF ExtendWithStart
  <2>2. root' \in Nat \ {0}
    BY <2>1 DEF HeaderInv, RootsAreDone
  <2> QED
    BY <2>1, <2>2, GraphIsFixed DEF HeaderInv, RootsAreDone
<1>7. CASE VisitRoot \/ FollowEdge \/ FinishHeader \/ Unwind
    BY <1>1, <1>7 DEF VisitRoot, FollowEdge, Descend, PassOver, Fail,
                      FinishHeader, Unwind, Running
<1>8. CASE ReturnSorted \/ UNCHANGED vars
    BY <1>1, <1>8 DEF ReturnSorted, vars
<1> QED
    BY <1>2, <1>3, <1>4, <1>5, <1>6, <1>7, <1>8 DEF Next

-----------------------------------------------------------------------------
LEMMA InvHolds == Spec => []HeaderInv
<1>1. HeaderInv /\ [Next]_vars => HeaderInv'
    BY HintsStayNeeds, StackStaysPath, SortStaysAlone, MarksStayStack,
       EdgesStayFollowed, OrderStaysSound, OrderStaysFull, NoneBecomesStuck,
       FailingStaysStuck, RootsStayDone DEF HeaderInv
<1> QED
    BY InitHolds, <1>1, PTL DEF Spec

\* The declarations of an accepted module come after everything they use: the
\* finished headers are closed under the hints, and the hints cover the uses.
THEOREM AcceptedOrderRespectsUses == Spec => []UsesComeFirst
<1>1. HeaderInv => UsesComeFirst
  <2> SUFFICES ASSUME HeaderInv, phase = "sorted" PROVE UsesComeFirst
    BY DEF UsesComeFirst
  <2>1. Finished = Headers /\ NoneTwice
    BY DEF HeaderInv, OrderIsFull, OrderIsSound
  <2>2. ASSUME NEW p \in DOMAIN order, NEW j \in Headers,
               (NamesType(order[p], j) /\ j # order[p])
                   \/ ReadsConstant(order[p], j)
        PROVE  \E q \in 1 .. p - 1 : order[q] = j
    <3>1. order[p] \in Headers
        BY <2>1 DEF Finished
    <3>2. j \in hints[order[p]]
        BY <2>2, <3>1 DEF HeaderInv, HintsAreNeeds, Ordering
    <3>3. j \notin Free
        BY HeadersFacts DEF HeaderInv, Free, NoHeader
    <3> QED
        BY <3>2, <3>3 DEF HeaderInv, OrderIsSound
  <2> QED
    BY <2>1, <2>2 DEF UsesComeFirst
<1> QED
    BY InvHolds, <1>1, PTL

\* The reported headers are the stuck ones: what fails has shown its root to be
\* stuck, what is finished is not, and every root is one or the other.
THEOREM SortReportsAreExact == Spec => []ReportsAreExact
<1>1. HeaderInv => ReportsAreExact
  <2> SUFFICES ASSUME HeaderInv, phase = "sort", root \notin Headers
               PROVE  ReportsAreExact
    BY DEF ReportsAreExact
  <2>1. \A h \in GraphHeaders : h < root
    <3>1. /\ Headers = 1 .. Len(module.headers) /\ Len(module.headers) \in Nat
          /\ GraphHeaders \subseteq Headers /\ root \in Nat \ {0}
        BY HeadersFacts DEF HeaderInv, RootsAreDone
    <3> QED
        BY <3>1
  <2>2. \A h \in GraphHeaders : h \in visited \cup Reported
    BY <2>1 DEF HeaderInv, RootsAreDone
  <2>3. Reported \subseteq {h \in GraphHeaders : Stuck(h)}
    <3>1. /\ \A k \in DOMAIN bag : Stuck(bag[k].root)
          /\ \A k \in DOMAIN bag : bag[k].root \in GraphHeaders
        BY BagFacts DEF HeaderInv, RootsAreDone
    <3> QED
        BY <3>1 DEF Reported
  <2>4. visited \subseteq {h \in GraphHeaders : ~Stuck(h)}
    BY DEF HeaderInv, NoneStuck
  <2>5. /\ \A k, l \in DOMAIN bag : bag[k].root = bag[l].root => k = l
        /\ Finished = visited /\ NoneTwice
    BY DEF HeaderInv, RootsAreDone, OrderIsFull, OrderIsSound
  <2> QED
    BY <2>2, <2>3, <2>4, <2>5 DEF ReportsAreExact
<1> QED
    BY InvHolds, <1>1, PTL

-----------------------------------------------------------------------------
(* The depth of the recursion *)

\* The frames hold different headers of the graph.
THEOREM RecursionIsBoundedHolds == Spec => []RecursionIsBounded
<1>1. ASSUME HeaderInv PROVE RecursionIsBounded
  <2> DEFINE node == [k \in 1 .. Len(frames) |-> frames[k].node]
  <2>1. /\ frames \in Seq(Frame) /\ Len(frames) \in Nat
        /\ DOMAIN frames = 1 .. Len(frames)
        /\ \A k \in 1 .. Len(frames) : frames[k] \in Frame
    BY <1>1 DEF HeaderInv, StackIsPath
  <2>2. node \in [1 .. Len(frames) -> GraphHeaders]
    BY <2>1 DEF Frame
  <2>3. \A k, l \in 1 .. Len(frames) : node[k] = node[l] => k = l
    BY <1>1, <2>1 DEF HeaderInv, StackIsPath
  <2>4. IsFiniteSet(GraphHeaders) /\ Cardinality(GraphHeaders) \in Nat
    <3>1. /\ Headers = 1 .. Len(module.headers) /\ Len(module.headers) \in Nat
          /\ GraphHeaders \subseteq Headers
      BY <1>1, HeadersFacts DEF HeaderInv
    <3>2. IsFiniteSet(Headers)
      BY <3>1, FS_Interval
    <3> QED  BY <3>1, <3>2, FS_Subset, FS_CardinalityType
  <2>5. IsFiniteSet(1 .. Len(frames)) /\ Cardinality(1 .. Len(frames)) = Len(frames)
    <3>1. 1 \in Int /\ Len(frames) \in Int
      BY <2>1
    <3>2. Cardinality(1 .. Len(frames))
            = IF 1 > Len(frames) THEN 0 ELSE Len(frames) - 1 + 1
      BY <3>1, FS_Interval
    <3> QED  BY <2>1, <3>1, <3>2, FS_Interval
  <2> HIDE DEF node
  <2>6. SUFFICES ASSUME Cardinality(GraphHeaders) < Len(frames) PROVE FALSE
    BY <2>1, <2>4 DEF RecursionIsBounded
  <2>7. \E k, l \in 1 .. Len(frames) : k # l /\ node[k] = node[l]
    BY <2>2, <2>4, <2>5, <2>6, FS_PigeonHole
  <2> QED  BY <2>3, <2>7
<1> QED  BY <1>1, InvHolds, PTL

-----------------------------------------------------------------------------
(* The cycles of constants *)

\* A header may spell a type: plainly, or as the last component of another.
MaySpell(i, j) == Spells(i, Spelled(module.headers[i]), j)

\* A hint is a type that the header may spell, or a constant it reads: of another
\* file, or above it.
HintsAreNamed ==
    /\ phase = "constants" =>
          \A i \in Headers : \A j \in hints[i] \cap Headers : MaySpell(i, j)
    /\ Ordering =>
          \A i \in Headers : \A j \in hints[i] \cap Headers :
             MaySpell(i, j) \/ FileOf(i) # FileOf(j) \/ j < i

LEMMA CanonicalIsNamed ==
    ASSUME WellFormed(module), NEW i \in Headers,
           NEW j \in Canonical(i, Retained(i)) \cap Headers
    PROVE  MaySpell(i, j)
BY DEF Canonical, Retained, MaySpell, Spells

\* Without a bad reference the constants of its file that i reads are above it.
LEMMA ConstantEdgesAreAbove ==
    ASSUME WellFormed(module), NEW i \in Headers,
           \A r \in References(i) : ~RefersBadly(i, r),
           NEW j \in ConstantEdges(i)
    PROVE  FileOf(i) # FileOf(j) \/ j < i
<1>1. PICK r \in References(i) : IsConstant(r) /\ ~RefersBadly(i, r) /\ j = r.to
  BY DEF ConstantEdges
<1>2. j # i /\ ~(FileOf(j) = FileOf(i) /\ j > i)
  BY <1>1 DEF RefersBadly, LooksForward
<1>3. i \in Nat /\ j \in Nat
  <2>1. /\ Headers = 1 .. Len(module.headers) /\ Len(module.headers) \in Nat
    BY HeadersFacts
  <2>2. j \in Headers
    BY <1>1 DEF IsConstant
  <2> QED  BY <2>1, <2>2
<1> QED  BY <1>2, <1>3

LEMMA HintsStayNamed ==
    ASSUME HeaderInv, HintsAreNamed, [Next]_vars
    PROVE  HintsAreNamed'
<1>1. module' = module
  BY DEF Next, vars, CanonicalizeHints, AddConstantDependencies, VisitRoot,
         SkipRoot, FollowEdge, FinishHeader, Unwind, Report, EndSort,
         ExtendWithStart, ReturnSorted
<1>2. /\ Headers' = Headers
      /\ \A i, j : MaySpell(i, j)' = MaySpell(i, j)
      /\ \A i : FileOf(i)' = FileOf(i)
  BY <1>1 DEF Headers, MaySpell, Spells, FileOf
<1>3. CASE CanonicalizeHints
  <2>1. /\ phase = "hints" /\ phase' = "constants"
        /\ \A i \in Headers : hints'[i] = Canonical(i, hints[i])
    BY <1>3 DEF CanonicalizeHints
  <2>2. \A i \in Headers : hints'[i] = Canonical(i, Retained(i))
    BY <2>1 DEF HeaderInv, HintsAreNeeds
  <2>3. \A i \in Headers : \A j \in hints'[i] \cap Headers : MaySpell(i, j)
    BY <2>2, CanonicalIsNamed DEF HeaderInv
  <2> QED  BY <1>2, <2>1, <2>3 DEF HintsAreNamed, Ordering
<1>4. CASE AddConstantDependencies
  <2>1. /\ phase = "constants"
        /\ \A i \in Headers : hints'[i] = hints[i] \cup ConstantEdges(i)
        /\ phase' \in {"rejected", "sort"}
        /\ phase' = "sort" =>
              \A i \in Headers : \A r \in References(i) : ~RefersBadly(i, r)
    BY <1>4 DEF AddConstantDependencies
  <2>2. ASSUME phase' = "sort", NEW i \in Headers, NEW j \in hints'[i] \cap Headers
        PROVE  MaySpell(i, j) \/ FileOf(i) # FileOf(j) \/ j < i
    <3>1. CASE j \in hints[i]
      BY <2>1, <2>2, <3>1 DEF HintsAreNamed
    <3>2. CASE j \in ConstantEdges(i)
      BY <2>1, <2>2, <3>2, ConstantEdgesAreAbove DEF HeaderInv
    <3> QED  BY <2>1, <2>2, <3>1, <3>2
  <2> QED  BY <1>2, <2>1, <2>2 DEF HintsAreNamed, Ordering
<1>5. CASE UNCHANGED hints /\ phase' = phase
  BY <1>1, <1>2, <1>5 DEF HintsAreNamed, Ordering
<1>6. CASE UNCHANGED hints /\ Ordering
             /\ phase' \in {"sort", "extend", "rejected", "sorted"}
  BY <1>1, <1>2, <1>6 DEF HintsAreNamed, Ordering
<1> QED
  BY <1>3, <1>4, <1>5, <1>6
  DEF Next, vars, VisitRoot, SkipRoot, FollowEdge, FinishHeader, Unwind,
      Report, EndSort, ExtendWithStart, ReturnSorted, Running, Ordering

\* Constants that read each other inside a file go up in it from frame to frame,
\* so the last of them does not read the first.
LEMMA CyclesLeave == HeaderInv /\ HintsAreNamed => CyclesLeaveTheFile
<1> SUFFICES ASSUME HeaderInv, HintsAreNamed,
                    failing.kind = "circular", frames # << >>,
                    failing.at \in hints[Top.node], failing.at \in OnStack
             PROVE  LET first == CHOOSE k \in DOMAIN frames : frames[k].node = failing.at
                        Cycle == {frames[k].node : k \in first .. Len(frames)}
                    IN  \/ \E i, j \in Cycle : FileOf(i) # FileOf(j)
                        \/ \E i, j \in Cycle : MaySpell(i, j)
  BY DEF CyclesLeaveTheFile, MaySpell
<1> DEFINE first == CHOOSE k \in DOMAIN frames : frames[k].node = failing.at
           last  == Len(frames)
           Cycle == {frames[k].node : k \in first .. last}
<1>1. /\ frames \in Seq(Frame) /\ last \in Nat \ {0}
      /\ DOMAIN frames = 1 .. last
      /\ \A k \in 1 .. last : frames[k] \in Frame
  BY DEF HeaderInv, StackIsPath
<1>2. first \in 1 .. last /\ frames[first].node = failing.at
  <2>1. \E k \in DOMAIN frames : frames[k].node = failing.at
    BY DEF OnStack
  <2> QED  BY <1>1, <2>1
<1> HIDE DEF first
<1> SUFFICES ASSUME \A i, j \in Cycle : FileOf(i) = FileOf(j) /\ ~MaySpell(i, j)
             PROVE  FALSE
  BY DEF first
<1>3. \A k \in first .. last : k \in 1 .. last /\ frames[k].node \in Cycle
  BY <1>1, <1>2
<1>4. /\ \A k \in 1 .. last : frames[k].node \in Headers
      /\ Headers = 1 .. Len(module.headers) /\ Len(module.headers) \in Nat
  BY <1>1, HeadersFacts DEF HeaderInv, Frame, GraphHeaders
<1>5. phase = "sort"
  <2>1. failing # NoError
    BY DEF NoError
  <2> QED  BY <2>1 DEF HeaderInv, OnlyInSort
<1>6. ASSUME NEW i \in Cycle, NEW j \in Cycle, i \in Headers, j \in Headers,
             j \in hints[i]
      PROVE  j < i
  BY <1>5, <1>6 DEF HintsAreNamed, Ordering
<1> DEFINE Above == {k \in first .. last : frames[k].node <= frames[first].node}
<1>7. Above = first .. last
  <2>1. first \in Nat /\ first <= last /\ last \in Nat
    BY <1>1, <1>2
  <2>2. first \in Above
    BY <1>3, <1>4, <2>1
  <2>3. ASSUME NEW k \in Above, k < last PROVE k + 1 \in Above
    <3>1. /\ k \in first .. last /\ k + 1 \in first .. last /\ k \in 1 .. last - 1
          /\ frames[k].node <= frames[first].node
      BY <1>1, <1>2, <2>3
    <3>2. frames[k + 1].node \in hints[frames[k].node]
      BY <1>1, <3>1 DEF HeaderInv, StackIsPath
    <3>3. /\ frames[k].node \in Cycle /\ frames[k].node \in Headers
          /\ frames[k + 1].node \in Cycle /\ frames[k + 1].node \in Headers
      BY <1>3, <1>4, <3>1
    <3>4. frames[k + 1].node < frames[k].node
      BY <1>6, <3>2, <3>3
    <3>5. frames[first].node \in Headers
      BY <1>2, <1>4
    <3> QED  BY <1>4, <3>1, <3>3, <3>4, <3>5
  <2>4. Above \in SUBSET (first .. last)
    OBVIOUS
  <2> HIDE DEF Above, Cycle
  <2> QED  BY <2>1, <2>2, <2>3, <2>4, InductionUpTo
<1>8. last \in first .. last /\ first \in first .. last
  BY <1>1, <1>2
<1>9. frames[last].node <= frames[first].node
  BY <1>7, <1>8
<1>10. frames[first].node \in hints[frames[last].node]
  BY <1>2 DEF Top
<1>11. /\ frames[first].node \in Cycle /\ frames[first].node \in Headers
       /\ frames[last].node \in Cycle /\ frames[last].node \in Headers
  BY <1>3, <1>4, <1>8
<1>12. frames[first].node < frames[last].node
  BY <1>6, <1>10, <1>11
<1> QED  BY <1>4, <1>9, <1>11, <1>12

\* Constants of one file are never reported as circular: the walk goes up in the
\* file with every constant it follows, whatever the module.
THEOREM CyclesLeaveTheFileHolds == Spec => []CyclesLeaveTheFile
<1>1. Init => HintsAreNamed
  BY DEF Init, HintsAreNamed, Ordering
<1>2. HeaderInv /\ HintsAreNamed /\ [Next]_vars => HintsAreNamed'
  BY HintsStayNamed
<1> QED  BY <1>1, <1>2, InvHolds, CyclesLeave, PTL DEF Spec
=============================================================================
