---------------------------- MODULE CommonLemmas ----------------------------
(***************************************************************************)
(* Facts that the proofs of several components rest on: induction over the *)
(* natural numbers and the existence of functions defined by recursion,    *)
(* both stated for sets and functions, which the provers can instantiate;  *)
(* and what interning and merging do to string tables.                     *)
(***************************************************************************)
EXTENDS StringTable, FiniteSetTheorems, TLAPS

-----------------------------------------------------------------------------
\* Every set of natural numbers has a least element: the numbers below its
\* elements are finite sets, and those are well-founded under inclusion.
LEMMA LeastElement ==
    ASSUME NEW S \in SUBSET Nat, S # {}
    PROVE  \E n \in S : \A m \in S : n <= m
<1> DEFINE Below(n) == {i \in Nat : i < n}
           T == {Below(n) : n \in S}
<1>1. T # {} /\ T \subseteq FiniteSubsetsOf(Nat)
  <2>1. ASSUME NEW n \in S PROVE IsFiniteSet(Below(n))
    <3>1. Below(n) \in SUBSET Nat /\ n \in Nat /\ \A i \in Below(n) : i <= n
      OBVIOUS
    <3> QED  BY <3>1, FS_BoundedSetOfNaturals
  <2> QED  BY <2>1 DEF FiniteSubsetsOf
<1>2. PICK B \in T : \A C \in T : ~(<<C, B>> \in StrictSubsetOrdering(Nat))
  <2>1. IsWellFoundedOn(StrictSubsetOrdering(Nat), FiniteSubsetsOf(Nat))
    BY FS_StrictSubsetOrderingWellFounded
  <2> HIDE DEF T
  <2> QED  BY <1>1, <2>1, WFMin
<1>3. PICK n \in S : B = Below(n)
  OBVIOUS
<1>4. ASSUME NEW m \in S, ~(n <= m) PROVE FALSE
  <2>1. Below(m) \subseteq Below(n) /\ m \in Below(n) /\ m \notin Below(m)
    BY <1>4
  <2>2. <<Below(m), Below(n)>> \in StrictSubsetOrdering(Nat)
    BY <2>1 DEF StrictSubsetOrdering
  <2> QED  BY <1>2, <1>3, <2>2
<1> QED  BY <1>4

\* Every finite set of numbers has a greatest element.
LEMMA GreatestElement ==
    ASSUME NEW S \in SUBSET Nat, S # {}, IsFiniteSet(S)
    PROVE  \E n \in S : \A m \in S : m <= n
<1> DEFINE Beyond(n) == {i \in S : n < i}
           T == {Beyond(n) : n \in S}
<1>1. T # {} /\ T \subseteq FiniteSubsetsOf(Nat)
  <2>1. ASSUME NEW n \in S PROVE IsFiniteSet(Beyond(n)) /\ Beyond(n) \subseteq Nat
    BY FS_Subset
  <2> QED  BY <2>1 DEF FiniteSubsetsOf
<1>2. PICK B \in T : \A C \in T : ~(<<C, B>> \in StrictSubsetOrdering(Nat))
  <2>1. IsWellFoundedOn(StrictSubsetOrdering(Nat), FiniteSubsetsOf(Nat))
    BY FS_StrictSubsetOrderingWellFounded
  <2> HIDE DEF T
  <2> QED  BY <1>1, <2>1, WFMin
<1>3. PICK n \in S : B = Beyond(n)
  OBVIOUS
<1>4. ASSUME NEW m \in S, ~(m <= n) PROVE FALSE
  <2>1. m \in Nat /\ n \in Nat /\ n < m /\ S \subseteq Nat
    BY <1>4
  <2>2. Beyond(m) \subseteq Beyond(n) /\ m \in Beyond(n) /\ m \notin Beyond(m)
    <3>1. \A i \in S : i \in Nat /\ (m < i => n < i) /\ ~(m < m)
      BY <2>1
    <3> QED  BY <2>1, <3>1
  <2>3. <<Beyond(m), Beyond(n)>> \in StrictSubsetOrdering(Nat)
    BY <2>1, <2>2 DEF StrictSubsetOrdering
  <2> QED  BY <1>2, <1>3, <2>3
<1> QED  BY <1>4

\* Induction: a set of numbers from low to high that holds low and with each
\* number the next is all of them.
LEMMA InductionUpTo ==
    ASSUME NEW low \in Nat, NEW high \in Nat, low <= high,
           NEW S \in SUBSET (low .. high), low \in S,
           \A n \in S : n < high => n + 1 \in S
    PROVE  S = low .. high
<1> SUFFICES ASSUME (low .. high) \ S # {} PROVE FALSE
  OBVIOUS
<1>1. (low .. high) \ S \in SUBSET Nat
  OBVIOUS
<1>2. PICK n \in (low .. high) \ S : \A m \in (low .. high) \ S : n <= m
  BY <1>1, LeastElement
<1>3. n - 1 \in low .. high /\ ~(n <= n - 1)
  BY <1>2
<1>4. n - 1 \in S /\ n - 1 < high /\ (n - 1) + 1 = n
  BY <1>2, <1>3
<1> QED  BY <1>2, <1>4

\* The states of a loop over low + 1 .. high.
Iterates(f, low, high, S, start, body) ==
    /\ f \in [low .. high -> S]
    /\ f[low] = start
    /\ \A k \in low + 1 .. high : f[k] = body[k][f[k - 1]]

\* A loop that starts in a state of S and whose body maps states of S to states
\* of S has a sequence of states.
LEMMA IteratesExist ==
    ASSUME NEW low \in Nat, NEW high \in Nat, low <= high,
           NEW S, NEW start \in S, NEW body \in [low + 1 .. high -> [S -> S]]
    PROVE  \E f : Iterates(f, low, high, S, start, body)
<1> DEFINE Loop(f, n) == Iterates(f, low, n, S, start, body)
           Runs(n) == \E f : Loop(f, n)
           Done == {n \in low .. high : Runs(n)}
<1>1. Runs(low)
  <2> DEFINE g == [k \in low .. low |-> start]
  <2>1. Loop(g, low)
    BY DEF Iterates
  <2> HIDE DEF Loop, g
  <2> QED  BY <2>1
<1>2. ASSUME NEW n \in low .. high, Runs(n), n < high PROVE Runs(n + 1)
  <2>0. PICK f : Loop(f, n)
    <3> HIDE DEF Loop
    <3> QED  BY <1>2
  <2>1. /\ f \in [low .. n -> S] /\ f[low] = start
        /\ \A k \in low + 1 .. n : f[k] = body[k][f[k - 1]]
    BY <2>0 DEF Iterates
  <2> DEFINE g == [k \in low .. n + 1 |->
                      IF k <= n THEN f[k] ELSE body[n + 1][f[n]]]
  <2>2. n \in low .. n /\ n + 1 \in low + 1 .. high /\ f[n] \in S
    BY <1>2, <2>1
  <2>3. body[n + 1][f[n]] \in S
    BY <2>2
  <2>4. g \in [low .. n + 1 -> S]
    <3>1. \A k \in low .. n + 1 : k <= n => k \in low .. n
      OBVIOUS
    <3>2. \A k \in low .. n : f[k] \in S
      BY <2>1
    <3> QED  BY <2>3, <3>1, <3>2
  <2>5. g[low] = start
    BY <2>1, <2>2
  <2>6. ASSUME NEW k \in low + 1 .. n + 1 PROVE g[k] = body[k][g[k - 1]]
    <3>1. CASE k <= n
      BY <2>1, <3>1
    <3>2. CASE k = n + 1
      BY <2>2, <3>2
    <3> QED  BY <3>1, <3>2
  <2> HIDE DEF g
  <2>7. Loop(g, n + 1)
    BY <2>4, <2>5, <2>6 DEF Iterates
  <2> HIDE DEF Loop
  <2> QED  BY <2>7
<1> HIDE DEF Runs
<1>3. Done \in SUBSET (low .. high) /\ low \in Done
  BY <1>1
<1>4. \A n \in Done : n < high => n + 1 \in Done
  BY <1>2
<1> HIDE DEF Done
<1>5. Done = low .. high
  BY <1>3, <1>4, InductionUpTo
<1>6. Runs(high)
  BY <1>5 DEF Done
<1> QED  BY <1>6 DEF Runs

-----------------------------------------------------------------------------
\* Induction downwards: a set that holds every number whose successors up to n
\* it holds has all of 1 .. n.
LEMMA InductionDown ==
    ASSUME NEW n \in Nat, NEW S,
           \A b \in 1 .. n : (\A s \in b + 1 .. n : s \in S) => b \in S
    PROVE  \A b \in 1 .. n : b \in S
<1> DEFINE Done == {k \in 0 .. n : \A b \in n - k + 1 .. n : b \in S}
<1>1. Done \in SUBSET (0 .. n) /\ 0 \in Done /\ 0 \in Nat /\ 0 <= n
  OBVIOUS
<1>2. ASSUME NEW k \in Done, k < n PROVE k + 1 \in Done
  <2>1. k + 1 \in 0 .. n /\ n - k \in 1 .. n /\ n - (k + 1) + 1 = n - k
    BY <1>2
  <2>2. n - k \in S
    BY <1>2, <2>1
  <2>3. \A b \in n - k .. n : b \in S
    BY <1>2, <2>1, <2>2
  <2> QED  BY <2>1, <2>3
<1> HIDE DEF Done
<1>3. Done = 0 .. n
  BY <1>1, <1>2, InductionUpTo
<1>4. n \in Done
  BY <1>3
<1> QED  BY <1>4 DEF Done

\* A rule for every number up to n that looks only at the higher ones.
LooksUp(rule, n, M) ==
    \A b \in 1 .. n, g, h \in M :
       (\A s \in b + 1 .. n : g[s] = h[s]) => rule[b][g] = rule[b][h]

Obeys(f, rule, n) == \A b \in 1 .. n : f[b] = rule[b][f]

\* There is a function that obeys such a rule.
LEMMA SweepsExist ==
    ASSUME NEW n \in Nat \ {0}, NEW V, NEW M, M = [1 .. n -> V],
           NEW old \in M, NEW rule \in [1 .. n -> [M -> V]], LooksUp(rule, n, M)
    PROVE  \E f \in M : Obeys(f, rule, n)
<1> DEFINE place(k) == n + 1 - k
           body == [k \in 0 + 1 .. n |-> [g \in M |-> [g EXCEPT ![place(k)] = rule[place(k)][g]]]]
<1>0. M = [1 .. n -> V]
  OBVIOUS
<1>1. \A k \in 1 .. n : place(k) \in 1 .. n
  OBVIOUS
<1>2. body \in [0 + 1 .. n -> [M -> M]]
  <2>1. ASSUME NEW k \in 1 .. n, NEW g \in M
        PROVE  [g EXCEPT ![place(k)] = rule[place(k)][g]] \in M
    <3>1. rule[place(k)][g] \in V
      BY <1>1
    <3> HIDE DEF place
    <3>2. g \in [1 .. n -> V]
      OBVIOUS
    <3>3. [g EXCEPT ![place(k)] = rule[place(k)][g]] \in [1 .. n -> V]
      BY ONLY <3>1, <3>2
    <3> QED  BY ONLY <1>0, <3>3, Zenon
  <2> HIDE DEF place
  <2> QED  BY <2>1
<1>3. PICK it : Iterates(it, 0, n, M, old, body)
  <2>1. 0 \in Nat /\ n \in Nat /\ 0 <= n /\ old \in M
    OBVIOUS
  <2> HIDE DEF body
  <2> QED  BY <1>2, <2>1, IteratesExist
<1>4. /\ it \in [0 .. n -> M]
      /\ \A k \in 1 .. n : it[k] = [it[k - 1] EXCEPT ![place(k)] = rule[place(k)][it[k - 1]]]
  <2>1. /\ it \in [0 .. n -> M]
        /\ \A k \in 0 + 1 .. n : it[k] = body[k][it[k - 1]]
    BY <1>3 DEF Iterates
  <2>2. \A k \in 1 .. n : k \in 0 + 1 .. n /\ it[k - 1] \in M
    <3>1. \A k \in 1 .. n : k \in 0 + 1 .. n /\ k - 1 \in 0 .. n
      OBVIOUS
    <3> QED  BY <2>1, <3>1
  <2>3. ASSUME NEW k \in 1 .. n
        PROVE  it[k] = [it[k - 1] EXCEPT ![place(k)] = rule[place(k)][it[k - 1]]]
    <3> DEFINE g == it[k - 1]
    <3>1. k \in 0 + 1 .. n /\ g \in M
      BY <2>2
    <3>2. it[k] = body[k][g]
      BY <2>1, <3>1
    <3> HIDE DEF g, place
    <3>3. body[k][g] = [g EXCEPT ![place(k)] = rule[place(k)][g]]
      BY <3>1
    <3> QED  BY <3>2, <3>3 DEF g
  <2> QED  BY <2>1, <2>3
<1> HIDE DEF body
<1> DEFINE Done == {k \in 0 .. n :
                       \A b \in n - k + 1 .. n : it[k][b] = rule[b][it[k]]}
<1>5. Done \in SUBSET (0 .. n) /\ 0 \in Done /\ 0 \in Nat /\ 0 <= n
  OBVIOUS
<1>6. ASSUME NEW k \in Done, k < n PROVE k + 1 \in Done
  <2> DEFINE g == it[k]
             h == it[k + 1]
             c == n - k
  <2>1. /\ k \in 0 .. n /\ k + 1 \in 1 .. n /\ k + 1 \in 0 .. n /\ (k + 1) - 1 = k
        /\ c \in 1 .. n /\ place(k + 1) = c /\ n - (k + 1) + 1 = c /\ n - k + 1 = c + 1
    BY <1>6
  <2>2. g \in M /\ h \in M
    BY <1>4, <2>1
  <2>3. h = [g EXCEPT ![c] = rule[c][g]]
    BY <1>4, <2>1
  <2>4. \A b \in c + 1 .. n : b \in 1 .. n /\ b # c /\ g[b] = rule[b][g]
    <3>1. \A b \in n - k + 1 .. n : g[b] = rule[b][g]
      BY <1>6
    <3>2. \A b \in c + 1 .. n : g[b] = rule[b][g]
      BY <2>1, <3>1
    <3> HIDE DEF c, g
    <3>3. \A b \in c + 1 .. n : b \in 1 .. n /\ b # c
      BY <2>1
    <3> QED  BY <3>2, <3>3
  <2> HIDE DEF g, h, c, place
  <2>5. \A b \in 1 .. n : h[b] = IF b = c THEN rule[c][g] ELSE g[b]
    BY <2>1, <2>2, <2>3
  <2>6. ASSUME NEW b \in c .. n PROVE h[b] = rule[b][h]
    <3>1. b \in 1 .. n /\ \A s \in b + 1 .. n : s \in 1 .. n /\ s # c
      BY <2>1
    <3>2. rule[b][g] = rule[b][h]
      <4>1. \A s \in b + 1 .. n : g[s] = h[s]
        BY <2>5, <3>1
      <4> QED  BY <2>2, <3>1, <4>1 DEF LooksUp
    <3>3. CASE b = c
      BY <2>5, <3>1, <3>2, <3>3
    <3>4. CASE b # c
      <4>1. b \in c + 1 .. n
        BY <2>1, <3>4
      <4> QED  BY <2>4, <2>5, <3>1, <3>2, <3>4, <4>1
    <3> QED  BY <3>3, <3>4
  <2> QED  BY <2>1, <2>6 DEF h
<1> HIDE DEF Done
<1>7. Done = 0 .. n
  BY <1>5, <1>6, InductionUpTo
<1>8. n \in 0 .. n /\ n \in Done /\ n - n + 1 = 1
  BY <1>7
<1>9. \A b \in 1 .. n : it[n][b] = rule[b][it[n]]
  BY <1>8 DEF Done
<1> QED  BY <1>4, <1>8, <1>9 DEF Obeys

-----------------------------------------------------------------------------
\* Interning keeps what a table holds and gives the string an id.
LEMMA InternWorks ==
    ASSUME NEW S, NEW t \in Seq(S), NEW s \in S
    PROVE  /\ Intern(t, s) \in Seq(S)
           /\ Len(t) <= Len(Intern(t, s))
           /\ \A i \in 1 .. Len(t) : Intern(t, s)[i] = t[i]
           /\ IdOf(Intern(t, s), s) \in Nat
           /\ IdOf(Intern(t, s), s) < Len(Intern(t, s))
           /\ Intern(t, s)[IdOf(Intern(t, s), s) + 1] = s
           /\ \A i \in DOMAIN Intern(t, s) : i > Len(t) => Intern(t, s)[i] = s
           /\ NoDuplicates(t) => NoDuplicates(Intern(t, s))
<1> DEFINE u == Intern(t, s)
<1>1. /\ u \in Seq(S) /\ Len(t) <= Len(u)
      /\ \A i \in 1 .. Len(t) : u[i] = t[i]
  BY DEF Intern
<1>2. \E i \in DOMAIN u : u[i] = s
  <2>1. CASE Known(t, s)
    BY <2>1 DEF Intern, Known
  <2>2. CASE ~Known(t, s)
    <3>1. u = Append(t, s) /\ Len(u) = Len(t) + 1 /\ u[Len(t) + 1] = s
      BY <2>2 DEF Intern
    <3> QED  BY <3>1, <1>1
  <2> QED  BY <2>1, <2>2
<1>6. /\ \A i \in DOMAIN u : i > Len(t) => u[i] = s
      /\ NoDuplicates(t) => NoDuplicates(u)
  <2>1. CASE Known(t, s)
    BY <2>1 DEF Intern, Known
  <2>2. CASE ~Known(t, s)
    <3>1. u = Append(t, s) /\ Len(u) = Len(t) + 1 /\ u[Len(t) + 1] = s
      BY <2>2 DEF Intern
    <3>2. \A i \in DOMAIN t : t[i] # s
      BY <2>2 DEF Known
    <3> HIDE DEF u
    <3>3. \A i \in DOMAIN u : i \in DOMAIN t \/ i = Len(t) + 1
      BY <1>1, <3>1
    <3>4. \A i \in DOMAIN t : i \in 1 .. Len(t) /\ u[i] = t[i]
      BY <1>1
    <3>5. \A i \in DOMAIN u : i > Len(t) => u[i] = s
      BY <3>1, <3>3
    <3>6. NoDuplicates(t) => NoDuplicates(u)
      BY <3>1, <3>2, <3>3, <3>4 DEF NoDuplicates
    <3> QED  BY <3>5, <3>6
  <2> QED  BY <2>1, <2>2
<1> HIDE DEF u
<1>3. PICK k \in DOMAIN u : u[k] = s /\ IdOf(u, s) = k - 1
  BY <1>2 DEF IdOf
<1>4. k \in Nat \ {0} /\ k <= Len(u) /\ (k - 1) + 1 = k
  BY <1>1
<1>5. IdOf(u, s) \in Nat /\ IdOf(u, s) < Len(u) /\ u[IdOf(u, s) + 1] = s
  BY <1>1, <1>3, <1>4
<1> QED  BY <1>1, <1>5, <1>6 DEF u

\* An element of a sequence is of the sequence's type.
LEMMA ElementOfSeq ==
    ASSUME NEW S, NEW w \in Seq(S), NEW i \in DOMAIN w
    PROVE  w[i] \in S
OBVIOUS

\* What appending does to the elements of a sequence.
LEMMA AppendKeeps ==
    ASSUME NEW S, NEW w \in Seq(S), NEW x \in S
    PROVE  /\ Len(Append(w, x)) = Len(w) + 1
           /\ \A i \in 1 .. Len(w) : Append(w, x)[i] = w[i]
           /\ Append(w, x)[Len(w) + 1] = x
OBVIOUS

\* What one more string adds to a remap.
LEMMA RemapGrows ==
    ASSUME NEW remap \in [prefix : Nat, suffix : Seq(Nat), identity : BOOLEAN],
           NEW newId \in Nat
    PROVE  /\ RemapNext(remap, newId)
                  \in [prefix : Nat, suffix : Seq(Nat), identity : BOOLEAN]
           /\ RemapNext(remap, newId).prefix = remap.prefix
           /\ Len(RemapNext(remap, newId).suffix) = Len(remap.suffix) + 1
           /\ \A i \in 1 .. Len(remap.suffix) :
                 /\ RemapNext(remap, newId).suffix[i] = remap.suffix[i]
                 /\ remap.suffix[i] \in Nat
           /\ RemapNext(remap, newId).suffix[Len(remap.suffix) + 1] = newId
           /\ RemapNext(remap, newId).identity =>
                 remap.identity /\ newId = remap.prefix + Len(remap.suffix)
<1> DEFINE new == RemapNext(remap, newId)
<1>1. new = [remap EXCEPT
          !.suffix = Append(@, newId),
          !.identity = @ /\ newId = remap.prefix + Len(remap.suffix)]
  BY DEF RemapNext
<1> HIDE DEF new
<1>2. remap.suffix \in Seq(Nat) /\ Append(remap.suffix, newId) \in Seq(Nat)
  OBVIOUS
<1>3. new.suffix = Append(remap.suffix, newId) /\ new.prefix = remap.prefix
  BY <1>1
<1>4. new.identity = (remap.identity /\ newId = remap.prefix + Len(remap.suffix))
  BY <1>1
<1>5. new \in [prefix : Nat, suffix : Seq(Nat), identity : BOOLEAN]
  <2>1. (remap.identity /\ newId = remap.prefix + Len(remap.suffix)) \in BOOLEAN
    OBVIOUS
  <2> QED  BY <1>1, <1>2, <2>1, Zenon
<1>6. /\ Len(new.suffix) = Len(remap.suffix) + 1
      /\ \A i \in 1 .. Len(remap.suffix) :
            new.suffix[i] = remap.suffix[i] /\ remap.suffix[i] \in Nat
      /\ new.suffix[Len(remap.suffix) + 1] = newId
  <2> DEFINE w == remap.suffix
  <2>1. w \in Seq(Nat)
    BY <1>2
  <2> HIDE DEF w
  <2>2. /\ Len(Append(w, newId)) = Len(w) + 1
        /\ \A i \in 1 .. Len(w) : Append(w, newId)[i] = w[i] /\ w[i] \in Nat
        /\ Append(w, newId)[Len(w) + 1] = newId
    BY <2>1
  <2> QED  BY <1>3, <2>2 DEF w
<1>7. new.identity => remap.identity /\ newId = remap.prefix + Len(remap.suffix)
  BY <1>4
<1> QED  BY <1>3, <1>5, <1>6, <1>7 DEF new

\* A listing, with the equality of sets read from both sides.
LEMMA ListingFacts ==
    ASSUME NEW t, NEW O, ListsByOccurrence(t, O)
    PROVE  /\ NoDuplicates(t)
           /\ \A i \in DOMAIN t : \E o \in O : o.text = t[i]
           /\ \A o \in O : \E i \in DOMAIN t : t[i] = o.text
           /\ \A i, j \in DOMAIN t : i < j =>
                 \E o \in O :
                     /\ o.text = t[i]
                     /\ \A q \in O : q.text = t[j] => Precedes(o.at, q.at)
<1>1. {t[i] : i \in DOMAIN t} = {o.text : o \in O}
  BY DEF ListsByOccurrence
<1>2. ASSUME NEW i \in DOMAIN t PROVE \E o \in O : o.text = t[i]
  <2>1. t[i] \in {t[k] : k \in DOMAIN t}
    OBVIOUS
  <2>2. t[i] \in {o.text : o \in O}
    BY <1>1, <2>1
  <2> QED  BY ONLY <2>2
<1>3. ASSUME NEW o \in O PROVE \E i \in DOMAIN t : t[i] = o.text
  <2>1. o.text \in {q.text : q \in O}
    OBVIOUS
  <2>2. o.text \in {t[k] : k \in DOMAIN t}
    BY <1>1, <2>1
  <2> QED  BY ONLY <2>2
<1>4. NoDuplicates(t)
  BY DEF ListsByOccurrence
<1>5. \A i, j \in DOMAIN t : i < j =>
          \E o \in O :
              /\ o.text = t[i]
              /\ \A q \in O : q.text = t[j] => Precedes(o.at, q.at)
  BY DEF ListsByOccurrence
<1> QED  BY <1>2, <1>3, <1>4, <1>5

\* The occurrences of a text are at its number.
LEMMA OccurrencePlaces ==
    ASSUME NEW text, NEW number, NEW o \in Occurrences(text, number)
    PROVE  \E j \in DOMAIN text : o.text = text[j] /\ o.at = <<number, j>>
BY DEF Occurrences

\* Reading one more string of a text adds one occurrence, after the others.
LEMMA OneMoreOccurrence ==
    ASSUME NEW S, NEW text \in Seq(S), NEW number \in Nat, NEW k \in Nat,
           k < Len(text)
    PROVE  /\ Occurrences(SubSeq(text, 1, k + 1), number)
                 = Occurrences(SubSeq(text, 1, k), number)
                      \cup {[text |-> text[k + 1], at |-> <<number, k + 1>>]}
           /\ \A o \in Occurrences(SubSeq(text, 1, k), number) :
                 Precedes(o.at, <<number, k + 1>>)
<1>1. /\ SubSeq(text, 1, k) = [j \in 1 .. k |-> text[j]]
      /\ SubSeq(text, 1, k + 1) = [j \in 1 .. k + 1 |-> text[j]]
  OBVIOUS
<1>2. /\ DOMAIN SubSeq(text, 1, k) = 1 .. k
      /\ DOMAIN SubSeq(text, 1, k + 1) = 1 .. k + 1
      /\ \A j \in 1 .. k : SubSeq(text, 1, k)[j] = text[j]
      /\ \A j \in 1 .. k + 1 : SubSeq(text, 1, k + 1)[j] = text[j]
  BY <1>1
<1>3. Occurrences(SubSeq(text, 1, k), number)
         = {[text |-> text[j], at |-> <<number, j>>] : j \in 1 .. k}
  BY <1>2 DEF Occurrences
<1>4. Occurrences(SubSeq(text, 1, k + 1), number)
         = {[text |-> text[j], at |-> <<number, j>>] : j \in 1 .. k + 1}
  BY <1>2 DEF Occurrences
<1>5. 1 .. k + 1 = 1 .. k \cup {k + 1}
  OBVIOUS
<1>6. ASSUME NEW o \in Occurrences(SubSeq(text, 1, k), number)
      PROVE  Precedes(o.at, <<number, k + 1>>)
  BY <1>3 DEF Precedes
<1> QED  BY <1>3, <1>4, <1>5, <1>6

\* Reading none of a text has no occurrence.
LEMMA NoOccurrence ==
    ASSUME NEW S, NEW text \in Seq(S), NEW number
    PROVE  Occurrences(SubSeq(text, 1, 0), number) = {}
<1>1. DOMAIN SubSeq(text, 1, 0) = {}
  OBVIOUS
<1> QED  BY <1>1 DEF Occurrences

\* A table lists itself.
LEMMA TableListsItself ==
    ASSUME NEW S, NEW t \in Seq(S), NoDuplicates(t), NEW number \in Nat
    PROVE  ListsByOccurrence(t, Occurrences(t, number))
<1> DEFINE O == Occurrences(t, number)
           At(j) == [text |-> t[j], at |-> <<number, j>>]
<1>1. /\ \A j \in DOMAIN t : At(j) \in O
      /\ \A o \in O : \E j \in DOMAIN t : o = At(j)
  BY DEF Occurrences
<1>2. \A j \in DOMAIN t : At(j).text = t[j] /\ At(j).at = <<number, j>>
  OBVIOUS
<1> HIDE DEF O, At
<1>3. {t[i] : i \in DOMAIN t} = {o.text : o \in O}
  BY <1>1, <1>2
<1>4. ASSUME NEW i \in DOMAIN t, NEW j \in DOMAIN t, i < j
      PROVE  \E o \in O :
                 /\ o.text = t[i]
                 /\ \A q \in O : q.text = t[j] => Precedes(o.at, q.at)
  <2>1. ASSUME NEW q \in O, q.text = t[j] PROVE Precedes(At(i).at, q.at)
    <3>1. PICK k \in DOMAIN t : q = At(k)
      BY <1>1
    <3>2. k = j
      BY <1>2, <2>1, <3>1 DEF NoDuplicates
    <3> QED  BY <1>2, <1>4, <3>1, <3>2 DEF Precedes
  <2> QED  BY <1>1, <1>2, <2>1
<1> QED  BY <1>3, <1>4 DEF ListsByOccurrence, O

\* Interning the next string of a text keeps a table the list of the strings by
\* occurrence, when the place of the string is after all others.
LEMMA NextOccurrence ==
    ASSUME NEW S, NEW t \in Seq(S), NEW s \in S, NEW O, NEW p,
           ListsByOccurrence(t, O), \A o \in O : Precedes(o.at, p)
    PROVE  ListsByOccurrence(Intern(t, s), O \cup {[text |-> s, at |-> p]})
<1> DEFINE u == Intern(t, s)
           new == [text |-> s, at |-> p]
           OO == O \cup {new}
<1>1. new.text = s /\ new.at = p
  OBVIOUS
<1> HIDE DEF new
<1>2. /\ u \in Seq(S) /\ Len(t) <= Len(u)
      /\ \A i \in 1 .. Len(t) : u[i] = t[i]
      /\ \A i \in DOMAIN u : i > Len(t) => u[i] = s
      /\ NoDuplicates(u)
      /\ \E i \in DOMAIN u : u[i] = s
  <2>1. /\ u \in Seq(S) /\ Len(t) <= Len(u)
        /\ \A i \in 1 .. Len(t) : u[i] = t[i]
        /\ IdOf(u, s) \in Nat /\ IdOf(u, s) < Len(u)
        /\ u[IdOf(u, s) + 1] = s
    BY InternWorks
  <2>2. \A i \in DOMAIN u : i > Len(t) => u[i] = s
    BY InternWorks
  <2>3. NoDuplicates(t) => NoDuplicates(u)
    BY InternWorks
  <2>4. NoDuplicates(t)
    BY DEF ListsByOccurrence
  <2> HIDE DEF u
  <2>5. IdOf(u, s) + 1 \in DOMAIN u
    BY <2>1
  <2> QED  BY <2>1, <2>2, <2>3, <2>4, <2>5
<1> HIDE DEF u
<1>3. /\ NoDuplicates(t)
      /\ \A i \in DOMAIN t : \E o \in O : o.text = t[i]
      /\ \A o \in O : \E i \in DOMAIN t : t[i] = o.text
      /\ \A i, j \in DOMAIN t : i < j =>
            \E o \in O :
                /\ o.text = t[i]
                /\ \A q \in O : q.text = t[j] => Precedes(o.at, q.at)
  BY ListingFacts, Zenon
<1>4. {u[i] : i \in DOMAIN u} = {o.text : o \in OO}
  <2>1. ASSUME NEW i \in DOMAIN u PROVE \E o \in OO : u[i] = o.text
    <3>1. CASE i \in DOMAIN t
      <4>1. u[i] = t[i]
        BY <1>2, <3>1
      <4> QED  BY <1>3, <3>1, <4>1
    <3>2. CASE i \notin DOMAIN t
      <4>1. i > Len(t)
        BY <1>2, <3>2
      <4> QED  BY <1>1, <1>2, <4>1
    <3> QED  BY <3>1, <3>2
  <2>2. ASSUME NEW o \in OO PROVE \E i \in DOMAIN u : u[i] = o.text
    <3>1. CASE o = new
      BY <1>1, <1>2, <3>1
    <3>2. CASE o \in O
      <4>1. PICK i \in DOMAIN t : t[i] = o.text
        BY <1>3, <3>2
      <4>2. i \in DOMAIN u /\ u[i] = t[i]
        BY <1>2
      <4> QED  BY <4>1, <4>2
    <3> QED  BY <3>1, <3>2
  <2> QED  BY <2>1, <2>2
<1>5. ASSUME NEW i \in DOMAIN u, NEW j \in DOMAIN u, i < j
      PROVE  \E o \in OO :
                 /\ o.text = u[i]
                 /\ \A q \in OO : q.text = u[j] => Precedes(o.at, q.at)
  <2>1. i \in DOMAIN t
    <3>1. CASE i > Len(t)
      <4>1. j > Len(t)
        BY <1>2, <1>5, <3>1
      <4>2. u[i] = u[j] /\ i # j
        BY <1>2, <1>5, <3>1, <4>1
      <4> QED  BY <1>2, <4>2 DEF NoDuplicates
    <3> QED  BY <1>2, <3>1
  <2>2. u[i] = t[i]
    BY <1>2, <2>1
  <2>3. CASE j \in DOMAIN t
    <3>1. PICK o \in O :
              /\ o.text = t[i]
              /\ \A q \in O : q.text = t[j] => Precedes(o.at, q.at)
      BY <1>3, <1>5, <2>1, <2>3
    <3>2. u[j] = t[j]
      BY <1>2, <2>3
    <3> QED  BY <1>1, <2>2, <3>1, <3>2
  <2>4. CASE j \notin DOMAIN t
    <3>1. j > Len(t)
      BY <1>2, <2>4
    <3>2. PICK o \in O : o.text = t[i]
      BY <1>3, <2>1
    <3>3. ASSUME NEW q \in O PROVE q.text # u[j]
      <4>1. PICK k \in DOMAIN t : t[k] = q.text
        BY <1>3
      <4>2. k \in DOMAIN u /\ u[k] = t[k] /\ k # j
        BY <1>2, <3>1
      <4> QED  BY <1>2, <4>1, <4>2 DEF NoDuplicates
    <3> QED  BY <1>1, <2>2, <3>2, <3>3
  <2> QED  BY <2>3, <2>4
<1> QED  BY <1>2, <1>4, <1>5 DEF ListsByOccurrence, u, new

(***************************************************************************)
(* A table R while the strings of another table L, from place base + 1 to  *)
(* base + k, are merged into the table t: t, then those it did not have,   *)
(* in the order of L.                                                      *)
(***************************************************************************)
MergedUpTo(R, t, L, base, k) ==
    /\ NoDuplicates(R)
    /\ Len(t) <= Len(R) /\ \A i \in 1 .. Len(t) : R[i] = t[i]
    /\ \A i \in DOMAIN R : i > Len(t) =>
          \E a \in base + 1 .. base + k : R[i] = L[a]
    /\ \A a \in base + 1 .. base + k : \E i \in DOMAIN R : R[i] = L[a]
    /\ \A i, j \in DOMAIN R : Len(t) < i /\ i < j =>
          \A a, b \in base + 1 .. base + k :
              R[i] = L[a] /\ R[j] = L[b] => a < b

\* A merge begins with its target.
LEMMA MergeBegins ==
    ASSUME NEW S, NEW t \in Seq(S), NEW L \in Seq(S), NEW base \in Nat,
           NoDuplicates(t)
    PROVE  MergedUpTo(t, t, L, base, 0)
BY DEF MergedUpTo

\* One more string is merged by interning it.
LEMMA MergeGoesOn ==
    ASSUME NEW S, NEW t \in Seq(S), NEW L \in Seq(S), NEW R \in Seq(S),
           NEW base \in Nat, NEW k \in Nat, base + k < Len(L),
           NoDuplicates(L), MergedUpTo(R, t, L, base, k)
    PROVE  MergedUpTo(Intern(R, L[base + k + 1]), t, L, base, k + 1)
<1> DEFINE s == L[base + k + 1]
           u == Intern(R, s)
<1>0. /\ s \in S
      /\ \A a \in base + 1 .. base + k : L[a] # s
      /\ \A a \in base + 1 .. base + k : a \in base + 1 .. base + (k + 1)
      /\ \A a \in base + 1 .. base + (k + 1) :
            a \in base + 1 .. base + k \/ a = base + k + 1
      /\ base + k + 1 \in base + 1 .. base + (k + 1)
  BY DEF NoDuplicates
<1> HIDE DEF s
<1>1. /\ u \in Seq(S) /\ Len(R) <= Len(u)
      /\ \A i \in 1 .. Len(R) : u[i] = R[i]
      /\ \A i \in DOMAIN R : i \in DOMAIN u /\ u[i] = R[i]
      /\ IdOf(u, s) + 1 \in DOMAIN u
      /\ u[IdOf(u, s) + 1] = s
  <2>1. /\ u \in Seq(S) /\ Len(R) <= Len(u)
        /\ \A i \in 1 .. Len(R) : u[i] = R[i]
        /\ IdOf(u, s) \in Nat /\ IdOf(u, s) < Len(u)
        /\ u[IdOf(u, s) + 1] = s
    BY <1>0, InternWorks
  <2> HIDE DEF u
  <2>2. \A i \in DOMAIN R : i \in DOMAIN u /\ u[i] = R[i]
    <3>1. /\ u \in Seq(S) /\ Len(R) <= Len(u)
          /\ \A i \in 1 .. Len(R) : u[i] = R[i]
      BY <2>1
    <3> QED  BY ONLY <3>1, R \in Seq(S)
  <2>3. IdOf(u, s) + 1 \in DOMAIN u
    BY <2>1
  <2> QED  BY <2>1, <2>2, <2>3
<1>2. \A i \in DOMAIN u : i > Len(R) => u[i] = s
  BY <1>0, InternWorks
<1>3. NoDuplicates(u)
  BY <1>0, InternWorks DEF MergedUpTo
<1> HIDE DEF u
<1> USE DEF MergedUpTo
<1>4. Len(t) <= Len(u) /\ \A i \in 1 .. Len(t) : u[i] = t[i]
  BY <1>1
<1>5. ASSUME NEW i \in DOMAIN u, i > Len(t)
      PROVE  \E a \in base + 1 .. base + (k + 1) : u[i] = L[a]
  <2>1. CASE i <= Len(R)
    <3>1. i \in DOMAIN R /\ u[i] = R[i]
      BY <1>1, <2>1
    <3>2. PICK a \in base + 1 .. base + k : R[i] = L[a]
      BY <1>5, <3>1
    <3> QED  BY <1>0, <3>1, <3>2
  <2>2. CASE i > Len(R)
    BY <1>0, <1>2, <2>2 DEF s
  <2> QED  BY <1>1, <2>1, <2>2
<1>6. ASSUME NEW a \in base + 1 .. base + (k + 1)
      PROVE  \E i \in DOMAIN u : u[i] = L[a]
  <2>1. CASE a \in base + 1 .. base + k
    <3>1. PICK i \in DOMAIN R : R[i] = L[a]
      BY <2>1
    <3>2. i \in DOMAIN u /\ u[i] = R[i]
      BY <1>1
    <3> QED  BY <3>1, <3>2
  <2>2. CASE a = base + k + 1
    <3>1. L[a] = s
      BY <2>2 DEF s
    <3> QED  BY <1>1, <3>1
  <2> QED  BY <1>0, <2>1, <2>2
<1>7. ASSUME NEW i \in DOMAIN u, NEW j \in DOMAIN u, Len(t) < i, i < j,
             NEW a \in base + 1 .. base + (k + 1),
             NEW b \in base + 1 .. base + (k + 1),
             u[i] = L[a], u[j] = L[b]
      PROVE  a < b
  <2>0. i \in Nat /\ j \in Nat /\ Len(R) \in Nat /\ Len(u) \in Nat
        /\ \A n \in DOMAIN u : n <= Len(R) => n \in DOMAIN R /\ u[n] = R[n]
    BY <1>1
  <2>1. CASE j <= Len(R)
    <3>1. i \in DOMAIN R /\ j \in DOMAIN R /\ u[i] = R[i] /\ u[j] = R[j]
      BY <1>7, <2>0, <2>1
    <3>2. PICK c \in base + 1 .. base + k : R[i] = L[c]
      BY <1>7, <3>1
    <3>3. PICK d \in base + 1 .. base + k : R[j] = L[d]
      BY <1>7, <2>0, <3>1
    <3>4. a = c /\ b = d
      <4>1. /\ a \in DOMAIN L /\ b \in DOMAIN L
            /\ c \in DOMAIN L /\ d \in DOMAIN L
        OBVIOUS
      <4>2. L[a] = L[c] /\ L[b] = L[d]
        BY <1>7, <3>1, <3>2, <3>3
      <4> QED  BY <4>1, <4>2 DEF NoDuplicates
    <3> QED  BY <1>7, <3>1, <3>2, <3>3, <3>4
  <2>2. CASE j > Len(R)
    <3>1. u[j] = s
      BY <1>2, <2>2
    <3>2. b = base + k + 1
      BY <1>0, <1>7, <3>1
    <3>3. u[i] # s
      BY <1>3, <1>7, <2>0, <3>1 DEF NoDuplicates
    <3>4. a # base + k + 1
      BY <1>7, <3>3 DEF s
    <3> QED  BY <1>0, <3>2, <3>4
  <2> QED  BY <2>0, <2>1, <2>2
<1> QED  BY <1>3, <1>4, <1>5, <1>6, <1>7 DEF u, s

\* A whole merge: if t lists the occurrences O and L the occurrences B and X,
\* those of B in its first base strings and also in O, those of X at places
\* after all of O, then the merged table lists O and X.
LEMMA MergeLists ==
    ASSUME NEW S, NEW t \in Seq(S), NEW L \in Seq(S), NEW R \in Seq(S),
           NEW base \in 0 .. Len(L), NEW O, NEW B \in SUBSET O, NEW X,
           ListsByOccurrence(t, O), ListsByOccurrence(L, B \cup X),
           {L[i] : i \in 1 .. base} = {o.text : o \in B},
           \A o \in O, x \in X : Precedes(o.at, x.at),
           MergedUpTo(R, t, L, base, Len(L) - base)
    PROVE  ListsByOccurrence(R, O \cup X)
<1> DEFINE New == base + 1 .. base + (Len(L) - base)
<1>0. /\ New = base + 1 .. Len(L)
      /\ \A i \in DOMAIN L : i \in 1 .. base \/ i \in New
      /\ \A a \in New : a \in DOMAIN L /\ a \notin 1 .. base
  OBVIOUS
<1>1. /\ NoDuplicates(t)
      /\ \A i \in DOMAIN t : \E o \in O : o.text = t[i]
      /\ \A o \in O : \E i \in DOMAIN t : t[i] = o.text
      /\ \A i, j \in DOMAIN t : i < j =>
            \E o \in O :
                /\ o.text = t[i]
                /\ \A q \in O : q.text = t[j] => Precedes(o.at, q.at)
  BY ListingFacts, Zenon
<1>2. /\ NoDuplicates(L)
      /\ \A i \in DOMAIN L : \E o \in B \cup X : o.text = L[i]
      /\ \A o \in B \cup X : \E i \in DOMAIN L : L[i] = o.text
      /\ \A i, j \in DOMAIN L : i < j =>
            \E o \in B \cup X :
                /\ o.text = L[i]
                /\ \A q \in B \cup X : q.text = L[j] => Precedes(o.at, q.at)
  <2> DEFINE BX == B \cup X
  <2>1. ListsByOccurrence(L, BX)
    OBVIOUS
  <2> HIDE DEF BX
  <2>2. /\ NoDuplicates(L)
        /\ \A i \in DOMAIN L : \E o \in BX : o.text = L[i]
        /\ \A o \in BX : \E i \in DOMAIN L : L[i] = o.text
        /\ \A i, j \in DOMAIN L : i < j =>
              \E o \in BX :
                  /\ o.text = L[i]
                  /\ \A q \in BX : q.text = L[j] => Precedes(o.at, q.at)
    BY <2>1, ListingFacts, Zenon
  <2> QED  BY <2>2 DEF BX
<1>3. ASSUME NEW a \in New, NEW o \in B PROVE o.text # L[a]
  <2>1. o.text \in {L[i] : i \in 1 .. base}
    OBVIOUS
  <2>2. PICK i \in 1 .. base : L[i] = o.text
    BY <2>1
  <2>3. i \in DOMAIN L
    OBVIOUS
  <2> QED  BY <1>0, <1>2, <2>2, <2>3 DEF NoDuplicates
<1>4. /\ NoDuplicates(R)
      /\ Len(t) <= Len(R) /\ \A i \in 1 .. Len(t) : R[i] = t[i]
      /\ \A i \in DOMAIN R : i > Len(t) => \E a \in New : R[i] = L[a]
      /\ \A a \in New : \E i \in DOMAIN R : R[i] = L[a]
      /\ \A i, j \in DOMAIN R : Len(t) < i /\ i < j =>
            \A a, b \in New : R[i] = L[a] /\ R[j] = L[b] => a < b
  BY DEF MergedUpTo
<1> HIDE DEF New
<1>5. /\ \A i \in DOMAIN t : i \in DOMAIN R /\ R[i] = t[i]
      /\ \A i \in DOMAIN R : i \in DOMAIN t \/ i > Len(t)
      /\ \A i \in DOMAIN t, j \in DOMAIN R : j > Len(t) => R[j] # t[i]
  <2>1. /\ \A i \in DOMAIN t : i \in DOMAIN R /\ R[i] = t[i] /\ ~(i > Len(t))
        /\ \A i \in DOMAIN R : i \in DOMAIN t \/ i > Len(t)
    <3>1. Len(t) <= Len(R) /\ \A i \in 1 .. Len(t) : R[i] = t[i]
      BY <1>4
    <3> QED  BY ONLY <3>1, t \in Seq(S), R \in Seq(S)
  <2> QED  BY <1>4, <2>1 DEF NoDuplicates
\* What the new strings are.
<1>6. ASSUME NEW j \in DOMAIN R, j > Len(t), NEW o \in O PROVE o.text # R[j]
  BY <1>1, <1>5, <1>6
<1>7. {R[i] : i \in DOMAIN R} = {o.text : o \in O \cup X}
  <2>1. ASSUME NEW i \in DOMAIN R PROVE \E o \in O \cup X : R[i] = o.text
    <3>1. CASE i \in DOMAIN t
      BY <1>1, <1>5, <3>1
    <3>2. CASE i > Len(t)
      <4>1. PICK a \in New : R[i] = L[a]
        BY <1>4, <3>2
      <4>2. PICK o \in B \cup X : o.text = L[a]
        BY <1>0, <1>2
      <4> QED  BY <4>1, <4>2
    <3> QED  BY <1>5, <3>1, <3>2
  <2>2. ASSUME NEW o \in O \cup X PROVE \E i \in DOMAIN R : R[i] = o.text
    <3>1. CASE o \in O
      BY <1>1, <1>5, <3>1
    <3>2. CASE o \in X
      <4>1. PICK i \in DOMAIN L : L[i] = o.text
        BY <1>2, <3>2
      <4>2. CASE i \in New
        BY <1>4, <4>1, <4>2
      <4>3. CASE i \in 1 .. base
        <5>1. o.text \in {L[n] : n \in 1 .. base}
          BY <4>1, <4>3
        <5>2. o.text \in {q.text : q \in B}
          BY <5>1
        <5>3. PICK q \in B : o.text = q.text
          BY ONLY <5>2
        <5> QED  BY <1>1, <1>5, <5>3
      <4> QED  BY <1>0, <4>2, <4>3
    <3> QED  BY <3>1, <3>2
  <2> QED  BY <2>1, <2>2
<1>8. ASSUME NEW i \in DOMAIN R, NEW j \in DOMAIN R, i < j
      PROVE  \E o \in O \cup X :
                 /\ o.text = R[i]
                 /\ \A q \in O \cup X : q.text = R[j] => Precedes(o.at, q.at)
  <2>1. CASE j \in DOMAIN t
    <3>1. i \in DOMAIN t
      BY <1>5, <1>8, <2>1
    <3>2. PICK o \in O :
              /\ o.text = t[i]
              /\ \A q \in O : q.text = t[j] => Precedes(o.at, q.at)
      BY <1>1, <1>8, <2>1, <3>1
    <3> QED  BY <1>5, <2>1, <3>1, <3>2
  <2>2. CASE i \in DOMAIN t /\ j > Len(t)
    <3>1. PICK o \in O : o.text = t[i]
      BY <1>1, <2>2
    <3> QED  BY <1>5, <1>6, <2>2, <3>1
  <2>3. CASE i > Len(t) /\ j > Len(t)
    <3>1. PICK a \in New : R[i] = L[a]
      BY <1>4, <2>3
    <3>2. PICK b \in New : R[j] = L[b]
      BY <1>4, <2>3
    <3>3. a < b
      BY <1>4, <1>8, <2>3, <3>1, <3>2
    <3>4. PICK o \in B \cup X :
              /\ o.text = L[a]
              /\ \A q \in B \cup X : q.text = L[b] => Precedes(o.at, q.at)
      <4>1. a \in DOMAIN L /\ b \in DOMAIN L
        BY <1>0
      <4> QED  BY <1>2, <3>3, <4>1
    <3>5. o \in X
      BY <1>3, <3>4
    <3>6. ASSUME NEW q \in O \cup X, q.text = R[j] PROVE Precedes(o.at, q.at)
      <4>1. q \in X
        BY <1>6, <2>3, <3>6
      <4> QED  BY <3>2, <3>4, <3>6, <4>1
    <3> QED  BY <3>1, <3>4, <3>5, <3>6
  <2>4. CASE i > Len(t) /\ j \in DOMAIN t
    BY <1>8, <2>4
  <2> QED  BY <1>5, <2>1, <2>2, <2>3, <2>4
<1> QED  BY <1>4, <1>7, <1>8 DEF ListsByOccurrence
=============================================================================
