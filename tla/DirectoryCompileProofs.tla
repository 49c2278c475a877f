----------------------- MODULE DirectoryCompileProofs -----------------------
(***************************************************************************)
(* Proofs about the compilation of a directory, for every set of modules,  *)
(* texts and paths: the module graph and its waves (CompileWaves), for     *)
(* every sequence of import facts; then the tasks of the waves and the     *)
(* merge of their results (DirectoryCompile).                              *)
(*                                                                         *)
(* The invariant has four parts.  The graph's says that the waves peeled   *)
(* so far hold the modules whose providers they hold.  WaveInv follows the *)
(* waves: a task has begun only in the current wave or an earlier one, and *)
(* the earlier ones have ended.  TaskInv says what a task's table lists:   *)
(* the build's strings and those of the text read so far.  MergeInv says   *)
(* the same of the merged table, and that results are taken by path.       *)
(***************************************************************************)
EXTENDS DirectoryCompile, CommonLemmas

-----------------------------------------------------------------------------
(* The module graph and its waves *)

Scheduled == UNION {waves[k] : k \in DOMAIN waves}

\* The types of the variables, but for remaining, whose values need the
\* counting invariant to be natural numbers.
EdgeTypes ==
    /\ observed \in Seq(Edge)
    /\ phase \in {"edges", "peel", "waves", "cycle"}
    /\ facts \subseteq DOMAIN observed
    /\ providers \in [Modules -> SUBSET Modules]
    /\ consumers \in [Modules -> SUBSET Modules]
    /\ location \in [Modules -> [Modules -> Nat]]

\* The two adjacency lists are the same relation.
Mirrored == \A p, c \in Modules : c \in consumers[p] <=> p \in providers[c]

\* The merged facts come before the others in the sorted list.
MergedInOrder ==
    \A i \in DOMAIN observed \ facts : \A j \in facts : SortedBefore(i, j)

EdgeInv ==
    /\ EdgeTypes
    /\ Mirrored
    /\ MergedInOrder
    /\ EdgesKeepTheirFirstLocation

\* What is still counted for a module are the providers not scheduled, and
\* the next wave holds the modules that have none.
Counted ==
    /\ remaining = [m \in Modules |-> Cardinality(providers[m] \ Scheduled)]
    /\ ready = {m \in Modules \ Scheduled : providers[m] \subseteq Scheduled}
    /\ processed = Cardinality(Scheduled)

WavesDisjoint ==
    \A j, k \in DOMAIN waves : j # k => waves[j] \cap waves[k] = {}

\* No module of a deadlocked set was scheduled.
DeadlockedWait ==
    \A S \in SUBSET Modules : Deadlocked(S) => S \cap Scheduled = {}

\* Every module of the next wave was waiting for the last one.
ReadyWaited ==
    waves # << >> =>
        \A m \in ready : providers[m] \cap waves[Len(waves)] # {}

PeelInv ==
    /\ waves \in Seq(SUBSET Modules)
    /\ remaining \in [Modules -> Nat]
    /\ ready \subseteq Modules
    /\ processed \in Nat
    /\ phase = "edges" => waves = << >> /\ ready = {} /\ processed = 0
    /\ phase # "edges" => Counted
    /\ phase = "waves" => ready = {} /\ ~(processed < ModuleCount)
    /\ phase = "cycle" => ready = {} /\ processed < ModuleCount
    /\ ProvidersComeFirst
    /\ WavesDisjoint
    /\ DeadlockedWait
    /\ WavesAreEarliest
    /\ ReadyWaited

GraphInv == EdgeInv /\ PeelInv
-----------------------------------------------------------------------------
\* There are finitely many modules, so every set of modules can be counted.
LEMMA ModulesFinite ==
    /\ IsFiniteSet(Modules) /\ Cardinality(Modules) = ModuleCount
    /\ \A S \in SUBSET Modules : IsFiniteSet(S) /\ Cardinality(S) \in Nat
<1>1. IsFiniteSet(Modules) /\ Cardinality(Modules) = ModuleCount
  <2>1. 0 \in Int /\ ModuleCount - 1 \in Int /\ ~(0 > ModuleCount - 1)
        /\ (ModuleCount - 1) - 0 + 1 = ModuleCount
    BY GraphAssumption
  <2> QED  BY <2>1, FS_Interval DEF Modules
<1>2. \A S \in SUBSET Modules : IsFiniteSet(S) /\ Cardinality(S) \in Nat
  BY <1>1, FS_Subset, FS_CardinalityType
<1> QED  BY <1>1, <1>2

\* The initial state satisfies the invariant.
LEMMA InitInv == GraphInit => GraphInv
<1> SUFFICES ASSUME GraphInit PROVE GraphInv
  OBVIOUS
<1> USE DEF GraphInit
<1>1. EdgeTypes
  BY GraphAssumption DEF EdgeTypes
<1>2. Mirrored /\ MergedInOrder
  BY DEF Mirrored, MergedInOrder
<1>3. EdgesKeepTheirFirstLocation
  BY DEF EdgesKeepTheirFirstLocation, FirstLocationKept, Asked
<1>4. waves \in Seq(SUBSET Modules) /\ DOMAIN waves = {} /\ Len(waves) = 0
  OBVIOUS
<1>5. Scheduled = {}
  BY <1>4 DEF Scheduled
<1>6. PeelInv
  BY <1>4, <1>5 DEF PeelInv, ProvidersComeFirst, WavesDisjoint,
     DeadlockedWait, WavesAreEarliest, ReadyWaited
<1> QED  BY <1>1, <1>2, <1>3, <1>6 DEF GraphInv, EdgeInv

\* Merging a fact keeps the adjacency lists and the locations right.
LEMMA MergeFactInv ==
    ASSUME GraphInv, NEW i \in facts, MergeFact(i)
    PROVE  GraphInv'
<1> DEFINE p == observed[i].provider
           c == observed[i].consumer
<1> USE DEF GraphInv, EdgeInv, EdgeTypes
<1>1. /\ i \in DOMAIN observed /\ observed[i] \in Edge
      /\ p \in Modules /\ c \in Modules /\ i \in Nat
      /\ observed[i] = [provider |-> p, consumer |-> c]
  <2>1. i \in DOMAIN observed /\ DOMAIN observed \subseteq Nat
        /\ observed[i] \in Edge
    OBVIOUS
  <2> QED  BY <2>1 DEF Edge
<1>2. /\ facts' = facts \ {i} /\ observed' = observed
      /\ providers' = [providers EXCEPT ![c] = @ \cup {p}]
      /\ consumers' = [consumers EXCEPT ![p] = @ \cup {c}]
      /\ location' = IF p \in providers[c] THEN location
                     ELSE [location EXCEPT ![p][c] = i]
      /\ UNCHANGED <<phase, remaining, ready, waves, processed>>
      /\ phase = "edges"
      /\ \A j \in facts \ {i} : SortedBefore(i, j)
  BY DEF MergeFact
<1>3. EdgeTypes'
  BY <1>1, <1>2
<1>4. Mirrored'
  BY <1>1, <1>2 DEF Mirrored
<1>5. MergedInOrder'
  <2>0. observed' = observed /\ facts' = facts \ {i}
        /\ \A j \in facts \ {i} : SortedBefore(i, j)
    BY <1>2
  <2> SUFFICES ASSUME NEW a \in (DOMAIN observed \ facts)', NEW b \in facts'
               PROVE  SortedBefore(a, b)'
    BY DEF MergedInOrder
  <2> SUFFICES SortedBefore(a, b)
    BY <2>0 DEF SortedBefore
  <2>1. b \in facts \ {i} /\ (a = i \/ a \in DOMAIN observed \ facts)
    BY <2>0
  <2> QED  BY <2>0, <2>1 DEF MergedInOrder
<1>6. EdgesKeepTheirFirstLocation'
  <2> SUFFICES ASSUME NEW q \in Modules, NEW d \in Modules
               PROVE  FirstLocationKept(q, d)'
    BY DEF EdgesKeepTheirFirstLocation
  <2> DEFINE E == [provider |-> q, consumer |-> d]
             before == Asked(q, d)
             after == Asked(q, d)'
  <2>0. /\ before = {j \in DOMAIN observed \ facts : observed[j] = E}
        /\ after = {j \in DOMAIN observed \ facts' : observed[j] = E}
    BY <1>2 DEF Asked
  <2>1. /\ q \in providers[d] <=> before # {}
        /\ before # {} => /\ location[q][d] \in before
                          /\ \A j \in before : location[q][d] <= j
    BY DEF EdgesKeepTheirFirstLocation, FirstLocationKept
  <2> HIDE DEF before, after
  <2>2. CASE observed[i] = E
    <3>1. q = p /\ d = c
      BY <2>2, <1>1
    <3>2. after = before \cup {i}
      BY <2>0, <2>2, <1>1, <1>2
    <3>3. q \in providers'[d]
      BY <3>1, <1>1, <1>2
    <3>4. CASE before = {}
      <4>1. location'[q][d] = i
        BY <3>4, <3>1, <2>1, <1>1, <1>2
      <4> QED  BY <4>1, <3>2, <3>3, <3>4, <1>1 DEF FirstLocationKept, after
    <3>5. CASE before # {}
      <4>1. location' = location
        BY <3>5, <3>1, <2>1, <1>2
      <4>2. \A j \in before : SortedBefore(j, i)
        BY <2>0 DEF MergedInOrder
      <4>3. \A j \in before : j <= i
        <5> SUFFICES ASSUME NEW j \in before PROVE j <= i
          OBVIOUS
        <5>1. observed[j] = observed[i] /\ j \in Nat
          BY <2>0, <2>2, <1>1
        <5>2. p \in Int /\ c \in Int
          BY <1>1, GraphAssumption DEF Modules
        <5>3. ~(observed[i].consumer < observed[i].consumer)
              /\ ~(observed[i].provider < observed[i].provider)
          BY <5>2
        <5>4. j < i
          BY <4>2, <5>1, <5>3 DEF SortedBefore
        <5> QED  BY <5>1, <5>4, <1>1
      <4> QED  BY <4>1, <4>3, <3>2, <3>3, <3>5, <2>1
               DEF FirstLocationKept, after
    <3> QED  BY <3>4, <3>5
  <2>3. CASE observed[i] # E
    <3>1. after = before
      BY <2>0, <2>3, <1>1, <1>2
    <3>2. ~(q = p /\ d = c)
      BY <2>3, <1>1
    <3>3. q \in providers'[d] <=> q \in providers[d]
      BY <3>2, <1>1, <1>2
    <3>4. location'[q][d] = location[q][d]
      BY <3>2, <1>1, <1>2
    <3> QED  BY <3>1, <3>3, <3>4, <2>1 DEF FirstLocationKept, after
  <2> QED  BY <2>2, <2>3
<1>7. PeelInv'
  <2>1. waves = << >> /\ DOMAIN waves = {} /\ Len(waves) = 0
    BY <1>2 DEF PeelInv
  <2>2. Scheduled' = {}
    BY <2>1, <1>2 DEF Scheduled
  <2>3. /\ waves' = << >> /\ DOMAIN waves' = {} /\ Len(waves') = 0
        /\ UNCHANGED <<phase, remaining, ready, processed>> /\ phase = "edges"
    BY <2>1, <1>2
  <2>4. ProvidersComeFirst' /\ WavesDisjoint' /\ WavesAreEarliest'
    BY <2>3 DEF ProvidersComeFirst, WavesDisjoint, WavesAreEarliest
  <2>5. DeadlockedWait' /\ ReadyWaited'
    BY <2>2, <2>3 DEF DeadlockedWait, ReadyWaited
  <2> QED  BY <2>3, <2>4, <2>5 DEF PeelInv
<1> QED  BY <1>3, <1>4, <1>5, <1>6, <1>7

\* Starting the peel counts the providers of every module.
LEMMA StartPeelInv ==
    ASSUME GraphInv, StartPeel
    PROVE  GraphInv'
<1> USE DEF GraphInv
<1>1. /\ phase = "edges" /\ phase' = "peel"
      /\ remaining' = [m \in Modules |-> Cardinality(providers[m])]
      /\ ready' = {m \in Modules : remaining'[m] = 0}
      /\ UNCHANGED <<observed, facts, providers, consumers, location, waves,
                     processed>>
  BY DEF StartPeel
<1>2. EdgeInv'
  BY <1>1 DEF EdgeInv, EdgeTypes, Mirrored, MergedInOrder, SortedBefore,
              EdgesKeepTheirFirstLocation, FirstLocationKept, Asked
<1>3. waves = << >> /\ DOMAIN waves = {} /\ Len(waves) = 0 /\ processed = 0
  BY <1>1 DEF PeelInv
<1>4. Scheduled' = {}
  BY <1>1, <1>3 DEF Scheduled
<1>5. \A m \in Modules : /\ IsFiniteSet(providers[m])
                         /\ Cardinality(providers[m]) \in Nat
                         /\ Cardinality(providers[m]) = 0 <=> providers[m] = {}
  BY ModulesFinite, FS_EmptySet DEF EdgeInv, EdgeTypes
<1>6. Counted'
  <2>1. remaining' = [m \in Modules |-> Cardinality(providers'[m] \ Scheduled')]
    BY <1>1, <1>4
  <2>2. ready' = {m \in Modules \ Scheduled' : providers'[m] \subseteq Scheduled'}
    BY <1>1, <1>4, <1>5
  <2> QED  BY <2>1, <2>2, <1>1, <1>3, <1>4, FS_EmptySet DEF Counted
<1>7. PeelInv'
  BY <1>1, <1>3, <1>4, <1>5, <1>6 DEF PeelInv, ProvidersComeFirst,
     WavesDisjoint, DeadlockedWait, WavesAreEarliest, ReadyWaited
<1> QED  BY <1>2, <1>7

\* Scheduled modules have scheduled providers only.
LEMMA ScheduledClosed ==
    ASSUME GraphInv, NEW m \in Scheduled
    PROVE  providers[m] \subseteq Scheduled
BY DEF GraphInv, PeelInv, ProvidersComeFirst, Scheduled

\* Peeling a wave keeps the counts right and the waves in order.
LEMMA PeelWaveInv ==
    ASSUME GraphInv, PeelWave
    PROVE  GraphInv'
<1> DEFINE n == Len(waves)
<1>1. /\ phase = "peel" /\ ready # {}
      /\ waves' = Append(waves, ready)
      /\ remaining' = [m \in Modules |->
                          remaining[m] - Cardinality(Released(m))]
      /\ ready' = {m \in Modules : Released(m) # {} /\ remaining'[m] = 0}
      /\ processed' = processed + Cardinality(ready)
      /\ UNCHANGED <<observed, phase, facts, providers, consumers, location>>
  BY DEF PeelWave
<1>2. EdgeInv'
  BY <1>1 DEF GraphInv, EdgeInv, EdgeTypes, Mirrored, MergedInOrder,
              SortedBefore, EdgesKeepTheirFirstLocation, FirstLocationKept, Asked
<1>3. /\ Counted /\ waves \in Seq(SUBSET Modules) /\ ready \subseteq Modules
      /\ processed \in Nat /\ providers \in [Modules -> SUBSET Modules]
      /\ ready \cap Scheduled = {}
      /\ \A m \in ready : providers[m] \subseteq Scheduled
  BY <1>1 DEF GraphInv, PeelInv, EdgeInv, EdgeTypes, Counted
<1>4. /\ waves' \in Seq(SUBSET Modules)
      /\ n \in Nat /\ Len(waves') = n + 1
      /\ DOMAIN waves' = DOMAIN waves \cup {n + 1} /\ n + 1 \notin DOMAIN waves
      /\ waves'[n + 1] = ready
      /\ \A k \in DOMAIN waves : waves'[k] = waves[k]
      /\ DOMAIN waves = 1 .. n
  BY <1>1, <1>3
<1>5. Scheduled' = Scheduled \cup ready
  BY <1>4 DEF Scheduled
<1>6. Scheduled \subseteq Modules
  BY <1>3 DEF Scheduled
<1>7. \A m \in Modules : Released(m) = providers[m] \cap ready
  BY <1>3 DEF Released, GraphInv, EdgeInv, Mirrored
<1>8. \A m \in Modules :
          remaining'[m] = Cardinality(providers[m] \ Scheduled')
  <2> SUFFICES ASSUME NEW m \in Modules
               PROVE remaining'[m] = Cardinality(providers[m] \ Scheduled')
    OBVIOUS
  <2> DEFINE W == providers[m] \ Scheduled
  <2>1. W \in SUBSET Modules /\ IsFiniteSet(W)
    BY <1>3, ModulesFinite
  <2>2. W \ Released(m) = providers[m] \ Scheduled' /\ W \cap Released(m) = Released(m)
    BY <1>3, <1>5, <1>7
  <2>3. Cardinality(W \ Released(m)) =
            Cardinality(W) - Cardinality(W \cap Released(m))
    BY <2>1, FS_Difference
  <2>4. remaining[m] = Cardinality(W)
    BY <1>3 DEF Counted
  <2> QED  BY <1>1, <2>2, <2>3, <2>4
<1>9. \A m \in Modules :
          /\ Cardinality(providers[m] \ Scheduled') \in Nat
          /\ Cardinality(providers[m] \ Scheduled') = 0
                <=> providers[m] \subseteq Scheduled'
  <2> SUFFICES ASSUME NEW m \in Modules
               PROVE  /\ Cardinality(providers[m] \ Scheduled') \in Nat
                      /\ Cardinality(providers[m] \ Scheduled') = 0
                            <=> providers[m] \subseteq Scheduled'
    OBVIOUS
  <2>1. providers[m] \ Scheduled' \in SUBSET Modules
    BY <1>3
  <2> QED  BY <2>1, ModulesFinite, FS_EmptySet
<1>10. ready' = {m \in Modules \ Scheduled' : providers[m] \subseteq Scheduled'}
  <2>1. ASSUME NEW m \in Modules, Released(m) # {}, remaining'[m] = 0
        PROVE  m \notin Scheduled' /\ providers[m] \subseteq Scheduled'
    <3>1. PICK p \in providers[m] : p \in ready
      BY <2>1, <1>7
    <3>2. p \notin Scheduled
      BY <3>1, <1>3
    <3>3. m \notin Scheduled
      BY <3>1, <3>2, ScheduledClosed
    <3>4. m \notin ready
      BY <3>1, <3>2, <1>3
    <3> QED  BY <3>3, <3>4, <2>1, <1>5, <1>8, <1>9
  <2>2. ASSUME NEW m \in Modules \ Scheduled', providers[m] \subseteq Scheduled'
        PROVE  Released(m) # {} /\ remaining'[m] = 0
    <3>1. remaining'[m] = 0
      BY <2>2, <1>8, <1>9
    <3>2. m \notin Scheduled /\ m \notin ready
      BY <2>2, <1>5
    <3>3. ~(providers[m] \subseteq Scheduled)
      BY <3>2, <1>3 DEF Counted
    <3> QED  BY <3>1, <3>3, <2>2, <1>5, <1>7
  <2> QED  BY <2>1, <2>2, <1>1
<1>11. processed' = Cardinality(Scheduled') /\ processed' \in Nat
  <2>1. IsFiniteSet(Scheduled) /\ IsFiniteSet(ready)
        /\ Cardinality(Scheduled) \in Nat /\ Cardinality(ready) \in Nat
    BY <1>3, <1>6, ModulesFinite
  <2>2. Cardinality(Scheduled \cup ready) =
            Cardinality(Scheduled) + Cardinality(ready)
              - Cardinality(Scheduled \cap ready)
    BY <2>1, FS_Union
  <2>3. Cardinality(Scheduled \cap ready) = 0
    <3>1. Scheduled \cap ready = {}
      BY <1>3
    <3> QED  BY <3>1, FS_EmptySet
  <2>4. Cardinality(Scheduled \cup ready) =
            Cardinality(Scheduled) + Cardinality(ready)
    BY <2>1, <2>2, <2>3
  <2>5. processed = Cardinality(Scheduled)
    BY <1>3 DEF Counted
  <2> QED  BY <2>1, <2>4, <2>5, <1>1, <1>5
<1>12. Counted' /\ remaining' \in [Modules -> Nat] /\ ready' \subseteq Modules
  <2>1. remaining' = [m \in Modules |-> Cardinality(providers'[m] \ Scheduled')]
    BY <1>1, <1>8
  <2>2. ready' = {m \in Modules \ Scheduled' : providers'[m] \subseteq Scheduled'}
    BY <1>1, <1>10
  <2>3. Counted'
    BY <2>1, <2>2, <1>11 DEF Counted
  <2>4. remaining' \in [Modules -> Nat]
    BY <1>1, <1>8, <1>9
  <2> QED  BY <2>2, <2>3, <2>4
<1>13. ProvidersComeFirst'
  <2> SUFFICES ASSUME NEW k \in DOMAIN waves', NEW m \in waves'[k],
                      NEW p \in providers[m]
               PROVE  \E j \in 1 .. k - 1 : p \in waves'[j]
    BY <1>1 DEF ProvidersComeFirst
  <2>1. CASE k = n + 1
    <3>1. PICK j \in DOMAIN waves : p \in waves[j]
      BY <2>1, <1>3, <1>4 DEF Scheduled
    <3> QED  BY <3>1, <2>1, <1>4
  <2>2. CASE k \in DOMAIN waves
    <3>1. PICK j \in 1 .. k - 1 : p \in waves[j]
      BY <2>2, <1>4 DEF GraphInv, PeelInv, ProvidersComeFirst
    <3> QED  BY <3>1, <2>2, <1>4
  <2> QED  BY <2>1, <2>2, <1>4
<1>14. WavesDisjoint'
  <2>1. \A j \in DOMAIN waves : waves[j] \cap ready = {}
    BY <1>3 DEF Scheduled
  <2> QED  BY <2>1, <1>4 DEF WavesDisjoint, GraphInv, PeelInv
<1>15. DeadlockedWait'
  <2> SUFFICES ASSUME NEW S \in SUBSET Modules, Deadlocked(S)'
               PROVE  S \cap Scheduled' = {}
    BY DEF DeadlockedWait
  <2>1. Deadlocked(S) /\ S \cap Scheduled = {}
    BY <1>1 DEF Deadlocked, DeadlockedWait, GraphInv, PeelInv
  <2>2. S \cap ready = {}
    BY <2>1, <1>3 DEF Deadlocked
  <2> QED  BY <2>1, <2>2, <1>5
<1>16. WavesAreEarliest' /\ ReadyWaited'
  <2>1. WavesAreEarliest'
    <3> SUFFICES ASSUME NEW k \in 2 .. Len(waves'), NEW m \in waves'[k]
                 PROVE  providers[m] \cap waves'[k - 1] # {}
      BY <1>1 DEF WavesAreEarliest
    <3>1. CASE k = n + 1
      <4>1. waves # << >> /\ k - 1 = n /\ n \in DOMAIN waves
        BY <3>1, <1>4
      <4> QED  BY <4>1, <3>1, <1>4 DEF GraphInv, PeelInv, ReadyWaited
    <3>2. CASE k \in 2 .. n
      <4>1. k \in 2 .. Len(waves) /\ k \in 1 .. n /\ k - 1 \in 1 .. n
        BY <3>2, <1>4
      <4>2. waves'[k] = waves[k] /\ waves'[k - 1] = waves[k - 1]
        BY <1>4, <4>1
      <4> QED  BY <4>1, <4>2 DEF GraphInv, PeelInv, WavesAreEarliest
    <3> QED  BY <3>1, <3>2, <1>4
  <2>2. ReadyWaited'
    BY <1>1, <1>4, <1>7 DEF ReadyWaited
  <2> QED  BY <2>1, <2>2
<1>17. PeelInv'
  BY <1>1, <1>4, <1>11, <1>12, <1>13, <1>14, <1>15, <1>16 DEF PeelInv
<1> QED  BY <1>2, <1>17 DEF GraphInv

\* Returning changes the phase only.
LEMMA FinishPeelInv ==
    ASSUME GraphInv, FinishPeel
    PROVE  GraphInv'
<1>1. /\ phase = "peel" /\ ready = {}
      /\ phase' = IF processed < ModuleCount THEN "cycle" ELSE "waves"
      /\ UNCHANGED <<observed, facts, providers, consumers, location,
                     remaining, ready, waves, processed>>
  BY DEF FinishPeel
<1>2. Scheduled' = Scheduled
  BY <1>1 DEF Scheduled
<1>3. EdgeInv'
  BY <1>1 DEF GraphInv, EdgeInv, EdgeTypes, Mirrored, MergedInOrder,
              SortedBefore, EdgesKeepTheirFirstLocation, FirstLocationKept, Asked
<1>4. Counted'
  BY <1>1, <1>2 DEF GraphInv, PeelInv, Counted
<1>5. ProvidersComeFirst' /\ WavesDisjoint' /\ DeadlockedWait'
      /\ WavesAreEarliest' /\ ReadyWaited'
  BY <1>1, <1>2 DEF GraphInv, PeelInv, ProvidersComeFirst, WavesDisjoint,
     DeadlockedWait, Deadlocked, WavesAreEarliest, ReadyWaited
<1> QED  BY <1>1, <1>3, <1>4, <1>5 DEF GraphInv, PeelInv

\* A stuttering step keeps the invariant.
LEMMA StutterInv ==
    ASSUME GraphInv, UNCHANGED graphVars
    PROVE  GraphInv'
<1>1. UNCHANGED <<observed, phase, facts, providers, consumers, location,
                  remaining, ready, waves, processed>>
  BY DEF graphVars
<1>2. Scheduled' = Scheduled
  BY <1>1 DEF Scheduled
<1>3. EdgeInv'
  BY <1>1 DEF GraphInv, EdgeInv, EdgeTypes, Mirrored, MergedInOrder,
              SortedBefore, EdgesKeepTheirFirstLocation, FirstLocationKept, Asked
<1>4. Counted' \/ phase = "edges"
  BY <1>1, <1>2 DEF GraphInv, PeelInv, Counted
<1>5. ProvidersComeFirst' /\ WavesDisjoint' /\ DeadlockedWait'
      /\ WavesAreEarliest' /\ ReadyWaited'
  BY <1>1, <1>2 DEF GraphInv, PeelInv, ProvidersComeFirst, WavesDisjoint,
     DeadlockedWait, Deadlocked, WavesAreEarliest, ReadyWaited
<1> QED  BY <1>1, <1>3, <1>4, <1>5 DEF GraphInv, PeelInv

LEMMA GraphStepInv == GraphInv /\ GraphNext => GraphInv'
BY MergeFactInv, StartPeelInv, PeelWaveInv, FinishPeelInv DEF GraphNext

\* The invariant holds throughout the merge of the facts and the peel.
THEOREM GraphInvariant == GraphSpec => []GraphInv
<1>1. GraphInit => GraphInv
  BY InitInv
<1>2. GraphInv /\ [GraphNext \/ GraphReturned]_graphVars => GraphInv'
  BY GraphStepInv, StutterInv DEF GraphReturned
<1> QED  BY <1>1, <1>2, PTL DEF GraphSpec
-----------------------------------------------------------------------------
\* Types are respected; in particular no count of remaining providers is ever
\* decremented below zero.
THEOREM GraphTypesHold == GraphSpec => []GraphTypeOK
<1>1. GraphInv => GraphTypeOK
  BY DEF GraphInv, EdgeInv, EdgeTypes, PeelInv, GraphTypeOK
<1> QED  BY <1>1, GraphInvariant, PTL

\* In every project, a module's providers are in earlier waves than it is.
THEOREM ProvidersComeFirstHolds == GraphSpec => []ProvidersComeFirst
<1>1. GraphInv => ProvidersComeFirst
  BY DEF GraphInv, PeelInv
<1> QED  BY <1>1, GraphInvariant, PTL

\* Waves are returned when as many modules are scheduled as there are.
LEMMA ReturnedWavesHoldAll ==
    ASSUME GraphInv, phase = "waves"
    PROVE  Scheduled = Modules
<1>1. Scheduled \in SUBSET Modules
  BY DEF GraphInv, PeelInv, Scheduled
<1>2. processed = Cardinality(Scheduled) /\ ~(processed < ModuleCount)
  BY DEF GraphInv, PeelInv, Counted
<1>3. Cardinality(Scheduled) <= Cardinality(Modules)
      /\ (Cardinality(Modules) = Cardinality(Scheduled) => Modules = Scheduled)
  BY <1>1, ModulesFinite, FS_Subset
<1> QED  BY <1>1, <1>2, <1>3, ModulesFinite, GraphAssumption

\* Every module is scheduled once when waves are returned.
THEOREM ModulesCompileOnceHolds == GraphSpec => []ModulesCompileOnce
<1>1. ASSUME GraphInv PROVE ModulesCompileOnce
  <2>1. WavesDisjoint
    BY <1>1 DEF GraphInv, PeelInv
  <2> QED  BY <1>1, <2>1, ReturnedWavesHoldAll
           DEF ModulesCompileOnce, WavesDisjoint, Scheduled
<1> QED  BY <1>1, GraphInvariant, PTL

\* A cycle is reported exactly when the imports have one, with the modules it
\* keeps from compiling.
THEOREM CyclesAreReportedHolds == GraphSpec => []CyclesAreReported
<1>1. ASSUME GraphInv, ModulesCompileOnce PROVE CyclesAreReported
  <2>1. (DeadlockedWait /\ Counted) \/ phase \notin {"waves", "cycle"}
    BY <1>1 DEF GraphInv, PeelInv
  <2>2. ASSUME phase = "waves", NEW S \in SUBSET Modules, Deadlocked(S)
        PROVE  S = {}
    BY <1>1, <2>1, <2>2 DEF DeadlockedWait, ModulesCompileOnce, Scheduled
  <2>3. ASSUME phase = "cycle"
        PROVE  LET blocked == {m \in Modules : remaining[m] > 0}
               IN  /\ blocked # {} /\ Deadlocked(blocked)
                   /\ \A S \in SUBSET Modules :
                         Deadlocked(S) => S \subseteq blocked
    <3> DEFINE blocked == {m \in Modules : remaining[m] > 0}
    <3>1. /\ ready = {} /\ processed < ModuleCount /\ Counted
          /\ providers \in [Modules -> SUBSET Modules]
          /\ Scheduled \in SUBSET Modules /\ DeadlockedWait
      BY <1>1, <2>3 DEF GraphInv, PeelInv, EdgeInv, EdgeTypes, Scheduled
    <3>2. \A m \in Modules : remaining[m] > 0 <=> ~(providers[m] \subseteq Scheduled)
      <4> SUFFICES ASSUME NEW m \in Modules
                   PROVE remaining[m] > 0 <=> ~(providers[m] \subseteq Scheduled)
        OBVIOUS
      <4>1. providers[m] \ Scheduled \in SUBSET Modules
        BY <3>1
      <4>2. /\ Cardinality(providers[m] \ Scheduled) \in Nat
            /\ Cardinality(providers[m] \ Scheduled) = 0
                  <=> providers[m] \ Scheduled = {}
        BY <4>1, ModulesFinite, FS_EmptySet
      <4> QED  BY <4>2, <3>1 DEF Counted
    <3>3. blocked = Modules \ Scheduled
      BY <1>1, <3>1, <3>2, ScheduledClosed DEF Counted
    <3>4. blocked # {}
      <4>1. processed = Cardinality(Scheduled) /\ processed # ModuleCount
        BY <3>1, GraphAssumption, ModulesFinite DEF Counted
      <4> QED  BY <4>1, <3>1, <3>3, ModulesFinite
    <3>5. Deadlocked(blocked)
      BY <3>1, <3>2, <3>3 DEF Deadlocked
    <3>6. \A S \in SUBSET Modules : Deadlocked(S) => S \subseteq blocked
      BY <3>1, <3>3 DEF DeadlockedWait
    <3> QED  BY <3>4, <3>5, <3>6
  <2> QED  BY <2>2, <2>3 DEF CyclesAreReported
<1> QED  BY <1>1, GraphInvariant, ModulesCompileOnceHolds, PTL

\* An edge is located at the first import that asked for it, in every order
\* in which discovery can have returned the facts.
THEOREM FirstLocationHolds == GraphSpec => []EdgesKeepTheirFirstLocation
<1>1. GraphInv => EdgesKeepTheirFirstLocation
  BY DEF GraphInv, EdgeInv
<1> QED  BY <1>1, GraphInvariant, PTL

\* No module is put off to a later wave than its imports require.
THEOREM WavesAreEarliestHolds == GraphSpec => []WavesAreEarliest
<1>1. GraphInv => WavesAreEarliest
  BY DEF GraphInv, PeelInv
<1> QED  BY <1>1, GraphInvariant, PTL

-----------------------------------------------------------------------------
(* What a merge of tables computes *)

(***************************************************************************)
(* A merge of L into t, from place from + 1 on, after its strings up to    *)
(* place k: the table, and a remap that gives every id of L so far an id   *)
(* of the same string.                                                     *)
(***************************************************************************)
MergeStates(S) ==
    [table : Seq(S),
     remap : [prefix : Nat, suffix : Seq(Nat), identity : BOOLEAN]]

RemapRight(acc, L, from, count) ==
    /\ acc.remap.prefix = from /\ Len(acc.remap.suffix) = count
    /\ \A i \in 1 .. count :
          /\ acc.remap.suffix[i] < Len(acc.table)
          /\ acc.table[acc.remap.suffix[i] + 1] = L[from + i]
    /\ acc.remap.identity =>
          \A i \in 1 .. count : acc.remap.suffix[i] = from + i - 1

MergeState(acc, S, t, L, from, k) ==
    /\ acc \in MergeStates(S)
    /\ MergedUpTo(acc.table, t, L, from, k - from)
    /\ RemapRight(acc, L, from, k - from)

\* One string more.
LEMMA MergeStringWorks ==
    ASSUME NEW S, NEW t \in Seq(S), NEW L \in Seq(S), NEW from \in Nat,
           NEW k \in from .. Len(L) - 1, NEW acc,
           NoDuplicates(L), MergeState(acc, S, t, L, from, k)
    PROVE  MergeState(MergeString(acc, L[k + 1]), S, t, L, from, k + 1)
<1> DEFINE s == L[k + 1]
           u == Intern(acc.table, s)
           id == IdOf(u, s)
           n == k - from
           new == MergeString(acc, s)
           suffix == acc.remap.suffix
<1>1. /\ n \in Nat /\ from + n = k /\ from + n < Len(L) /\ (k + 1) - from = n + 1
      /\ s \in S /\ acc.table \in Seq(S) /\ suffix \in Seq(Nat)
      /\ acc.remap \in [prefix : Nat, suffix : Seq(Nat), identity : BOOLEAN]
  BY DEF MergeState, MergeStates
<1>2. /\ u \in Seq(S) /\ Len(acc.table) <= Len(u)
      /\ \A i \in 1 .. Len(acc.table) : u[i] = acc.table[i]
      /\ id \in Nat /\ id < Len(u) /\ u[id + 1] = s
  <2> DEFINE old == acc.table
  <2>1. s \in S /\ old \in Seq(S)
    BY <1>1
  <2> HIDE DEF s, old
  <2>2. /\ Intern(old, s) \in Seq(S) /\ Len(old) <= Len(Intern(old, s))
        /\ \A i \in 1 .. Len(old) : Intern(old, s)[i] = old[i]
        /\ IdOf(Intern(old, s), s) \in Nat
        /\ IdOf(Intern(old, s), s) < Len(Intern(old, s))
        /\ Intern(old, s)[IdOf(Intern(old, s), s) + 1] = s
    BY <2>1, InternWorks
  <2> QED  BY <2>2 DEF old
<1>3. MergedUpTo(u, t, L, from, n + 1)
  <2>1. MergedUpTo(acc.table, t, L, from, n)
    BY DEF MergeState
  <2> HIDE DEF n
  <2>2. MergedUpTo(Intern(acc.table, L[from + n + 1]), t, L, from, n + 1)
    BY <1>1, <2>1, MergeGoesOn
  <2> QED  BY <1>1, <2>2
<1> HIDE DEF u, id, s, n
<1>4. new.table = u /\ new.remap = RemapNext(acc.remap, id)
      /\ new = [table |-> u, remap |-> RemapNext(acc.remap, id)]
  BY DEF MergeString, u, id
<1>5. /\ acc.remap.prefix = from /\ Len(suffix) = n
      /\ \A i \in 1 .. n :
            suffix[i] < Len(acc.table) /\ acc.table[suffix[i] + 1] = L[from + i]
      /\ acc.remap.identity => \A i \in 1 .. n : suffix[i] = from + i - 1
  BY DEF MergeState, RemapRight, n
<1> HIDE DEF new
<1>6. /\ new.remap \in [prefix : Nat, suffix : Seq(Nat), identity : BOOLEAN]
      /\ new.remap.prefix = from
      /\ Len(new.remap.suffix) = n + 1
      /\ \A i \in 1 .. n :
            new.remap.suffix[i] = suffix[i] /\ suffix[i] \in Nat
      /\ new.remap.suffix[n + 1] = id
      /\ new.remap.identity => acc.remap.identity /\ id = from + n
  <2> DEFINE old == acc.remap
  <2>1. old \in [prefix : Nat, suffix : Seq(Nat), identity : BOOLEAN] /\ id \in Nat
        /\ old.prefix = from /\ Len(old.suffix) = n
    BY <1>1, <1>2, <1>5
  <2> HIDE DEF old
  <2>2. /\ RemapNext(old, id)
                  \in [prefix : Nat, suffix : Seq(Nat), identity : BOOLEAN]
        /\ RemapNext(old, id).prefix = old.prefix
        /\ Len(RemapNext(old, id).suffix) = Len(old.suffix) + 1
        /\ \A i \in 1 .. Len(old.suffix) :
              /\ RemapNext(old, id).suffix[i] = old.suffix[i]
              /\ old.suffix[i] \in Nat
        /\ RemapNext(old, id).suffix[Len(old.suffix) + 1] = id
        /\ RemapNext(old, id).identity =>
              old.identity /\ id = old.prefix + Len(old.suffix)
    BY <2>1, RemapGrows
  <2>3. new.remap = RemapNext(old, id)
    BY <1>4 DEF old
  <2> QED  BY <2>1, <2>2, <2>3 DEF old
<1> HIDE DEF suffix
<1>7. new \in MergeStates(S)
  BY <1>2, <1>4, <1>6 DEF MergeStates
<1>8. ASSUME NEW i \in 1 .. n + 1
      PROVE  /\ new.remap.suffix[i] < Len(u)
             /\ u[new.remap.suffix[i] + 1] = L[from + i]
  <2>1. CASE i = n + 1
    <3>1. from + i = k + 1
      BY <1>1, <2>1
    <3>2. L[from + i] = s
      BY <3>1 DEF s
    <3> QED  BY <1>2, <1>6, <2>1, <3>2
  <2>2. CASE i \in 1 .. n
    <3>1. /\ new.remap.suffix[i] = suffix[i] /\ suffix[i] \in Nat
          /\ suffix[i] < Len(acc.table)
          /\ acc.table[suffix[i] + 1] = L[from + i]
      BY <1>5, <1>6, <2>2
    <3>2. Len(acc.table) \in Nat /\ Len(u) \in Nat /\ Len(acc.table) <= Len(u)
      BY <1>1, <1>2
    <3>3. suffix[i] + 1 \in 1 .. Len(acc.table) /\ suffix[i] < Len(u)
      BY <3>1, <3>2
    <3> QED  BY <1>2, <3>1, <3>3
  <2> QED  BY <1>1, <2>1, <2>2
<1>9. ASSUME new.remap.identity, NEW i \in 1 .. n + 1
      PROVE  new.remap.suffix[i] = from + i - 1
  <2>1. CASE i = n + 1
    <3>1. from + i - 1 = from + n
      BY <1>1, <2>1
    <3> QED  BY <1>6, <1>9, <2>1, <3>1
  <2>2. CASE i \in 1 .. n
    BY <1>5, <1>6, <1>9, <2>2
  <2> QED  BY <1>1, <2>1, <2>2
<1>10. RemapRight(new, L, from, n + 1)
  BY <1>4, <1>6, <1>8, <1>9 DEF RemapRight
<1> QED  BY <1>1, <1>3, <1>4, <1>7, <1>10 DEF MergeState, new, s

\* The whole merge.
LEMMA MergeFromWorks ==
    ASSUME NEW S, NEW t \in Seq(S), NEW L \in Seq(S), NEW from \in 0 .. Len(L),
           NoDuplicates(t), NoDuplicates(L)
    PROVE  MergeState(MergeFrom(t, L, from), S, t, L, from, Len(L))
<1> DEFINE first == [table |-> t, remap |-> NewRemap(from)]
           Right(acc, k) == MergeState(acc, S, t, L, from, k)
           merge[k \in from .. Len(L)] ==
               IF k = from THEN first ELSE MergeString(merge[k - 1], L[k])
<1>1. MergeFrom(t, L, from) = merge[Len(L)]
  BY DEF MergeFrom
<1>2. Right(first, from)
  <2>1. MergedUpTo(t, t, L, from, 0)
    BY MergeBegins
  <2>2. first \in MergeStates(S) /\ RemapRight(first, L, from, 0)
    BY DEF MergeStates, NewRemap, RemapRight
  <2> QED  BY <2>1, <2>2 DEF MergeState
<1> DEFINE M == MergeStates(S)
           end == Len(L)
           body == [k \in from + 1 .. end |-> [acc \in M |-> MergeString(acc, L[k])]]
<1>3. ASSUME NEW k \in from + 1 .. end, NEW acc \in M
      PROVE  MergeString(acc, L[k]) \in M
  <2> DEFINE old == acc.table
             s == L[k]
             u == Intern(old, s)
             id == IdOf(u, s)
  <2>1. /\ s \in S /\ old \in Seq(S)
        /\ acc.remap \in [prefix : Nat, suffix : Seq(Nat), identity : BOOLEAN]
    BY DEF MergeStates
  <2>2. u \in Seq(S) /\ id \in Nat
    <3> HIDE DEF s, old
    <3> QED  BY <2>1, InternWorks
  <2>3. MergeString(acc, s) = [table |-> u, remap |-> RemapNext(acc.remap, id)]
    BY DEF MergeString
  <2> HIDE DEF u, id, s
  <2>4. RemapNext(acc.remap, id)
            \in [prefix : Nat, suffix : Seq(Nat), identity : BOOLEAN]
    BY <2>1, <2>2, RemapGrows
  <2> QED  BY <2>2, <2>3, <2>4 DEF MergeStates, s
<1>4. first \in M /\ from \in Nat /\ end \in Nat /\ from <= end
  BY <1>2 DEF MergeState
<1> HIDE DEF first, M, end
<1>5. body \in [from + 1 .. end -> [M -> M]]
      /\ \A k \in from + 1 .. end, acc \in M : body[k][acc] = MergeString(acc, L[k])
  BY <1>3
<1>6. \E f : f = [k \in from .. end |->
                     IF k = from THEN first ELSE MergeString(f[k - 1], L[k])]
  <2> HIDE DEF body
  <2>0. PICK f : Iterates(f, from, end, M, first, body)
    BY <1>4, <1>5, IteratesExist
  <2>1. /\ f \in [from .. end -> M] /\ f[from] = first
        /\ \A k \in from + 1 .. end : f[k] = body[k][f[k - 1]]
    BY <2>0 DEF Iterates
  <2>2. ASSUME NEW k \in from + 1 .. end
        PROVE  f[k] = MergeString(f[k - 1], L[k])
    <3>1. k - 1 \in from .. end
      BY <1>4
    <3> QED  BY <1>5, <2>1, <3>1
  <2>3. f = [k \in from .. end |->
                IF k = from THEN first ELSE MergeString(f[k - 1], L[k])]
    <3>1. \A k \in from .. end : k = from \/ k \in from + 1 .. end
      BY <1>4
    <3> QED  BY <2>1, <2>2, <3>1
  <2> QED  BY <2>3
<1> USE DEF end
<1>7. merge = [k \in from .. Len(L) |->
                  IF k = from THEN first ELSE MergeString(merge[k - 1], L[k])]
  <2> HIDE DEF first
  <2> QED  BY <1>6
<1> HIDE DEF merge
<1>8. merge[from] = first
      /\ \A k \in from .. Len(L) - 1 : merge[k + 1] = MergeString(merge[k], L[k + 1])
  <2> HIDE DEF first
  <2> QED  BY <1>7
<1> DEFINE Done == {k \in from .. Len(L) : Right(merge[k], k)}
<1> HIDE DEF first, Right
<1>9. Done = from .. Len(L)
  <2>1. Done \in SUBSET (from .. Len(L)) /\ from \in Done
    BY <1>2, <1>8
  <2>2. ASSUME NEW k \in Done, k < Len(L) PROVE k + 1 \in Done
    <3>1. k \in from .. Len(L) - 1 /\ k + 1 \in from .. Len(L) /\ Right(merge[k], k)
      BY <2>2
    <3>2. Right(MergeString(merge[k], L[k + 1]), k + 1)
      BY <3>1, <1>4, MergeStringWorks DEF Right
    <3> QED  BY <1>8, <3>1, <3>2
  <2> HIDE DEF Done
  <2> QED  BY <1>4, <2>1, <2>2, InductionUpTo
<1>10. Right(merge[Len(L)], Len(L))
  BY <1>4, <1>9
<1> QED  BY <1>1, <1>10 DEF Right

-----------------------------------------------------------------------------
(* The waves of the entry modules *)

(***************************************************************************)
(* The groups are the first n waves without what is no entry, in the order *)
(* of the waves: what was in a wave before that of a group is in a group   *)
(* before it.                                                              *)
(***************************************************************************)
GroupsOf(groups, n) ==
    /\ \A k \in DOMAIN groups : \E j \in 1 .. n :
          /\ groups[k] = waves[j] \cap Entries
          /\ \A i \in 1 .. j - 1 : \A p \in waves[i] \cap Entries :
                \E l \in 1 .. k - 1 : p \in groups[l]
    /\ \A i \in 1 .. n : \A p \in waves[i] \cap Entries :
          \E l \in DOMAIN groups : p \in groups[l]

LEMMA OneMoreGroup ==
    ASSUME NEW G \in Seq(SUBSET Entries), NEW n \in Nat, NEW E,
           E = waves[n + 1] \cap Entries, GroupsOf(G, n)
    PROVE  IF E = {} THEN GroupsOf(G, n + 1) ELSE GroupsOf(Append(G, E), n + 1)
<1>1. /\ \A i \in 1 .. n : i \in 1 .. n + 1
      /\ \A i \in 1 .. n + 1 : i \in 1 .. n \/ i = n + 1
      /\ n + 1 \in 1 .. n + 1
  OBVIOUS
<1>2. CASE E = {}
  BY <1>1, <1>2 DEF GroupsOf
<1>3. CASE E # {}
  <2> DEFINE H == Append(G, E)
  <2>1. /\ H \in Seq(SUBSET Entries) /\ Len(H) = Len(G) + 1 /\ Len(G) \in Nat
        /\ DOMAIN G = 1 .. Len(G) /\ DOMAIN H = 1 .. Len(G) + 1
        /\ \A k \in DOMAIN G : k \in DOMAIN H /\ H[k] = G[k]
        /\ H[Len(G) + 1] = E
    OBVIOUS
  <2> HIDE DEF H
  <2>2. ASSUME NEW i \in 1 .. n, NEW p \in waves[i] \cap Entries
        PROVE  \E l \in 1 .. Len(G) : p \in H[l] /\ l \in DOMAIN H
    <3>1. PICK l \in DOMAIN G : p \in G[l]
      BY DEF GroupsOf
    <3> QED  BY <2>1, <3>1
  <2>3. ASSUME NEW k \in DOMAIN H
        PROVE  \E j \in 1 .. n + 1 :
                  /\ H[k] = waves[j] \cap Entries
                  /\ \A i \in 1 .. j - 1 : \A p \in waves[i] \cap Entries :
                        \E l \in 1 .. k - 1 : p \in H[l]
    <3>1. CASE k \in DOMAIN G
      <4>1. PICK j \in 1 .. n :
                /\ G[k] = waves[j] \cap Entries
                /\ \A i \in 1 .. j - 1 : \A p \in waves[i] \cap Entries :
                      \E l \in 1 .. k - 1 : p \in G[l]
        BY <3>1 DEF GroupsOf
      <4>2. \A l \in 1 .. k - 1 : H[l] = G[l]
        BY <2>1, <3>1
      <4> QED  BY <1>1, <2>1, <3>1, <4>1, <4>2
    <3>2. CASE k = Len(G) + 1
      <4>1. 1 .. k - 1 = 1 .. Len(G) /\ 1 .. (n + 1) - 1 = 1 .. n
        BY <2>1, <3>2
      <4> QED  BY <1>1, <2>1, <2>2, <3>2, <4>1
    <3> QED  BY <2>1, <3>1, <3>2
  <2>4. ASSUME NEW i \in 1 .. n + 1, NEW p \in waves[i] \cap Entries
        PROVE  \E l \in DOMAIN H : p \in H[l]
    <3>1. CASE i = n + 1
      <4>1. Len(G) + 1 \in DOMAIN H
        BY <2>1
      <4> QED  BY <2>1, <3>1, <4>1
    <3> QED  BY <1>1, <2>2, <3>1
  <2> QED  BY <1>3, <2>3, <2>4 DEF GroupsOf, H
<1> QED  BY <1>2, <1>3

\* Every entry module gets into a group, and the groups keep the order.
LEMMA EntryWavesGroup ==
    ASSUME waves \in Seq(SUBSET Modules)
    PROVE  EntryWaves \in Seq(SUBSET Entries) /\ GroupsOf(EntryWaves, Len(waves))
<1> DEFINE Groups == Seq(SUBSET Entries)
           E(k) == waves[k] \cap Entries
           Step(k, G) == IF E(k) = {} THEN G ELSE Append(G, E(k))
           end == Len(waves)
           kept[k \in 0 .. end] ==
               IF k = 0 THEN << >>
               ELSE IF waves[k] \cap Entries = {} THEN kept[k - 1]
               ELSE Append(kept[k - 1], waves[k] \cap Entries)
           body == [k \in 0 + 1 .. end |-> [G \in Groups |-> Step(k, G)]]
<1>1. EntryWaves = kept[end]
  BY DEF EntryWaves
<1>2. ASSUME NEW k \in 0 + 1 .. end, NEW G \in Groups
      PROVE  Step(k, G) \in Groups
  OBVIOUS
<1>3. end \in Nat /\ 0 \in Nat /\ 0 <= end /\ << >> \in Groups
  OBVIOUS
<1> HIDE DEF Groups, end, E
<1>4. body \in [0 + 1 .. end -> [Groups -> Groups]]
      /\ \A k \in 0 + 1 .. end, G \in Groups : body[k][G] = Step(k, G)
  BY <1>2
<1>5. \E f : f = [k \in 0 .. end |->
                     IF k = 0 THEN << >>
                     ELSE IF E(k) = {} THEN f[k - 1]
                     ELSE Append(f[k - 1], E(k))]
  <2> HIDE DEF body
  <2>0. PICK f : Iterates(f, 0, end, Groups, << >>, body)
    BY <1>3, <1>4, IteratesExist
  <2>1. /\ f \in [0 .. end -> Groups] /\ f[0] = << >>
        /\ \A k \in 0 + 1 .. end : f[k] = body[k][f[k - 1]]
    BY <2>0 DEF Iterates
  <2>2. ASSUME NEW k \in 0 + 1 .. end PROVE f[k] = Step(k, f[k - 1])
    <3>1. k - 1 \in 0 .. end
      BY <1>3
    <3> QED  BY <1>4, <2>1, <3>1
  <2>3. \A k \in 0 .. end : k = 0 \/ k \in 0 + 1 .. end
    BY <1>3
  <2> QED  BY <2>1, <2>2, <2>3
<1>6. kept = [k \in 0 .. end |->
                 IF k = 0 THEN << >>
                 ELSE IF E(k) = {} THEN kept[k - 1]
                 ELSE Append(kept[k - 1], E(k))]
  BY <1>5 DEF E
<1> HIDE DEF kept
<1>7. kept[0] = << >>
      /\ \A k \in 0 .. end - 1 : kept[k + 1] = Step(k + 1, kept[k])
  <2>1. 0 \in 0 .. end /\ \A k \in 0 .. end - 1 :
            k + 1 \in 0 .. end /\ k + 1 # 0 /\ (k + 1) - 1 = k
    BY <1>3
  <2> QED  BY <1>6, <2>1
<1> DEFINE Done == {k \in 0 .. end : kept[k] \in Groups /\ GroupsOf(kept[k], k)}
<1>8. Done = 0 .. end
  <2>1. Done \in SUBSET (0 .. end) /\ 0 \in Done
    BY <1>3, <1>7 DEF GroupsOf
  <2>2. ASSUME NEW k \in Done, k < end PROVE k + 1 \in Done
    <3> DEFINE G == kept[k]
    <3>1. /\ k \in 0 .. end - 1 /\ k + 1 \in 0 .. end /\ k + 1 \in 0 + 1 .. end
          /\ k \in Nat /\ G \in Groups /\ GroupsOf(G, k)
      BY <1>3, <2>2
    <3>2. kept[k + 1] = Step(k + 1, G)
      BY <1>7, <3>1
    <3> HIDE DEF G
    <3>3. IF E(k + 1) = {} THEN GroupsOf(G, k + 1)
          ELSE GroupsOf(Append(G, E(k + 1)), k + 1)
      BY <3>1, OneMoreGroup DEF E, Groups
    <3>4. Step(k + 1, G) \in Groups
      BY <1>2, <3>1
    <3> QED  BY <3>1, <3>2, <3>3, <3>4
  <2> HIDE DEF Done
  <2> QED  BY <1>3, <2>1, <2>2, InductionUpTo
<1>9. end \in Done
  BY <1>3, <1>8
<1> QED  BY <1>1, <1>9 DEF Groups, end

-----------------------------------------------------------------------------
(* The inductive invariant *)

\* The types of the variables that the graph has not.
TaskTypes ==
    /\ step \in {"inventory", "compile", "merge", "compiled", "failed"}
    /\ grouped \in Seq(SUBSET Entries)
    /\ wave \in Nat \ {0}
    /\ local \in [Entries -> Seq(String)]
    /\ read \in [Entries -> Nat]
    /\ outcome \in [Entries -> {"none", "ok", "diagnosed", "broken"}]
    /\ held \in [Entries -> SUBSET Holding]
    /\ table \in Seq(String)
    /\ merged \in Seq(Entries)
    /\ outHeld \in SUBSET Holding

\* The module's task has begun.
Started(m) == read[m] > 0 \/ outcome[m] # "none"

\* The waves are entered in order, and left when all of their tasks ended.
WaveInv ==
    /\ step # "inventory" => phase \in {"waves", "cycle"}
    /\ phase = "cycle" => step \in {"inventory", "failed"}
    /\ step = "inventory" \/ phase = "cycle" => grouped = << >> /\ wave = 1
    /\ step # "inventory" /\ phase = "waves" => GroupsOf(grouped, Len(waves))
    /\ wave <= Len(grouped) + 1
    /\ \A k \in 1 .. wave - 1 : \A m \in grouped[k] : outcome[m] # "none"
    /\ \A m \in Entries : Started(m) =>
          \E k \in DOMAIN grouped : k <= wave /\ m \in grouped[k]
    /\ step \in {"merge", "compiled", "failed"} /\ phase = "waves" =>
          wave = Len(grouped) + 1

\* The table t is base and what was interned after it.
Extends(t, base) ==
    Len(base) <= Len(t) /\ \A i \in 1 .. Len(base) : t[i] = base[i]

\* Every held id is issued by t and means the string it was issued for.
Mean(holdings, t) ==
    \A h \in holdings : Issued(t, h.id) /\ Resolve(t, h.id) = h.text

\* What the module's task has interned of its text, at the module's place in
\* the order of the merge.
TextRead(m) == Occurrences(SubSeq(ModuleText[m], 1, read[m]), PathRank[m] + 1)

\* A task's table is the build's, then what the task interned.
TaskInv ==
    \A m \in Entries :
        /\ read[m] <= Len(ModuleText[m])
        /\ Extends(local[m], BuildTable)
        /\ ListsByOccurrence(local[m],
                             Occurrences(BuildTable, 0) \cup TextRead(m))
        /\ Mean(held[m], local[m])

\* The merge has taken the first results in path order.
MergeInv ==
    /\ step \in {"inventory", "compile"} =>
          merged = << >> /\ table = BuildTable /\ outHeld = {}
    /\ Extends(table, BuildTable)
    /\ Mean(outHeld, table)
    /\ ListsByOccurrence(table, Interned)
    /\ \A i \in DOMAIN merged : merged[i] \in Selected
    /\ \A i, j \in DOMAIN merged :
          i < j => PathRank[merged[i]] < PathRank[merged[j]]
    /\ \A i \in DOMAIN merged : \A n \in Left : PathRank[merged[i]] < PathRank[n]
    /\ step \in {"compiled", "failed"} /\ phase = "waves" => Left = {}

DirectoryInv == GraphInv /\ TaskTypes /\ WaveInv /\ TaskInv /\ MergeInv
-----------------------------------------------------------------------------
\* What the constants are.
LEMMA DirectoryConstants ==
    /\ Entries \subseteq Modules
    /\ BuildTable \in Seq(String) /\ NoDuplicates(BuildTable)
    /\ Len(BuildTable) \in Nat
    /\ \A m \in Entries : PathRank[m] \in Nat /\ ModuleText[m] \in Seq(String)
    /\ \A m, n \in Entries : PathRank[m] = PathRank[n] => m = n
BY DirectoryAssumption

\* A table that grew means the same by the ids it had.
LEMMA GrownTableMeans ==
    ASSUME NEW S, NEW t \in Seq(S), NEW u \in Seq(S), Extends(u, t),
           NEW holdings, Mean(holdings, t)
    PROVE  Mean(holdings, u)
<1> SUFFICES ASSUME NEW h \in holdings
             PROVE  Issued(u, h.id) /\ Resolve(u, h.id) = h.text
  BY DEF Mean
<1>1. /\ h.id \in Nat /\ h.id < Len(t) /\ t[h.id + 1] = h.text
  BY DEF Mean, Issued, Resolve
<1>2. h.id + 1 \in 1 .. Len(t) /\ Len(t) <= Len(u) /\ Len(t) \in Nat
      /\ Len(u) \in Nat
  BY <1>1 DEF Extends
<1>3. u[h.id + 1] = t[h.id + 1] /\ h.id < Len(u)
  BY <1>1, <1>2 DEF Extends
<1> QED  BY <1>1, <1>3 DEF Issued, Resolve

LEMMA ExtendsOn ==
    ASSUME NEW S, NEW b \in Seq(S), NEW t \in Seq(S), NEW u \in Seq(S),
           Extends(t, b), Extends(u, t)
    PROVE  Extends(u, b)
BY DEF Extends

\* Merged strings extend the target.
LEMMA MergedExtends ==
    ASSUME NEW R, NEW t, NEW L, NEW from, NEW k, MergedUpTo(R, t, L, from, k)
    PROVE  Extends(R, t) /\ NoDuplicates(R)
BY DEF MergedUpTo, Extends

\* The initial state satisfies the invariant.
LEMMA InitDirectory == Init => DirectoryInv
<1> SUFFICES ASSUME Init PROVE DirectoryInv
  OBVIOUS
<1> USE DEF Init
<1>1. GraphInv
  BY InitInv
<1>2. TaskTypes
  BY DirectoryConstants DEF TaskTypes
<1>3. WaveInv
  <2>1. Len(grouped) = 0 /\ 1 .. wave - 1 = {}
    OBVIOUS
  <2>2. phase = "edges"
    BY DEF GraphInit
  <2>3. \A m \in Entries : ~Started(m)
    BY DEF Started
  <2> QED  BY <2>1, <2>2, <2>3 DEF WaveInv
<1> DEFINE B == Occurrences(BuildTable, 0)
<1>4. ListsByOccurrence(BuildTable, B)
  BY DirectoryConstants, TableListsItself
<1>5. Extends(BuildTable, BuildTable)
  BY DirectoryConstants DEF Extends
<1>6. TaskInv
  <2> SUFFICES ASSUME NEW m \in Entries
               PROVE  /\ read[m] <= Len(ModuleText[m])
                      /\ Extends(local[m], BuildTable)
                      /\ ListsByOccurrence(local[m], B \cup TextRead(m))
                      /\ Mean(held[m], local[m])
    BY DEF TaskInv
  <2>1. TextRead(m) = {}
    <3> DEFINE w == ModuleText[m]
    <3>1. w \in Seq(String) /\ PathRank[m] + 1 \in Nat
      BY DirectoryConstants
    <3>2. Occurrences(SubSeq(w, 1, 0), PathRank[m] + 1) = {}
      <4> HIDE DEF w
      <4> QED  BY <3>1, NoOccurrence
    <3> QED  BY <3>2 DEF TextRead
  <2>2. local[m] = BuildTable /\ held[m] = {} /\ read[m] = 0
    OBVIOUS
  <2>3. B \cup TextRead(m) = B
    BY <2>1
  <2>4. Len(ModuleText[m]) \in Nat
    BY DirectoryConstants
  <2>5. read[m] <= Len(ModuleText[m])
    BY <2>2, <2>4
  <2>6. Mean(held[m], local[m])
    BY <2>2 DEF Mean
  <2> HIDE DEF Init, B
  <2> QED  BY <1>4, <1>5, <2>2, <2>3, <2>5, <2>6
<1>7. MergeInv
  <2>1. DOMAIN merged = {}
    OBVIOUS
  <2>2. Interned = B
    BY <2>1 DEF Interned
  <2> QED  BY <1>4, <1>5, <2>1, <2>2 DEF MergeInv, Mean
<1> QED  BY <1>1, <1>2, <1>3, <1>6, <1>7 DEF DirectoryInv

\* A step of the graph changes nothing of the tasks.
LEMMA GraphDirectory ==
    ASSUME DirectoryInv, Graph
    PROVE  DirectoryInv'
<1> USE DEF DirectoryInv
<1>1. /\ step = "inventory" /\ GraphNext
      /\ UNCHANGED <<step, grouped, wave, local, read, outcome, held, table,
                     merged, outHeld>>
  BY DEF Graph, taskVars
<1>2. GraphInv'
  BY <1>1, GraphStepInv
<1>3. TaskTypes'
  BY <1>1 DEF TaskTypes
<1>4. WaveInv'
  BY <1>1 DEF WaveInv, Started
<1>5. TaskInv'
  BY <1>1 DEF TaskInv, TextRead
<1>6. MergeInv'
  BY <1>1 DEF MergeInv, Interned, Left, Selected, Failures
<1> QED  BY <1>2, <1>3, <1>4, <1>5, <1>6

\* The grouping happens once, after the graph returned.
LEMMA GroupWavesDirectory ==
    ASSUME DirectoryInv, GroupWaves
    PROVE  DirectoryInv'
<1> USE DEF DirectoryInv
<1>1. /\ step = "inventory" /\ phase \in {"waves", "cycle"}
      /\ phase = "cycle" => step' = "failed" /\ grouped' = grouped
      /\ phase = "waves" => step' = "compile" /\ grouped' = EntryWaves
      /\ UNCHANGED graphVars
      /\ UNCHANGED <<phase, waves, wave, local, read, outcome, held, table,
                     merged, outHeld>>
  BY DEF GroupWaves, graphVars
<1>2. GraphInv'
  BY <1>1, StutterInv
<1>3. EntryWaves \in Seq(SUBSET Entries) /\ GroupsOf(EntryWaves, Len(waves))
  BY EntryWavesGroup DEF GraphInv, PeelInv
<1>4. TaskTypes'
  BY <1>1, <1>3 DEF TaskTypes
<1>5. WaveInv'
  <2>1. grouped = << >> /\ wave = 1 /\ \A m \in Entries : ~Started(m)
    BY <1>1 DEF WaveInv
  <2>2. \A m \in Entries : ~Started(m)'
    BY <1>1, <2>1 DEF Started
  <2>3. Len(grouped') \in Nat /\ wave' = 1 /\ 1 .. wave' - 1 = {}
    BY <1>1, <1>4, <2>1 DEF TaskTypes
  <2>4. phase = "waves" => GroupsOf(grouped, Len(waves))'
    BY <1>1, <1>3 DEF GroupsOf
  <2> QED  BY <1>1, <2>1, <2>2, <2>3, <2>4 DEF WaveInv
<1>6. TaskInv'
  BY <1>1 DEF TaskInv, TextRead
<1>7. MergeInv'
  <2>1. Interned' = Interned /\ Left' = Left /\ Selected' = Selected
    BY <1>1 DEF Interned, Left, Selected, Failures
  <2> QED  BY <1>1, <2>1 DEF MergeInv
<1> QED  BY <1>2, <1>4, <1>5, <1>6, <1>7

\* A task that reads one more string of its text.
LEMMA TaskInternDirectory ==
    ASSUME DirectoryInv, NEW m \in Entries, TaskIntern(m)
    PROVE  DirectoryInv'
<1> DEFINE w == ModuleText[m]
           s == w[read[m] + 1]
           old == local[m]
           u == Intern(old, s)
           n == PathRank[m] + 1
           B == Occurrences(BuildTable, 0)
<1> USE DEF DirectoryInv
<1>1. /\ step = "compile" /\ wave \in DOMAIN grouped /\ m \in grouped[wave]
      /\ outcome[m] = "none" /\ read[m] < Len(w)
      /\ local' = [local EXCEPT ![m] = u]
      /\ held' = [held EXCEPT ![m] = @ \cup
                     {[module |-> m, id |-> IdOf(local'[m], s), text |-> s]}]
      /\ read' = [read EXCEPT ![m] = @ + 1]
      /\ UNCHANGED graphVars
      /\ UNCHANGED <<phase, waves, step, grouped, wave, outcome, table, merged,
                     outHeld>>
  BY DEF TaskIntern, Running, graphVars
<1>2. /\ w \in Seq(String) /\ n \in Nat /\ n > 0 /\ read[m] \in Nat
      /\ s \in String /\ old \in Seq(String) /\ m \in Modules
      /\ BuildTable \in Seq(String)
      /\ read \in [Entries -> Nat] /\ local \in [Entries -> Seq(String)]
      /\ held \in [Entries -> SUBSET Holding]
  <2>1. /\ w \in Seq(String) /\ n \in Nat /\ n > 0 /\ m \in Modules
        /\ BuildTable \in Seq(String)
    BY DirectoryConstants
  <2>2. /\ read \in [Entries -> Nat] /\ local \in [Entries -> Seq(String)]
        /\ held \in [Entries -> SUBSET Holding]
    BY DEF TaskTypes
  <2>3. s \in String
    BY <1>1, <2>1, <2>2
  <2> QED  BY <2>1, <2>2, <2>3
<1>3. /\ u \in Seq(String) /\ Extends(u, old)
      /\ IdOf(u, s) \in Nat /\ IdOf(u, s) < Len(u) /\ u[IdOf(u, s) + 1] = s
  <2> HIDE DEF s, old
  <2> QED  BY <1>2, InternWorks DEF Extends
<1>4. local'[m] = u /\ read'[m] = read[m] + 1
      /\ held'[m] = held[m] \cup {[module |-> m, id |-> IdOf(u, s), text |-> s]}
  BY <1>1, <1>2
<1>5. /\ read[m] <= Len(w)
      /\ Extends(old, BuildTable)
      /\ ListsByOccurrence(old, B \cup TextRead(m))
      /\ Mean(held[m], old)
  BY DEF TaskInv
<1>6. GraphInv'
  BY <1>1, StutterInv
<1>7. TaskTypes'
  <2>1. [module |-> m, id |-> IdOf(u, s), text |-> s] \in Holding
    BY <1>2, <1>3 DEF Holding
  <2> HIDE DEF u, s
  <2>2. held' \in [Entries -> SUBSET Holding]
    BY <1>1, <1>2, <1>4, <2>1
  <2>3. local' \in [Entries -> Seq(String)] /\ read' \in [Entries -> Nat]
    BY <1>1, <1>2, <1>3
  <2> QED  BY <1>1, <2>2, <2>3 DEF TaskTypes
<1>8. WaveInv'
  <2>1. \A p \in Entries : Started(p)' =>
            \E k \in DOMAIN grouped : k <= wave /\ p \in grouped[k]
    <3> SUFFICES ASSUME NEW p \in Entries, Started(p)'
                 PROVE  \E k \in DOMAIN grouped : k <= wave /\ p \in grouped[k]
      OBVIOUS
    <3>1. CASE p = m
      <4>1. wave <= wave
        BY DEF TaskTypes
      <4> QED  BY <1>1, <3>1, <4>1
    <3>2. CASE p # m
      <4>1. Started(p)
        BY <1>1, <1>2, <3>2 DEF Started
      <4> QED  BY <4>1 DEF WaveInv
    <3> QED  BY <3>1, <3>2
  <2>2. GroupsOf(grouped, Len(waves))' <=> GroupsOf(grouped, Len(waves))
    BY <1>1 DEF GroupsOf
  <2> HIDE DEF s, u, old, w
  <2> QED  BY <1>1, <2>1, <2>2 DEF WaveInv
<1>9. TaskInv'
  <2> SUFFICES ASSUME NEW p \in Entries
               PROVE  /\ read'[p] <= Len(ModuleText[p])
                      /\ Extends(local'[p], BuildTable)
                      /\ ListsByOccurrence(local'[p], B \cup TextRead(p)')
                      /\ Mean(held'[p], local'[p])
    BY DEF TaskInv
  <2>1. CASE p = m
    <3> DEFINE new == [text |-> s, at |-> <<n, read[m] + 1>>]
    <3>1. /\ TextRead(m)' = TextRead(m) \cup {new}
          /\ \A o \in TextRead(m) : Precedes(o.at, <<n, read[m] + 1>>)
      <4> DEFINE k == read[m]
      <4>1. k \in Nat /\ k < Len(w) /\ w \in Seq(String) /\ n \in Nat
        BY <1>1, <1>2
      <4>2. TextRead(m) = Occurrences(SubSeq(w, 1, k), n)
            /\ TextRead(m)' = Occurrences(SubSeq(w, 1, k + 1), n)
        BY <1>4 DEF TextRead
      <4> HIDE DEF k, w, n, s
      <4>3. /\ Occurrences(SubSeq(w, 1, k + 1), n)
                   = Occurrences(SubSeq(w, 1, k), n)
                        \cup {[text |-> w[k + 1], at |-> <<n, k + 1>>]}
            /\ \A o \in Occurrences(SubSeq(w, 1, k), n) :
                   Precedes(o.at, <<n, k + 1>>)
        BY <4>1, OneMoreOccurrence
      <4> QED  BY <4>2, <4>3 DEF k, s
    <3>2. \A o \in B : Precedes(o.at, <<n, read[m] + 1>>)
      <4> SUFFICES ASSUME NEW o \in B
                   PROVE  Precedes(o.at, <<n, read[m] + 1>>)
        OBVIOUS
      <4>1. \E j \in DOMAIN BuildTable : o.at = <<0, j>>
        BY OccurrencePlaces
      <4> QED  BY <1>2, <4>1 DEF Precedes
    <3>3. ListsByOccurrence(u, (B \cup TextRead(m)) \cup {new})
      <4> DEFINE O == B \cup TextRead(m)
                 at == <<n, read[m] + 1>>
      <4>1. \A o \in O : Precedes(o.at, at)
        BY <3>1, <3>2
      <4>2. ListsByOccurrence(old, O) /\ old \in Seq(String) /\ s \in String
        BY <1>2, <1>5
      <4> HIDE DEF O, at, old, s
      <4>3. ListsByOccurrence(Intern(old, s), O \cup {[text |-> s, at |-> at]})
        BY <4>1, <4>2, NextOccurrence
      <4> QED  BY <4>3 DEF O, at
    <3>4. (B \cup TextRead(m)) \cup {new} = B \cup TextRead(m)'
      BY <3>1
    <3>5. Extends(u, BuildTable)
      <4> HIDE DEF u, old
      <4> QED  BY <1>2, <1>3, <1>5, ExtendsOn
    <3>6. Mean(held'[m], u)
      <4>1. Mean(held[m], u)
        <5> HIDE DEF u, old
        <5> QED  BY <1>2, <1>3, <1>5, GrownTableMeans
      <4> HIDE DEF u, s
      <4> QED  BY <1>3, <1>4, <4>1 DEF Mean, Issued, Resolve
    <3>7. read'[m] <= Len(w)
      BY <1>1, <1>2, <1>4
    <3> HIDE DEF u, B, w
    <3> QED  BY <1>4, <2>1, <3>3, <3>4, <3>5, <3>6, <3>7 DEF w
  <2>2. CASE p # m
    <3>1. local'[p] = local[p] /\ read'[p] = read[p] /\ held'[p] = held[p]
      BY <1>1, <1>2, <2>2
    <3>2. TextRead(p)' = TextRead(p)
      BY <3>1 DEF TextRead
    <3> QED  BY <3>1, <3>2 DEF TaskInv
  <2> QED  BY <2>1, <2>2
<1>10. MergeInv'
  <2>1. merged = << >> /\ DOMAIN merged = {}
    BY <1>1 DEF MergeInv
  <2>2. Interned' = Interned /\ Left' = Left /\ Selected' = Selected
    BY <1>1, <2>1 DEF Interned, Left, Selected, Failures
  <2> HIDE DEF s, u, old, w
  <2> QED  BY <1>1, <2>2 DEF MergeInv
<1> QED  BY <1>6, <1>7, <1>8, <1>9, <1>10

-----------------------------------------------------------------------------
(* The waves are kept in order *)

\* That a running task ends keeps the waves in order.
LEMMA EndedWaveInv ==
    ASSUME DirectoryInv, NEW m \in Entries, NEW how \in {"ok", "diagnosed", "broken"},
           step = "compile", wave \in DOMAIN grouped, m \in grouped[wave],
           outcome' = [outcome EXCEPT ![m] = how],
           UNCHANGED <<phase, waves, step, grouped, wave, read>>
    PROVE  WaveInv'
<1> USE DEF DirectoryInv
<1>1. outcome \in [Entries -> {"none", "ok", "diagnosed", "broken"}]
      /\ wave \in Nat
  BY DEF TaskTypes
<1>2. \A p \in Entries : outcome[p] # "none" => outcome'[p] # "none"
  BY <1>1
<1>3. ASSUME NEW p \in Entries, Started(p)'
      PROVE  \E k \in DOMAIN grouped : k <= wave /\ p \in grouped[k]
  <2>1. CASE p = m
    <3>1. wave <= wave
      BY <1>1
    <3> QED  BY <2>1, <3>1
  <2>2. CASE p # m
    <3>1. Started(p)
      BY <1>1, <1>3, <2>2 DEF Started
    <3> QED  BY <3>1 DEF WaveInv
  <2> QED  BY <2>1, <2>2
<1>4. GroupsOf(grouped, Len(waves))' <=> GroupsOf(grouped, Len(waves))
  BY DEF GroupsOf
<1>5. \A k \in 1 .. wave - 1 : \A p \in grouped[k] : outcome'[p] # "none"
  <2> SUFFICES ASSUME NEW k \in 1 .. wave - 1, NEW p \in grouped[k]
               PROVE  outcome'[p] # "none"
    OBVIOUS
  <2>1. outcome[p] # "none"
    BY DEF WaveInv
  <2>2. p \in Entries
    <3>1. k \in DOMAIN grouped /\ grouped \in Seq(SUBSET Entries)
      BY <1>1 DEF TaskTypes
    <3> QED  BY <3>1, ElementOfSeq
  <2> QED  BY <1>2, <2>1, <2>2
<1> QED  BY <1>3, <1>4, <1>5 DEF WaveInv

\* And nothing is merged yet.
LEMMA EndedMergeInv ==
    ASSUME DirectoryInv, step = "compile",
           UNCHANGED <<phase, step, read, table, merged, outHeld>>
    PROVE  MergeInv'
<1>1. merged = << >> /\ DOMAIN merged = {}
  BY DEF DirectoryInv, MergeInv
<1>2. Interned' = Interned
  BY DEF Interned
<1> QED  BY <1>1, <1>2 DEF DirectoryInv, MergeInv

\* The end of a task.
LEMMA TaskEndsDirectory ==
    ASSUME DirectoryInv, NEW m \in Entries, NEW how \in {"ok", "diagnosed"},
           TaskEnds(m, how)
    PROVE  DirectoryInv'
<1> USE DEF DirectoryInv
<1>1. /\ step = "compile" /\ wave \in DOMAIN grouped /\ m \in grouped[wave]
      /\ outcome' = [outcome EXCEPT ![m] = how]
      /\ UNCHANGED graphVars
      /\ UNCHANGED <<phase, waves, step, grouped, wave, local, read, held,
                     table, merged, outHeld>>
  BY DEF TaskEnds, Running, graphVars
<1>2. GraphInv'
  BY <1>1, StutterInv
<1>3. TaskTypes'
  BY <1>1 DEF TaskTypes
<1>4. WaveInv'
  BY <1>1, EndedWaveInv
<1>5. TaskInv'
  BY <1>1 DEF TaskInv, TextRead
<1>6. MergeInv'
  BY <1>1, EndedMergeInv
<1> QED  BY <1>2, <1>3, <1>4, <1>5, <1>6

\* Merging a task's table into a fresh fork gives the same list of strings.
LEMMA FreshForkLists ==
    ASSUME NEW S, NEW b \in Seq(S), NEW L \in Seq(S), NEW R \in Seq(S), NEW O,
           Extends(L, b), ListsByOccurrence(L, O),
           MergedUpTo(R, b, L, 0, Len(L))
    PROVE  ListsByOccurrence(R, O)
<1>1. /\ Len(b) \in Nat /\ Len(L) \in Nat /\ Len(b) <= Len(L)
      /\ \A i \in 1 .. Len(b) : L[i] = b[i]
      /\ DOMAIN L = 1 .. Len(L) /\ DOMAIN R = 1 .. Len(R) /\ Len(R) \in Nat
      /\ 0 + 1 .. 0 + Len(L) = DOMAIN L
  BY DEF Extends
<1>2. /\ NoDuplicates(R)
      /\ Len(b) <= Len(R) /\ \A i \in 1 .. Len(b) : R[i] = b[i]
      /\ \A i \in DOMAIN R : i > Len(b) => \E a \in DOMAIN L : R[i] = L[a]
      /\ \A a \in DOMAIN L : \E i \in DOMAIN R : R[i] = L[a]
      /\ \A i, j \in DOMAIN R : Len(b) < i /\ i < j =>
            \A a, c \in DOMAIN L : R[i] = L[a] /\ R[j] = L[c] => a < c
  <2> DEFINE New == 0 + 1 .. 0 + Len(L)
  <2>1. New = DOMAIN L
    BY <1>1
  <2>2. /\ NoDuplicates(R)
        /\ Len(b) <= Len(R) /\ \A i \in 1 .. Len(b) : R[i] = b[i]
        /\ \A i \in DOMAIN R : i > Len(b) => \E a \in New : R[i] = L[a]
        /\ \A a \in New : \E i \in DOMAIN R : R[i] = L[a]
        /\ \A i, j \in DOMAIN R : Len(b) < i /\ i < j =>
              \A a, c \in New : R[i] = L[a] /\ R[j] = L[c] => a < c
    BY DEF MergedUpTo
  <2> HIDE DEF New
  <2> QED  BY ONLY <2>1, <2>2
<1>3. /\ NoDuplicates(L)
      /\ \A i \in DOMAIN L : \E o \in O : o.text = L[i]
      /\ \A o \in O : \E i \in DOMAIN L : L[i] = o.text
      /\ \A i, j \in DOMAIN L : i < j =>
            \E o \in O :
                /\ o.text = L[i]
                /\ \A q \in O : q.text = L[j] => Precedes(o.at, q.at)
  BY ListingFacts, Zenon
\* Where the strings of R are in L.
<1>4. ASSUME NEW i \in DOMAIN R
      PROVE  \E a \in DOMAIN L : R[i] = L[a] /\ (i <= Len(b) => a = i)
                                 /\ (i > Len(b) => a > Len(b))
  <2>1. CASE i <= Len(b)
    <3>1. i \in 1 .. Len(b) /\ i \in DOMAIN L
      BY <1>1, <2>1
    <3>2. R[i] = L[i]
      BY <1>1, <1>2, <3>1
    <3>3. ~(i > Len(b))
      BY <1>1, <2>1
    <3> QED  BY <2>1, <3>1, <3>2, <3>3
  <2>2. CASE i > Len(b)
    <3>1. PICK a \in DOMAIN L : R[i] = L[a]
      BY <1>2, <2>2
    <3>2. ASSUME a <= Len(b) PROVE FALSE
      <4>1. a \in 1 .. Len(b) /\ a \in DOMAIN R /\ a # i
        BY <1>1, <1>2, <2>2, <3>2
      <4>2. R[a] = R[i]
        BY <1>1, <1>2, <3>1, <4>1
      <4> QED  BY <1>2, <4>1, <4>2 DEF NoDuplicates
    <3>3. a > Len(b) /\ ~(i <= Len(b))
      BY <1>1, <2>2, <3>2
    <3> QED  BY <2>2, <3>1, <3>3
  <2> QED  BY <1>1, <2>1, <2>2
<1>5. ASSUME NEW i \in DOMAIN R, NEW j \in DOMAIN R, i < j
      PROVE  \E a, c \in DOMAIN L : R[i] = L[a] /\ R[j] = L[c] /\ a < c
  <2>1. PICK a \in DOMAIN L : R[i] = L[a] /\ (i <= Len(b) => a = i)
                              /\ (i > Len(b) => a > Len(b))
    BY <1>4
  <2>2. PICK c \in DOMAIN L : R[j] = L[c] /\ (j <= Len(b) => c = j)
                              /\ (j > Len(b) => c > Len(b))
    BY <1>4
  <2>3. CASE i > Len(b)
    BY <1>2, <1>5, <2>1, <2>2, <2>3
  <2>4. CASE i <= Len(b)
    BY <1>1, <1>5, <2>1, <2>2, <2>4
  <2> QED  BY <1>1, <2>3, <2>4
<1>6. {R[i] : i \in DOMAIN R} = {o.text : o \in O}
  <2>1. \A i \in DOMAIN R : \E o \in O : R[i] = o.text
    BY <1>3, <1>4
  <2>2. ASSUME NEW o \in O PROVE \E i \in DOMAIN R : R[i] = o.text
    <3>1. PICK a \in DOMAIN L : L[a] = o.text
      BY <1>3
    <3> QED  BY <1>2, <3>1, Zenon
  <2> QED  BY <2>1, <2>2
<1>7. ASSUME NEW i \in DOMAIN R, NEW j \in DOMAIN R, i < j
      PROVE  \E o \in O :
                 /\ o.text = R[i]
                 /\ \A q \in O : q.text = R[j] => Precedes(o.at, q.at)
  <2>1. PICK a \in DOMAIN L, c \in DOMAIN L : R[i] = L[a] /\ R[j] = L[c] /\ a < c
    BY <1>5, <1>7
  <2>2. PICK o \in O :
            /\ o.text = L[a]
            /\ \A q \in O : q.text = L[c] => Precedes(o.at, q.at)
    BY <1>3, <2>1
  <2> QED  BY <2>1, <2>2, Zenon
<1> QED  BY <1>2, <1>6, <1>7 DEF ListsByOccurrence

\* What a merge does to ids: remapped, they mean the same strings, and ids
\* that an identity remap leaves alone as well.
LEMMA RemappedMean ==
    ASSUME NEW S, NEW t \in Seq(S), NEW L \in Seq(S), NEW from \in 0 .. Len(L),
           NEW acc, MergeState(acc, S, t, L, from, Len(L)),
           from <= Len(t), \A i \in 1 .. from : t[i] = L[i],
           NEW holdings \in SUBSET Holding, Mean(holdings, L)
    PROVE  /\ Remapped(holdings, acc.remap) \in SUBSET Holding
           /\ Mean(Remapped(holdings, acc.remap), acc.table)
           /\ acc.remap.identity => Mean(holdings, acc.table)
<1> DEFINE R == acc.table
           map == acc.remap
           n == Len(L) - from
<1>1. /\ R \in Seq(S) /\ map \in [prefix : Nat, suffix : Seq(Nat), identity : BOOLEAN]
      /\ map.prefix = from /\ Len(map.suffix) = n /\ map.suffix \in Seq(Nat)
      /\ \A i \in 1 .. n : map.suffix[i] < Len(R)
                           /\ R[map.suffix[i] + 1] = L[from + i]
      /\ map.identity => \A i \in 1 .. n : map.suffix[i] = from + i - 1
      /\ Len(t) <= Len(R) /\ \A i \in 1 .. Len(t) : R[i] = t[i]
  BY DEF MergeState, MergeStates, RemapRight, MergedUpTo
<1>2. /\ n \in Nat /\ from \in Nat /\ Len(L) \in Nat /\ Len(t) \in Nat
      /\ Len(R) \in Nat /\ n = Len(L) - from
  BY <1>1
<1> HIDE DEF R, map, n
<1>3. ASSUME NEW h \in holdings
      PROVE  /\ h.id \in Nat /\ h.id < Len(L) /\ L[h.id + 1] = h.text
             /\ RemapGet(map, h.id) \in Nat
             /\ RemapGet(map, h.id) < Len(R)
             /\ R[RemapGet(map, h.id) + 1] = h.text
             /\ map.identity => RemapGet(map, h.id) = h.id
  <2>1. h.id \in Nat /\ h.id < Len(L) /\ L[h.id + 1] = h.text
    BY DEF Mean, Issued, Resolve
  <2>2. CASE h.id < from
    <3>1. RemapGet(map, h.id) = h.id
      BY <1>1, <2>2 DEF RemapGet
    <3>2. h.id + 1 \in 1 .. from /\ h.id + 1 \in 1 .. Len(t) /\ h.id < Len(R)
      BY <1>1, <1>2, <2>1, <2>2
    <3>3. R[h.id + 1] = L[h.id + 1]
      BY <1>1, <3>2
    <3> QED  BY <2>1, <3>1, <3>2, <3>3
  <2>3. CASE ~(h.id < from)
    <3> DEFINE i == h.id - from + 1
    <3>1. i \in 1 .. n /\ from + i = h.id + 1 /\ from + i - 1 = h.id
      BY <1>2, <2>1, <2>3
    <3>2. RemapGet(map, h.id) = map.suffix[i]
      BY <1>1, <2>3 DEF RemapGet
    <3>3. map.suffix[i] \in Nat
      <4>1. i \in DOMAIN map.suffix
        BY <1>1, <1>2, <3>1
      <4> HIDE DEF i
      <4> QED  BY <1>1, <4>1, ElementOfSeq
    <3> HIDE DEF i
    <3> QED  BY <1>1, <2>1, <3>1, <3>2, <3>3
  <2> QED  BY <2>2, <2>3, <2>1
<1>4. ASSUME NEW h \in holdings
      PROVE  /\ [h EXCEPT !.id = RemapGet(map, @)] \in Holding
             /\ [h EXCEPT !.id = RemapGet(map, @)].id = RemapGet(map, h.id)
             /\ [h EXCEPT !.id = RemapGet(map, @)].text = h.text
  <2>1. h \in [module : Modules, id : Nat, text : String]
    BY DEF Holding
  <2> QED  BY <1>3, <2>1 DEF Holding
<1>5. \A g \in Remapped(holdings, map) :
          g \in Holding
          /\ \E h \in holdings : g.id = RemapGet(map, h.id) /\ g.text = h.text
  BY <1>4 DEF Remapped
<1>6. Mean(Remapped(holdings, map), R)
  BY <1>3, <1>5 DEF Mean, Issued, Resolve
<1>7. map.identity => Mean(holdings, R)
  BY <1>3 DEF Mean, Issued, Resolve
<1> QED  BY <1>5, <1>6, <1>7 DEF R, map

-----------------------------------------------------------------------------
(* The tasks of a wave *)

\* A task's table and how it starts.
LEMMA TaskTable ==
    ASSUME DirectoryInv, NEW m \in Entries
    PROVE  /\ local[m] \in Seq(String) /\ NoDuplicates(local[m])
           /\ Len(BuildTable) \in 0 .. Len(local[m])
           /\ \A i \in 1 .. Len(BuildTable) : local[m][i] = BuildTable[i]
           /\ Extends(local[m], BuildTable)
           /\ ListsByOccurrence(local[m],
                  Occurrences(BuildTable, 0) \cup TextRead(m))
           /\ Mean(held[m], local[m])
           /\ held[m] \in SUBSET Holding
<1>1. local[m] \in Seq(String) /\ held[m] \in SUBSET Holding
  BY DEF DirectoryInv, TaskTypes
<1>2. /\ Extends(local[m], BuildTable)
      /\ ListsByOccurrence(local[m],
             Occurrences(BuildTable, 0) \cup TextRead(m))
      /\ Mean(held[m], local[m])
  BY DEF DirectoryInv, TaskInv
<1>3. NoDuplicates(local[m])
  BY <1>2 DEF ListsByOccurrence
<1>4. /\ Len(BuildTable) \in 0 .. Len(local[m])
      /\ \A i \in 1 .. Len(BuildTable) : local[m][i] = BuildTable[i]
  BY <1>1, <1>2, DirectoryConstants DEF Extends
<1> QED  BY <1>1, <1>2, <1>3, <1>4

\* A task that ends with an infrastructure error carries a table with the same
\* strings in the same order, and its ids mean what they meant.
LEMMA TaskBreaksDirectory ==
    ASSUME DirectoryInv, NEW m \in Entries, TaskBreaks(m)
    PROVE  DirectoryInv'
<1> DEFINE merge == MergeFrom(BuildTable, local[m], 0)
           R == merge.table
           B == Occurrences(BuildTable, 0)
<1> USE DEF DirectoryInv
<1>1. /\ step = "compile" /\ wave \in DOMAIN grouped /\ m \in grouped[wave]
      /\ outcome' = [outcome EXCEPT ![m] = "broken"]
      /\ local' = [local EXCEPT ![m] = R]
      /\ held' = [held EXCEPT ![m] = Remapped(@, merge.remap)]
      /\ UNCHANGED graphVars
      /\ UNCHANGED <<phase, waves, step, grouped, wave, read, table, merged,
                     outHeld>>
  BY DEF TaskBreaks, Running, graphVars
<1>2. /\ local[m] \in Seq(String) /\ NoDuplicates(local[m])
      /\ Extends(local[m], BuildTable)
      /\ ListsByOccurrence(local[m], B \cup TextRead(m))
      /\ Mean(held[m], local[m])
      /\ held[m] \in SUBSET Holding
      /\ BuildTable \in Seq(String) /\ NoDuplicates(BuildTable)
  BY TaskTable, DirectoryConstants
<1>3. MergeState(merge, String, BuildTable, local[m], 0, Len(local[m]))
  <2> DEFINE L == local[m]
  <2>1. L \in Seq(String) /\ NoDuplicates(L) /\ 0 \in 0 .. Len(L)
    BY <1>2
  <2> HIDE DEF L
  <2>2. MergeState(MergeFrom(BuildTable, L, 0), String, BuildTable, L, 0, Len(L))
    BY <1>2, <2>1, MergeFromWorks
  <2> QED  BY <2>2 DEF L
<1> HIDE DEF merge
<1>4. /\ R \in Seq(String)
      /\ Extends(R, BuildTable)
      /\ ListsByOccurrence(R, B \cup TextRead(m))
  <2> DEFINE L == local[m]
             O == B \cup TextRead(m)
  <2>1. /\ L \in Seq(String) /\ Extends(L, BuildTable)
        /\ ListsByOccurrence(L, O) /\ Len(L) - 0 = Len(L)
    BY <1>2
  <2>2. R \in Seq(String) /\ MergedUpTo(R, BuildTable, L, 0, Len(L))
    BY <1>3, <2>1 DEF MergeState, MergeStates
  <2> HIDE DEF L, O, R
  <2>3. ListsByOccurrence(R, O)
    BY <1>2, <2>1, <2>2, FreshForkLists
  <2>4. Extends(R, BuildTable)
    BY <2>2, MergedExtends
  <2> QED  BY <2>2, <2>3, <2>4 DEF O
<1>5. /\ Remapped(held[m], merge.remap) \in SUBSET Holding
      /\ Mean(Remapped(held[m], merge.remap), R)
  <2> DEFINE L == local[m]
             holdings == held[m]
  <2>1. /\ L \in Seq(String) /\ 0 \in 0 .. Len(L) /\ 0 <= Len(BuildTable)
        /\ \A i \in 1 .. 0 : BuildTable[i] = L[i]
        /\ holdings \in SUBSET Holding /\ Mean(holdings, L)
        /\ BuildTable \in Seq(String)
        /\ MergeState(merge, String, BuildTable, L, 0, Len(L))
    BY <1>2, <1>3
  <2> HIDE DEF L, holdings
  <2>2. /\ Remapped(holdings, merge.remap) \in SUBSET Holding
        /\ Mean(Remapped(holdings, merge.remap), merge.table)
    BY <2>1, RemappedMean
  <2> QED  BY <2>2 DEF holdings
<1> HIDE DEF R, B
<1>6. local \in [Entries -> Seq(String)] /\ held \in [Entries -> SUBSET Holding]
      /\ outcome \in [Entries -> {"none", "ok", "diagnosed", "broken"}]
  BY DEF TaskTypes
<1>7. /\ local'[m] = R /\ held'[m] = Remapped(held[m], merge.remap)
      /\ \A p \in Entries : p # m => local'[p] = local[p] /\ held'[p] = held[p]
  BY <1>1, <1>6
<1>8. GraphInv'
  BY <1>1, StutterInv
<1>9. TaskTypes'
  <2>1. local' \in [Entries -> Seq(String)]
    BY <1>1, <1>4, <1>6
  <2>2. held' \in [Entries -> SUBSET Holding]
    BY <1>1, <1>5, <1>6
  <2>3. outcome' \in [Entries -> {"none", "ok", "diagnosed", "broken"}]
    BY <1>1, <1>6
  <2> QED  BY <1>1, <2>1, <2>2, <2>3 DEF TaskTypes
<1>10. WaveInv'
  BY <1>1, EndedWaveInv
<1>11. TaskInv'
  <2> SUFFICES ASSUME NEW p \in Entries
               PROVE  /\ read'[p] <= Len(ModuleText[p])
                      /\ Extends(local'[p], BuildTable)
                      /\ ListsByOccurrence(local'[p], B \cup TextRead(p)')
                      /\ Mean(held'[p], local'[p])
    BY DEF TaskInv, B
  <2>1. /\ read'[p] = read[p] /\ TextRead(p)' = TextRead(p)
        /\ read[p] <= Len(ModuleText[p])
    BY <1>1 DEF TextRead, TaskInv
  <2>2. CASE p = m
    BY <1>4, <1>5, <1>7, <2>1, <2>2
  <2>3. CASE p # m
    BY <1>7, <2>1, <2>3 DEF TaskInv, B
  <2> QED  BY <2>2, <2>3
<1>12. MergeInv'
  BY <1>1, EndedMergeInv
<1> QED  BY <1>8, <1>9, <1>10, <1>11, <1>12

\* Collecting a wave ends it.
LEMMA CollectDirectory ==
    ASSUME DirectoryInv, CollectWave
    PROVE  DirectoryInv'
<1> USE DEF DirectoryInv
<1>1. /\ step = "compile" /\ wave \in DOMAIN grouped
      /\ \A m \in grouped[wave] : outcome[m] # "none"
      /\ wave' = wave + 1
      /\ UNCHANGED graphVars
      /\ UNCHANGED <<phase, waves, step, grouped, local, read, outcome, held,
                     table, merged, outHeld>>
  BY DEF CollectWave, graphVars
<1>2. GraphInv'
  BY <1>1, StutterInv
<1>3. TaskTypes'
  BY <1>1 DEF TaskTypes
<1>4. WaveInv'
  <2>1. wave \in Nat \ {0} /\ Len(grouped) \in Nat
        /\ DOMAIN grouped = 1 .. Len(grouped)
    BY DEF TaskTypes
  <2>2. wave' <= Len(grouped) + 1
    BY <1>1, <2>1
  <2>3. \A k \in 1 .. wave' - 1 : k \in 1 .. wave - 1 \/ k = wave
    BY <1>1, <2>1
  <2>4. \A k \in 1 .. wave' - 1 : \A m \in grouped[k] : outcome[m] # "none"
    BY <1>1, <2>3 DEF WaveInv
  <2>5. \A k \in DOMAIN grouped : k <= wave => k <= wave'
    BY <1>1, <2>1
  <2>6. \A m \in Entries : Started(m)' =>
            \E k \in DOMAIN grouped : k <= wave' /\ m \in grouped[k]
    BY <1>1, <2>5 DEF WaveInv, Started
  <2>7. GroupsOf(grouped, Len(waves))' <=> GroupsOf(grouped, Len(waves))
    BY <1>1 DEF GroupsOf
  <2>8. phase = "waves"
    BY <1>1 DEF WaveInv
  <2> QED  BY <1>1, <2>2, <2>4, <2>6, <2>7, <2>8 DEF WaveInv
<1>5. TaskInv'
  BY <1>1 DEF TaskInv, TextRead
<1>6. MergeInv'
  BY <1>1 DEF MergeInv, Interned, Left, Selected, Failures
<1> QED  BY <1>2, <1>3, <1>4, <1>5, <1>6

\* The steps that change nothing but step.
LEMMA StepDirectory ==
    ASSUME DirectoryInv, StartMerge \/ FinishBuild \/ UNCHANGED vars
    PROVE  DirectoryInv'
<1> USE DEF DirectoryInv
<1>1. /\ UNCHANGED graphVars
      /\ UNCHANGED <<phase, waves, grouped, wave, local, read, outcome, held,
                     table, merged, outHeld>>
      /\ \/ step = "compile" /\ wave \notin DOMAIN grouped /\ step' = "merge"
         \/ step = "merge" /\ Left = {} /\ step' \in {"failed", "compiled"}
         \/ step' = step
  BY DEF StartMerge, FinishBuild, vars, taskVars, graphVars
<1>2. GraphInv'
  BY <1>1, StutterInv
<1>3. TaskTypes'
  BY <1>1 DEF TaskTypes
<1>4. WaveInv'
  <2>1. wave \notin DOMAIN grouped => wave = Len(grouped) + 1
    BY DEF TaskTypes, WaveInv
  <2>2. GroupsOf(grouped, Len(waves))' <=> GroupsOf(grouped, Len(waves))
    BY <1>1 DEF GroupsOf
  <2>3. \A m \in Entries : Started(m)' <=> Started(m)
    BY <1>1 DEF Started
  <2> QED  BY <1>1, <2>1, <2>2, <2>3 DEF WaveInv
<1>5. TaskInv'
  BY <1>1 DEF TaskInv, TextRead
<1>6. MergeInv'
  <2>1. Interned' = Interned /\ Left' = Left /\ Selected' = Selected
    BY <1>1 DEF Interned, Left, Selected, Failures
  <2> QED  BY <1>1, <2>1 DEF MergeInv
<1> QED  BY <1>2, <1>3, <1>4, <1>5, <1>6

-----------------------------------------------------------------------------
(* The merge *)

\* The occurrences that one more merged module brings.
LEMMA MergedOccurrences ==
    ASSUME DirectoryInv, NEW m \in Entries, merged' = Append(merged, m),
           read' = read, outcome' = outcome
    PROVE  /\ merged' \in Seq(Entries) /\ Len(merged') = Len(merged) + 1
           /\ Len(merged) \in Nat
           /\ \A i \in 1 .. Len(merged) : merged'[i] = merged[i]
           /\ merged'[Len(merged) + 1] = m
           /\ DOMAIN merged = 1 .. Len(merged)
           /\ DOMAIN merged' = 1 .. Len(merged) + 1
           /\ Interned' = Interned \cup TextRead(m)
           /\ Selected' = Selected /\ Left' = Left \ {m}
<1>1. merged \in Seq(Entries)
  BY DEF DirectoryInv, TaskTypes
<1>2. /\ merged' \in Seq(Entries) /\ Len(merged') = Len(merged) + 1
      /\ Len(merged) \in Nat
      /\ \A i \in 1 .. Len(merged) : merged'[i] = merged[i]
      /\ merged'[Len(merged) + 1] = m
      /\ DOMAIN merged = 1 .. Len(merged)
      /\ DOMAIN merged' = 1 .. Len(merged) + 1
  BY <1>1
<1> DEFINE D == {merged[i] : i \in DOMAIN merged}
           DD == {merged'[i] : i \in DOMAIN merged'}
           U == UNION {TextRead(p) : p \in D}
<1>3. DD = D \cup {m}
  <2>1. \A i \in DOMAIN merged' : i \in DOMAIN merged \/ i = Len(merged) + 1
    BY <1>2
  <2>2. \A i \in DOMAIN merged : i \in DOMAIN merged' /\ merged'[i] = merged[i]
    BY <1>2
  <2>3. Len(merged) + 1 \in DOMAIN merged'
    BY <1>2
  <2> QED  BY <1>2, <2>1, <2>2, <2>3
<1>4. Selected' = Selected /\ Left' = Left \ {m}
  BY <1>3 DEF Selected, Left, Failures
<1>5. Interned' = Interned \cup TextRead(m)
  <2>1. Interned = Occurrences(BuildTable, 0) \cup UNION {TextRead(p) : p \in D}
    BY DEF Interned, TextRead
  <2>2. Interned' = Occurrences(BuildTable, 0) \cup UNION {TextRead(p) : p \in DD}
    BY DEF Interned, TextRead
  <2> HIDE DEF D, DD
  <2> DEFINE V == UNION {TextRead(p) : p \in DD}
             W == UNION {TextRead(p) : p \in D}
  <2>3. /\ \A o : o \in V <=> \E p \in DD : o \in TextRead(p)
        /\ \A o : o \in W <=> \E p \in D : o \in TextRead(p)
    OBVIOUS
  <2>4. Interned = Occurrences(BuildTable, 0) \cup W
        /\ Interned' = Occurrences(BuildTable, 0) \cup V
    BY <2>1, <2>2
  <2> HIDE DEF V, W
  <2>5. \A o : o \in V <=> o \in W \/ o \in TextRead(m)
    BY <1>3, <2>3
  <2> QED  BY <2>4, <2>5
<1> QED  BY <1>2, <1>4, <1>5

\* What was merged before comes before what is merged next.
LEMMA MergedPrecedes ==
    ASSUME DirectoryInv, NEW m \in Left
    PROVE  /\ m \in Entries
           /\ \A o \in Interned, x \in TextRead(m) : Precedes(o.at, x.at)
           /\ Occurrences(BuildTable, 0) \subseteq Interned
<1>1. m \in Entries
  BY DEF Left, Selected, Failures
<1>2. \A i \in DOMAIN merged : PathRank[merged[i]] < PathRank[m] /\ merged[i] \in Entries
  BY DEF DirectoryInv, MergeInv, TaskTypes
<1>3. ASSUME NEW o \in Interned
      PROVE  \E a \in Nat : \E j : o.at = <<a, j>> /\ a < PathRank[m] + 1
  <2>1. PathRank[m] \in Nat
    BY <1>1, DirectoryConstants
  <2>2. CASE o \in Occurrences(BuildTable, 0)
    <3>1. \E j \in DOMAIN BuildTable : o.at = <<0, j>>
      BY <2>2, OccurrencePlaces
    <3> QED  BY <2>1, <3>1
  <2>3. ASSUME NEW i \in DOMAIN merged,
               o \in Occurrences(SubSeq(ModuleText[merged[i]], 1, read[merged[i]]),
                                 PathRank[merged[i]] + 1)
        PROVE  \E a \in Nat : \E j : o.at = <<a, j>> /\ a < PathRank[m] + 1
    <3> DEFINE p == merged[i]
    <3>1. \E j : o.at = <<PathRank[p] + 1, j>>
      BY <2>3, OccurrencePlaces
    <3>2. PathRank[p] < PathRank[m] /\ PathRank[p] \in Nat
      BY <1>2, DirectoryConstants
    <3> HIDE DEF p
    <3> QED  BY <2>1, <3>1, <3>2
  <2> QED  BY <2>2, <2>3 DEF Interned
<1>4. ASSUME NEW x \in TextRead(m) PROVE \E j : x.at = <<PathRank[m] + 1, j>>
  BY OccurrencePlaces DEF TextRead
<1>5. ASSUME NEW o \in Interned, NEW x \in TextRead(m) PROVE Precedes(o.at, x.at)
  BY <1>3, <1>4 DEF Precedes
<1> QED  BY <1>1, <1>5 DEF Interned

\* Merging one result.
LEMMA MergeResultDirectory ==
    ASSUME DirectoryInv, NEW m \in Entries, MergeResult(m)
    PROVE  DirectoryInv'
<1> DEFINE merge == MergeFrom(table, local[m], Len(BuildTable))
           R == merge.table
           B == Occurrences(BuildTable, 0)
           new == IF merge.remap.identity THEN held[m]
                  ELSE Remapped(held[m], merge.remap)
<1> USE DEF DirectoryInv
<1>1. /\ step = "merge" /\ m \in Left
      /\ \A n \in Left : PathRank[m] <= PathRank[n]
      /\ table' = R /\ outHeld' = outHeld \cup new
      /\ merged' = Append(merged, m)
      /\ UNCHANGED graphVars
      /\ UNCHANGED <<phase, waves, step, grouped, wave, local, read, outcome,
                     held>>
  BY DEF MergeResult, NextToMerge, graphVars
<1>2. /\ local[m] \in Seq(String) /\ NoDuplicates(local[m])
      /\ Len(BuildTable) \in 0 .. Len(local[m])
      /\ \A i \in 1 .. Len(BuildTable) : local[m][i] = BuildTable[i]
      /\ ListsByOccurrence(local[m], B \cup TextRead(m))
      /\ Mean(held[m], local[m])
      /\ held[m] \in SUBSET Holding
  BY TaskTable
<1>3. /\ table \in Seq(String) /\ NoDuplicates(table)
      /\ Extends(table, BuildTable) /\ Mean(outHeld, table)
      /\ ListsByOccurrence(table, Interned)
      /\ BuildTable \in Seq(String) /\ outHeld \in SUBSET Holding
  BY DirectoryConstants DEF TaskTypes, MergeInv, ListsByOccurrence
<1>4. MergeState(merge, String, table, local[m], Len(BuildTable), Len(local[m]))
  <2> DEFINE L == local[m]
             from == Len(BuildTable)
  <2>1. L \in Seq(String) /\ NoDuplicates(L) /\ from \in 0 .. Len(L)
    BY <1>2
  <2> HIDE DEF L, from
  <2>2. MergeState(MergeFrom(table, L, from), String, table, L, from, Len(L))
    BY <1>3, <2>1, MergeFromWorks
  <2> QED  BY <2>2 DEF L, from
<1> HIDE DEF merge
<1>5. /\ R \in Seq(String) /\ Extends(R, table)
      /\ MergedUpTo(R, table, local[m], Len(BuildTable),
                    Len(local[m]) - Len(BuildTable))
  <2>1. /\ R \in Seq(String)
        /\ MergedUpTo(R, table, local[m], Len(BuildTable),
                      Len(local[m]) - Len(BuildTable))
    BY <1>4 DEF MergeState, MergeStates
  <2> QED  BY <2>1, MergedExtends
<1>6. new \in SUBSET Holding /\ Mean(new, R)
  <2> DEFINE L == local[m]
             holdings == held[m]
             from == Len(BuildTable)
  <2>1. /\ L \in Seq(String) /\ from \in 0 .. Len(L)
        /\ holdings \in SUBSET Holding /\ Mean(holdings, L)
        /\ MergeState(merge, String, table, L, from, Len(L))
        /\ table \in Seq(String)
    BY <1>2, <1>3, <1>4
  <2>2. from <= Len(table) /\ \A i \in 1 .. from : table[i] = L[i]
    BY <1>2, <1>3 DEF Extends
  <2> HIDE DEF L, holdings, from
  <2>3. /\ Remapped(holdings, merge.remap) \in SUBSET Holding
        /\ Mean(Remapped(holdings, merge.remap), merge.table)
        /\ merge.remap.identity => Mean(holdings, merge.table)
    BY <2>1, <2>2, RemappedMean
  <2> QED  BY <2>1, <2>3 DEF holdings
<1>7. /\ m \in Entries
      /\ \A o \in Interned, x \in TextRead(m) : Precedes(o.at, x.at)
      /\ B \subseteq Interned
  BY <1>1, MergedPrecedes
<1>8. ListsByOccurrence(R, Interned \cup TextRead(m))
  <2> DEFINE L == local[m]
             base == Len(BuildTable)
             O == Interned
             X == TextRead(m)
  <2>1. {L[i] : i \in 1 .. base} = {o.text : o \in B}
    <3>0. DOMAIN BuildTable = 1 .. base /\ \A i \in 1 .. base : L[i] = BuildTable[i]
      BY <1>2, <1>3
    <3>1. ASSUME NEW i \in 1 .. base PROVE \E o \in B : L[i] = o.text
      <4>1. [text |-> BuildTable[i], at |-> <<0, i>>] \in B
        BY <3>0 DEF Occurrences
      <4> QED  BY <3>0, <4>1
    <3>2. ASSUME NEW o \in B PROVE \E i \in 1 .. base : L[i] = o.text
      <4>1. \E j \in DOMAIN BuildTable : o.text = BuildTable[j]
        BY OccurrencePlaces
      <4> QED  BY <3>0, <4>1
    <3> HIDE DEF B, base, L
    <3> QED  BY <3>1, <3>2
  <2>2. /\ L \in Seq(String) /\ base \in 0 .. Len(L)
        /\ ListsByOccurrence(L, B \cup X) /\ ListsByOccurrence(table, O)
        /\ MergedUpTo(R, table, L, base, Len(L) - base)
        /\ R \in Seq(String) /\ table \in Seq(String)
    BY <1>2, <1>3, <1>5
  <2>3. B \in SUBSET O /\ \A o \in O, x \in X : Precedes(o.at, x.at)
    BY <1>7
  <2> HIDE DEF L, base, O, X, B, R
  <2>4. ListsByOccurrence(R, O \cup X)
    BY <2>1, <2>2, <2>3, MergeLists
  <2> QED  BY <2>4 DEF O, X
<1> HIDE DEF R, B, new
<1>9. /\ merged' \in Seq(Entries) /\ Len(merged') = Len(merged) + 1
      /\ Len(merged) \in Nat
      /\ \A i \in 1 .. Len(merged) : merged'[i] = merged[i]
      /\ merged'[Len(merged) + 1] = m
      /\ DOMAIN merged = 1 .. Len(merged)
      /\ DOMAIN merged' = 1 .. Len(merged) + 1
      /\ Interned' = Interned \cup TextRead(m)
      /\ Selected' = Selected /\ Left' = Left \ {m}
  <2>1. merged' = Append(merged, m) /\ read' = read /\ outcome' = outcome
    BY <1>1
  <2> QED  BY <2>1, MergedOccurrences
<1>10. GraphInv'
  BY <1>1, StutterInv
<1>11. TaskTypes'
  <2>1. table' \in Seq(String) /\ outHeld' \in SUBSET Holding
    BY <1>1, <1>3, <1>5, <1>6
  <2>2. merged' \in Seq(Entries)
    BY <1>9
  <2> QED  BY <1>1, <2>1, <2>2 DEF TaskTypes
<1>12. WaveInv'
  <2>1. GroupsOf(grouped, Len(waves))' <=> GroupsOf(grouped, Len(waves))
    BY <1>1 DEF GroupsOf
  <2>2. \A p \in Entries : Started(p)' <=> Started(p)
    BY <1>1 DEF Started
  <2> QED  BY <1>1, <2>1, <2>2 DEF WaveInv
<1>13. TaskInv'
  BY <1>1 DEF TaskInv, TextRead
<1>14. MergeInv'
  <2>1. Extends(table', BuildTable)
    BY <1>1, <1>3, <1>5, ExtendsOn
  <2>2. Mean(outHeld', table')
    <3>1. Mean(outHeld, R)
      BY <1>3, <1>5, GrownTableMeans
    <3> QED  BY <1>1, <1>6, <3>1 DEF Mean
  <2>3. ListsByOccurrence(table', Interned')
    BY <1>1, <1>8, <1>9
  <2>4. ASSUME NEW i \in DOMAIN merged'
        PROVE  /\ merged'[i] \in Selected
               /\ \A n \in Left' : PathRank[merged'[i]] < PathRank[n]
    <3>1. CASE i \in DOMAIN merged
      BY <1>9, <3>1 DEF MergeInv
    <3>2. CASE i = Len(merged) + 1
      <4>1. m \in Selected
        BY <1>1 DEF Left
      <4>2. ASSUME NEW n \in Left' PROVE PathRank[m] < PathRank[n]
        <5>1. n \in Left /\ n # m /\ n \in Entries
          BY <1>9 DEF Left, Selected, Failures
        <5>2. PathRank[m] <= PathRank[n] /\ PathRank[m] # PathRank[n]
              /\ PathRank[m] \in Nat /\ PathRank[n] \in Nat
          BY <1>1, <5>1, DirectoryConstants
        <5> QED  BY <5>2
      <4> QED  BY <1>9, <3>2, <4>1, <4>2
    <3> QED  BY <1>9, <3>1, <3>2
  <2>5. ASSUME NEW i \in DOMAIN merged', NEW j \in DOMAIN merged', i < j
        PROVE  PathRank[merged'[i]] < PathRank[merged'[j]]
    <3>1. i \in DOMAIN merged
      BY <1>9, <2>5
    <3>2. CASE j \in DOMAIN merged
      BY <1>9, <2>5, <3>1, <3>2 DEF MergeInv
    <3>3. CASE j = Len(merged) + 1
      BY <1>1, <1>9, <3>1, <3>3 DEF MergeInv
    <3> QED  BY <1>9, <3>2, <3>3
  <2> QED  BY <1>1, <1>9, <2>1, <2>2, <2>3, <2>4, <2>5 DEF MergeInv
<1> QED  BY <1>10, <1>11, <1>12, <1>13, <1>14

\* The invariant of the compilation of a directory: its graph, its waves, its
\* tasks and the merge of their results.
THEOREM DirectoryInvariant == Spec => []DirectoryInv
<1>1. Init => DirectoryInv
  BY InitDirectory
<1>2. DirectoryInv /\ [Next]_vars => DirectoryInv'
  <2> SUFFICES ASSUME DirectoryInv, [Next]_vars PROVE DirectoryInv'
    OBVIOUS
  <2>1. CASE Graph
    BY <2>1, GraphDirectory
  <2>2. CASE GroupWaves
    BY <2>2, GroupWavesDirectory
  <2>3. ASSUME NEW m \in Entries, TaskIntern(m) PROVE DirectoryInv'
    BY <2>3, TaskInternDirectory
  <2>4. ASSUME NEW m \in Entries, NEW how \in {"ok", "diagnosed"},
               TaskEnds(m, how)
        PROVE  DirectoryInv'
    BY <2>4, TaskEndsDirectory
  <2>5. ASSUME NEW m \in Entries, TaskBreaks(m) PROVE DirectoryInv'
    BY <2>5, TaskBreaksDirectory
  <2>6. CASE CollectWave
    BY <2>6, CollectDirectory
  <2>7. CASE StartMerge \/ FinishBuild \/ Terminated \/ UNCHANGED vars
    BY <2>7, StepDirectory DEF Terminated
  <2>8. ASSUME NEW m \in Entries, MergeResult(m) PROVE DirectoryInv'
    BY <2>8, MergeResultDirectory
  <2> QED  BY <2>1, <2>2, <2>3, <2>4, <2>5, <2>6, <2>7, <2>8 DEF Next
<1> QED  BY <1>1, <1>2, PTL DEF Spec
-----------------------------------------------------------------------------
\* Types are respected, those of the graph included.
THEOREM DirectoryTypesHold == Spec => []TypeOK
<1>1. DirectoryInv => TypeOK
  BY DEF DirectoryInv, TaskTypes, TypeOK, GraphInv, EdgeInv, EdgeTypes,
         PeelInv, GraphTypeOK
<1> QED  BY <1>1, DirectoryInvariant, PTL

\* However the tasks of a wave interleave, and whatever support roots lie in
\* between, no module starts before the entry modules it depends on ended.
THEOREM ProvidersFinishFirstHolds == Spec => []ProvidersFinishFirst
<1>1. ASSUME DirectoryInv, NEW m \in Entries, Started(m),
             NEW p \in Upstream(m) \cap Entries
      PROVE  outcome[p] # "none"
  <2>1. /\ phase = "waves" /\ step # "inventory"
        /\ waves \in Seq(SUBSET Modules) /\ ProvidersComeFirst
        /\ wave \in Nat \ {0} /\ grouped \in Seq(SUBSET Entries)
    <3>1. grouped # << >>
      BY <1>1 DEF DirectoryInv, WaveInv
    <3> QED  BY <1>1, <3>1 DEF DirectoryInv, WaveInv, GraphInv, PeelInv, TaskTypes
  <2>2. PICK k \in DOMAIN grouped : k <= wave /\ m \in grouped[k]
    BY <1>1 DEF DirectoryInv, WaveInv
  <2>3. PICK j \in 1 .. Len(waves) :
            /\ grouped[k] = waves[j] \cap Entries
            /\ \A i \in 1 .. j - 1 : \A q \in waves[i] \cap Entries :
                  \E l \in 1 .. k - 1 : q \in grouped[l]
    BY <1>1, <2>1 DEF DirectoryInv, WaveInv, GroupsOf
  <2> DEFINE S == UNION {waves[i] : i \in 1 .. j - 1}
  <2>4. \A i \in 1 .. j - 1 : i \in DOMAIN waves /\ waves[i] \in SUBSET Modules
    BY <2>1
  <2>5. S \in SUBSET Modules
    BY <2>4
  <2>6. providers[m] \subseteq S
    <3>1. j \in DOMAIN waves /\ m \in waves[j]
      BY <2>1, <2>2, <2>3
    <3> QED  BY <2>1, <3>1 DEF ProvidersComeFirst
  <2>7. ASSUME NEW n \in S PROVE providers[n] \subseteq S
    <3>1. PICK i \in 1 .. j - 1 : n \in waves[i]
      OBVIOUS
    <3>2. ASSUME NEW q \in providers[n] PROVE q \in S
      <4>1. PICK h \in 1 .. i - 1 : q \in waves[h]
        BY <2>1, <2>4, <3>1 DEF ProvidersComeFirst
      <4>2. h \in 1 .. j - 1
        OBVIOUS
      <4> QED  BY <4>1, <4>2
    <3> QED  BY <3>2
  <2>8. p \in S
    BY <2>5, <2>6, <2>7 DEF Upstream
  <2>9. PICK i \in 1 .. j - 1 : p \in waves[i]
    BY <2>8
  <2>10. PICK l \in 1 .. k - 1 : p \in grouped[l]
    BY <2>3, <2>9
  <2>11. l \in 1 .. wave - 1
    BY <2>1, <2>2
  <2> QED  BY <1>1, <2>10, <2>11 DEF DirectoryInv, WaveInv
<1>2. DirectoryInv => ProvidersFinishFirst
  BY <1>1 DEF ProvidersFinishFirst, Started
<1> QED  BY <1>2, DirectoryInvariant, PTL

\* The ids in a task, in the result of an infrastructure error and after the
\* merge mean the strings they were issued for, whatever the texts are.
THEOREM DirectoryIdsKeepTheirStrings == Spec => []IdsKeepTheirStrings
<1>1. DirectoryInv => IdsKeepTheirStrings
  BY DEF DirectoryInv, TaskInv, MergeInv, Mean, IdsKeepTheirStrings
<1> QED  BY <1>1, DirectoryInvariant, PTL

\* The build's result depends on the texts and the paths alone, not on the
\* waves or on how their tasks interleave.
THEOREM BuildIsDeterministicHolds == Spec => []BuildIsDeterministic
<1>1. ASSUME DirectoryInv, Finished, phase = "waves"
      PROVE  /\ {merged[i] : i \in DOMAIN merged} =
                    {m \in Entries : Failures = {} \/ m \in Failures}
             /\ \A i, j \in DOMAIN merged :
                    i < j => PathRank[merged[i]] < PathRank[merged[j]]
             /\ ListsByOccurrence(table, Interned)
  <2>1. Left = {} /\ \A i \in DOMAIN merged : merged[i] \in Selected
    BY <1>1 DEF DirectoryInv, MergeInv, Finished
  <2>2. {merged[i] : i \in DOMAIN merged} = Selected
    BY <2>1 DEF Left
  <2>3. Selected = {m \in Entries : Failures = {} \/ m \in Failures}
    BY DEF Selected, Failures
  <2> QED  BY <1>1, <2>2, <2>3 DEF DirectoryInv, MergeInv
<1>2. DirectoryInv => BuildIsDeterministic
  BY <1>1 DEF BuildIsDeterministic
<1> QED  BY <1>2, DirectoryInvariant, PTL

\* A failure stops no other module: when the build finished, every entry
\* module was compiled.
THEOREM EveryModuleIsCompiledHolds == Spec => []EveryModuleIsCompiled
<1>1. ASSUME DirectoryInv, Finished, phase = "waves", NEW m \in Entries
      PROVE  outcome[m] # "none"
  <2>1. GroupsOf(grouped, Len(waves)) /\ wave = Len(grouped) + 1
        /\ \A k \in 1 .. wave - 1 : \A p \in grouped[k] : outcome[p] # "none"
    BY <1>1 DEF DirectoryInv, WaveInv, Finished
  <2>2. waves \in Seq(SUBSET Modules) /\ grouped \in Seq(SUBSET Entries)
    BY <1>1 DEF DirectoryInv, GraphInv, PeelInv, TaskTypes
  <2>3. m \in Scheduled
    BY <1>1, ReturnedWavesHoldAll, DirectoryConstants DEF DirectoryInv
  <2>4. PICK i \in 1 .. Len(waves) : m \in waves[i]
    BY <2>2, <2>3 DEF Scheduled
  <2>5. PICK l \in DOMAIN grouped : m \in grouped[l]
    BY <2>1, <2>4 DEF GroupsOf
  <2>6. l \in 1 .. wave - 1
    BY <2>1, <2>2
  <2> QED  BY <2>1, <2>5, <2>6
<1>2. DirectoryInv => EveryModuleIsCompiled
  BY <1>1 DEF EveryModuleIsCompiled
<1> QED  BY <1>2, DirectoryInvariant, PTL
=============================================================================
