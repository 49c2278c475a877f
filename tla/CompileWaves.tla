---------------------------- MODULE CompileWaves ----------------------------
(***************************************************************************)
(* The order in which the modules of a directory project compile:          *)
(* module_inventory.rs merges the import facts observed during discovery   *)
(* into the project module graph as provider-before-consumer edges         *)
(* (merge_local_structural_dependencies), and the graph peels itself into  *)
(* compile waves (project_module_graph.rs, compile_waves).                 *)
(*                                                                         *)
(* The order of the modules inside one wave (ModuleId order) is left out:  *)
(* a wave is compiled in parallel and its results are sorted afterwards.   *)
(***************************************************************************)
EXTENDS Integers, Sequences, FiniteSets

CONSTANTS
    ModuleCount,      \* the nodes of the project module graph
    Observations      \* the sequences of import facts discovery can return

Modules == 0 .. ModuleCount - 1

\* Discovery reports an import only across two module roots.
Edge == {e \in [provider : Modules, consumer : Modules] :
            e.provider # e.consumer}

ASSUME GraphAssumption ==
    ModuleCount \in Nat \ {0} /\ Observations \subseteq Seq(Edge)

VARIABLES
    observed,     \* the facts discovery returned, in seed order
    phase,        \* "edges", "peel", then "waves" or "cycle"
    facts,        \* the places in observed of the facts not merged yet
    providers,    \* dependency_providers
    consumers,    \* provider_consumers
    location,     \* edge_source_locations: a place in observed, 0 for none
    remaining,    \* remaining_providers
    ready,
    waves,
    processed

graphVars == <<observed, phase, facts, providers, consumers, location,
               remaining, ready, waves, processed>>

GraphInit ==
    /\ observed \in Observations
    /\ phase = "edges"
    /\ facts = DOMAIN observed
    /\ providers = [m \in Modules |-> {}]
    /\ consumers = [m \in Modules |-> {}]
    /\ location = [p \in Modules |-> [c \in Modules |-> 0]]
    /\ remaining = [m \in Modules |-> 0]
    /\ ready = {}
    /\ waves = << >>
    /\ processed = 0

\* The stable sort of the facts by consumer root, then by provider root;
\* ModuleIds follow the order of the root directories.
SortedBefore(i, j) ==
    LET a == observed[i]
        b == observed[j]
    IN  \/ a.consumer < b.consumer
        \/ a.consumer = b.consumer /\ a.provider < b.provider
        \/ a.consumer = b.consumer /\ a.provider = b.provider /\ i < j

\* A plausible bug: a later observation overwrites the location of an edge.
MergeFactOverwriting(i) ==
    LET p == observed[i].provider
        c == observed[i].consumer
    IN  /\ phase = "edges" /\ i \in facts
        /\ \A j \in facts \ {i} : SortedBefore(i, j)
        /\ facts' = facts \ {i}
        /\ providers' = [providers EXCEPT ![c] = @ \cup {p}]
        /\ consumers' = [consumers EXCEPT ![p] = @ \cup {c}]
        /\ location' = [location EXCEPT ![p][c] = i]
        /\ UNCHANGED <<observed, phase, remaining, ready, waves, processed>>

\* add_local_structural_dependency_edge for the next fact of the sorted list:
\* a duplicate changes neither the edge nor its location.
MergeFact(i) ==
    LET p == observed[i].provider
        c == observed[i].consumer
    IN  /\ phase = "edges" /\ i \in facts
        /\ \A j \in facts \ {i} : SortedBefore(i, j)
        /\ facts' = facts \ {i}
        /\ providers' = [providers EXCEPT ![c] = @ \cup {p}]
        /\ consumers' = [consumers EXCEPT ![p] = @ \cup {c}]
        /\ location' = IF p \in providers[c] THEN location
                       ELSE [location EXCEPT ![p][c] = i]
        /\ UNCHANGED <<observed, phase, remaining, ready, waves, processed>>

\* The head of compile_waves.
StartPeel ==
    /\ phase = "edges" /\ facts = {}
    /\ phase' = "peel"
    /\ remaining' = [m \in Modules |-> Cardinality(providers[m])]
    /\ ready' = {m \in Modules : remaining'[m] = 0}
    /\ UNCHANGED <<observed, facts, providers, consumers, location, waves,
                   processed>>

\* The providers of m that complete with the current wave.
Released(m) == {p \in ready : m \in consumers[p]}

\* Plausible bugs: a module is released by its first provider; a module that
\* lost a provider in an earlier wave is looked at only in that wave.
PeelWaveOnFirst ==
    /\ phase = "peel" /\ ready # {}
    /\ waves' = Append(waves, ready)
    /\ remaining' = [m \in Modules |->
                        remaining[m] - Cardinality(Released(m))]
    /\ ready' = {m \in Modules : Released(m) # {}}
    /\ processed' = processed + Cardinality(ready)
    /\ UNCHANGED <<observed, phase, facts, providers, consumers, location>>

PeelWaveOneEach ==
    /\ phase = "peel" /\ ready # {}
    /\ waves' = Append(waves, ready)
    /\ remaining' = [m \in Modules |->
                        IF Released(m) = {} THEN remaining[m]
                        ELSE remaining[m] - 1]
    /\ ready' = {m \in Modules : Released(m) # {} /\ remaining'[m] = 0}
    /\ processed' = processed + Cardinality(ready)
    /\ UNCHANGED <<observed, phase, facts, providers, consumers, location>>

PeelWaveOneByOne ==
    \E m \in ready :
        /\ phase = "peel"
        /\ waves' = Append(waves, {m})
        /\ remaining' = [n \in Modules |->
                            IF n \in consumers[m] THEN remaining[n] - 1
                            ELSE remaining[n]]
        /\ ready' = (ready \ {m}) \cup
                    {n \in consumers[m] : remaining'[n] = 0}
        /\ processed' = processed + 1
        /\ UNCHANGED <<observed, phase, facts, providers, consumers, location>>

\* One iteration of its loop, over every edge that leaves the wave.
PeelWave ==
    /\ phase = "peel" /\ ready # {}
    /\ waves' = Append(waves, ready)
    /\ remaining' = [m \in Modules |->
                        remaining[m] - Cardinality(Released(m))]
    /\ ready' = {m \in Modules : Released(m) # {} /\ remaining'[m] = 0}
    /\ processed' = processed + Cardinality(ready)
    /\ UNCHANGED <<observed, phase, facts, providers, consumers, location>>

\* A plausible bug: the loop is believed to end only when all modules are scheduled.
FinishPeelTrusting ==
    /\ phase = "peel" /\ ready = {}
    /\ phase' = "waves"
    /\ UNCHANGED <<observed, facts, providers, consumers, location, remaining,
                   ready, waves, processed>>

FinishPeel ==
    /\ phase = "peel" /\ ready = {}
    /\ phase' = IF processed < ModuleCount THEN "cycle" ELSE "waves"
    /\ UNCHANGED <<observed, facts, providers, consumers, location, remaining,
                   ready, waves, processed>>

GraphNext ==
    \/ \E i \in facts : MergeFact(i)
    \/ StartPeel
    \/ PeelWave
    \/ FinishPeel

\* compile_waves has returned.
GraphReturned == phase \in {"waves", "cycle"} /\ UNCHANGED graphVars

GraphSpec == GraphInit /\ [][GraphNext \/ GraphReturned]_graphVars

-----------------------------------------------------------------------------
\* Remaining counts stay natural numbers: the usize decrement never wraps.
GraphTypeOK ==
    /\ observed \in Seq(Edge)
    /\ phase \in {"edges", "peel", "waves", "cycle"}
    /\ facts \subseteq DOMAIN observed
    /\ providers \in [Modules -> SUBSET Modules]
    /\ consumers \in [Modules -> SUBSET Modules]
    /\ location \in [Modules -> [Modules -> Nat]]
    /\ remaining \in [Modules -> Nat]
    /\ ready \subseteq Modules
    /\ waves \in Seq(SUBSET Modules)
    /\ processed \in Nat

\* A module is never in a wave before all of its providers are in earlier ones.
ProvidersComeFirst ==
    \A k \in DOMAIN waves : \A m \in waves[k] : \A p \in providers[m] :
        \E j \in 1 .. k - 1 : p \in waves[j]

\* No module is scheduled twice, and when waves are returned none is left out.
ModulesCompileOnce ==
    /\ \A j, k \in DOMAIN waves : j # k => waves[j] \cap waves[k] = {}
    /\ phase = "waves" => Modules \subseteq UNION {waves[k] : k \in DOMAIN waves}

\* A set in which every module waits for another one of the set.
Deadlocked(S) == \A m \in S : providers[m] \cap S # {}

\* A cycle is reported exactly when there is one, and the modules named are
\* all those that a cycle keeps from compiling, and only those.
CyclesAreReported ==
    /\ phase = "waves" =>
          \A S \in SUBSET Modules : Deadlocked(S) => S = {}
    /\ phase = "cycle" =>
          LET blocked == {m \in Modules : remaining[m] > 0}
          IN  /\ blocked # {} /\ Deadlocked(blocked)
              /\ \A S \in SUBSET Modules : Deadlocked(S) => S \subseteq blocked

\* A module waits for no wave longer than it has to: one of its providers is
\* in the wave before its own.
WavesAreEarliest ==
    \A k \in 2 .. Len(waves) : \A m \in waves[k] :
        providers[m] \cap waves[k - 1] # {}

\* The merged facts that asked for an edge.
Asked(p, c) == {i \in DOMAIN observed \ facts :
                   observed[i] = [provider |-> p, consumer |-> c]}

FirstLocationKept(p, c) ==
    /\ p \in providers[c] <=> Asked(p, c) # {}
    /\ Asked(p, c) # {} => /\ location[p][c] \in Asked(p, c)
                           /\ \A i \in Asked(p, c) : location[p][c] <= i

\* An edge is reported at the first import that asked for it, also when the
\* sort has moved the facts of other edges in between.
EdgesKeepTheirFirstLocation == \A p, c \in Modules : FirstLocationKept(p, c)
=============================================================================
