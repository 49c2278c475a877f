-------------------------- MODULE DirectoryCompile --------------------------
(***************************************************************************)
(* Compilation of a directory project (compilation.rs,                     *)
(* compile_directory_frontend): the compile waves are taken one after the  *)
(* other, the entry modules of a wave compile in parallel against forks of *)
(* one snapshot of the build's string table, and the results, sorted by    *)
(* entry path, are merged: the failures alone into a fork when a module    *)
(* failed, all modules into the build's table otherwise.                   *)
(*                                                                         *)
(* A module is abstracted to the sequence of strings its frontend interns  *)
(* (FilePreparation is the inside of one such task) and its result to the  *)
(* ids it holds, each kept with the string it was issued for.              *)
(***************************************************************************)
EXTENDS CompileWaves, StringTable

CONSTANTS
    Entries,      \* the normal entry modules: no support roots, no facade
    PathRank,     \* PathRank[m] : the place of m's root file in path order
    String,
    BuildTable,   \* the build's table when the forks are taken
    ModuleText    \* ModuleText[m] : the strings m's frontend interns

ASSUME DirectoryAssumption ==
    /\ Entries \subseteq Modules /\ Entries # {}
    /\ PathRank \in [Modules -> Nat]
    /\ \A m, n \in Modules : PathRank[m] = PathRank[n] => m = n
    /\ BuildTable \in Seq(String) /\ NoDuplicates(BuildTable)
    /\ ModuleText \in [Modules -> Seq(String)]

VARIABLES
    step,       \* "inventory", "compile", "merge", "compiled" or "failed"
    grouped,    \* ModuleEntryCompileWaves
    wave,       \* the wave being compiled
    local,      \* local[m] : the string table of m's task, then of its result
    read,       \* the strings of ModuleText[m] that m's task interned
    outcome,    \* outcome[m] : "none" until the task ends, then how it ended
    held,       \* held[m] : the ids m's result holds
    table,      \* the build's table, or the aggregated table of the failures
    merged,     \* the modules whose results are merged, in merge order
    outHeld     \* the ids the merged results hold

taskVars == <<step, grouped, wave, local, read, outcome, held, table, merged,
              outHeld>>
vars == <<graphVars, taskVars>>

Holding == [module : Modules, id : Nat, text : String]

Init ==
    /\ GraphInit
    /\ step = "inventory"
    /\ grouped = << >>
    /\ wave = 1
    /\ local = [m \in Entries |-> BuildTable]
    /\ read = [m \in Entries |-> 0]
    /\ outcome = [m \in Entries |-> "none"]
    /\ held = [m \in Entries |-> {}]
    /\ table = BuildTable
    /\ merged = << >>
    /\ outHeld = {}

Graph == step = "inventory" /\ GraphNext /\ UNCHANGED taskVars

\* order_discovered_modules_by_compile_waves: entry modules only, and no wave
\* without one.
EntryWaves ==
    LET kept[k \in 0 .. Len(waves)] ==
            IF k = 0 THEN << >>
            ELSE IF waves[k] \cap Entries = {} THEN kept[k - 1]
            ELSE Append(kept[k - 1], waves[k] \cap Entries)
    IN  kept[Len(waves)]

GroupWaves ==
    /\ step = "inventory" /\ phase \in {"waves", "cycle"}
    /\ IF phase = "cycle"
       THEN step' = "failed" /\ UNCHANGED grouped
       ELSE step' = "compile" /\ grouped' = EntryWaves
    /\ UNCHANGED <<graphVars, wave, local, read, outcome, held, table, merged,
                   outHeld>>

\* A plausible bug: the tasks of every wave are spawned at once.
RunningAtOnce(m) ==
    step = "compile" /\ wave \in DOMAIN grouped /\ outcome[m] = "none"

Running(m) ==
    /\ step = "compile" /\ wave \in DOMAIN grouped
    /\ m \in grouped[wave] /\ outcome[m] = "none"

\* The task of m interns its next string; its result will hold the id.
TaskIntern(m) ==
    LET s == ModuleText[m][read[m] + 1]
    IN  /\ Running(m) /\ read[m] < Len(ModuleText[m])
        /\ local' = [local EXCEPT ![m] = Intern(@, s)]
        /\ held' = [held EXCEPT ![m] = @ \cup
                       {[module |-> m, id |-> IdOf(local'[m], s), text |-> s]}]
        /\ read' = [read EXCEPT ![m] = @ + 1]
        /\ UNCHANGED <<graphVars, step, grouped, wave, outcome, table, merged,
                       outHeld>>

\* The task ends with a module when all of it was compiled, with diagnostics
\* at any point of it.  Both carry the task's table.
TaskEnds(m, how) ==
    /\ Running(m)
    /\ how = "ok" => read[m] = Len(ModuleText[m])
    /\ outcome' = [outcome EXCEPT ![m] = how]
    /\ UNCHANGED <<graphVars, step, grouped, wave, local, read, held, table,
                   merged, outHeld>>

\* One iteration of merge_from and merge_delta_from.
MergeString(acc, s) ==
    LET t == Intern(acc.table, s)
    IN  [table |-> t, remap |-> RemapNext(acc.remap, IdOf(t, s))]

\* merge_from (from = 0) and merge_delta_from: the table and the remap.
MergeFrom(target, other, from) ==
    LET merge[k \in from .. Len(other)] ==
            IF k = from THEN [table |-> target, remap |-> NewRemap(from)]
            ELSE MergeString(merge[k - 1], other[k])
    IN  merge[Len(other)]

Remapped(holdings, remap) ==
    {[h EXCEPT !.id = RemapGet(remap, @)] : h \in holdings}

\* A plausible bug: the result of an infrastructure error carries the fresh
\* fork without the strings of the table that issued its ids.
TaskBreaksWithoutContext(m) ==
    /\ Running(m)
    /\ outcome' = [outcome EXCEPT ![m] = "broken"]
    /\ local' = [local EXCEPT ![m] = BuildTable]
    /\ UNCHANGED <<graphVars, step, grouped, wave, read, held, table, merged,
                   outHeld>>

\* Or with an infrastructure error, whose result carries a fresh fork into
\* which the table attached to the error is merged.
TaskBreaks(m) ==
    LET merge == MergeFrom(BuildTable, local[m], 0)
    IN  /\ Running(m)
        /\ outcome' = [outcome EXCEPT ![m] = "broken"]
        /\ local' = [local EXCEPT ![m] = merge.table]
        /\ held' = [held EXCEPT ![m] = Remapped(@, merge.remap)]
        /\ UNCHANGED <<graphVars, step, grouped, wave, read, table, merged,
                       outHeld>>

\* A plausible bug: the waves after a failed one are skipped.
CollectWaveOrStop ==
    /\ step = "compile" /\ wave \in DOMAIN grouped
    /\ \A m \in grouped[wave] : outcome[m] # "none"
    /\ wave' = IF \A m \in grouped[wave] : outcome[m] = "ok" THEN wave + 1
               ELSE Len(grouped) + 1
    /\ UNCHANGED <<graphVars, step, grouped, local, read, outcome, held, table,
                   merged, outHeld>>

\* The wave is collected when all of its tasks ended.
CollectWave ==
    /\ step = "compile" /\ wave \in DOMAIN grouped
    /\ \A m \in grouped[wave] : outcome[m] # "none"
    /\ wave' = wave + 1
    /\ UNCHANGED <<graphVars, step, grouped, local, read, outcome, held, table,
                   merged, outHeld>>

Failures == {m \in Entries : outcome[m] \in {"diagnosed", "broken"}}

\* The sort by entry path and the partition.
StartMerge ==
    /\ step = "compile" /\ wave \notin DOMAIN grouped
    /\ step' = "merge"
    /\ UNCHANGED <<graphVars, grouped, wave, local, read, outcome, held, table,
                   merged, outHeld>>

\* The results that are merged: those of the failures alone, if there are any.
Selected == IF Failures # {} THEN Failures ELSE Entries

Left == Selected \ {merged[i] : i \in DOMAIN merged}

\* A plausible bug: the results are merged without the sort.
NextToMergeAny(m) == m \in Left

NextToMerge(m) ==
    m \in Left /\ \A n \in Left : PathRank[m] <= PathRank[n]

\* One iteration of the failure aggregation or of the success merge.
MergeResult(m) ==
    LET merge == MergeFrom(table, local[m], Len(BuildTable))
    IN  /\ step = "merge" /\ NextToMerge(m)
        /\ table' = merge.table
        /\ outHeld' = outHeld \cup
               (IF merge.remap.identity THEN held[m]
                ELSE Remapped(held[m], merge.remap))
        /\ merged' = Append(merged, m)
        /\ UNCHANGED <<graphVars, step, grouped, wave, local, read, outcome,
                       held>>

FinishBuild ==
    /\ step = "merge" /\ Left = {}
    /\ step' = IF Failures # {} THEN "failed" ELSE "compiled"
    /\ UNCHANGED <<graphVars, grouped, wave, local, read, outcome, held, table,
                   merged, outHeld>>

Finished == step \in {"compiled", "failed"}

Terminated == Finished /\ UNCHANGED vars

Next ==
    \/ Graph
    \/ GroupWaves
    \/ \E m \in Entries : TaskIntern(m)
    \/ \E m \in Entries, how \in {"ok", "diagnosed"} : TaskEnds(m, how)
    \/ \E m \in Entries : TaskBreaks(m)
    \/ CollectWave
    \/ StartMerge
    \/ \E m \in Entries : MergeResult(m)
    \/ FinishBuild
    \/ Terminated

Spec == Init /\ [][Next]_vars
-----------------------------------------------------------------------------
TypeOK ==
    /\ GraphTypeOK
    /\ step \in {"inventory", "compile", "merge", "compiled", "failed"}
    /\ grouped \in Seq(SUBSET Entries)
    /\ wave \in Nat \ {0}
    /\ local \in [Entries -> Seq(String)]
    /\ read \in [Entries -> Nat]
    /\ outcome \in [Entries -> {"none", "ok", "diagnosed", "broken"}]
    /\ held \in [Entries -> SUBSET Holding]
    /\ table \in Seq(String)
    /\ merged \in Seq(Entries)
    /\ outHeld \in SUBSET Holding

\* The modules m depends on, directly or through others.
Upstream(m) ==
    {p \in Modules : \A S \in SUBSET Modules :
        (providers[m] \subseteq S /\ \A n \in S : providers[n] \subseteq S)
            => p \in S}

\* No module starts before every entry module it depends on has ended, also
\* when the dependency leads through a root that is no entry.
ProvidersFinishFirst ==
    \A m \in Entries : (read[m] > 0 \/ outcome[m] # "none") =>
        \A p \in Upstream(m) \cap Entries : outcome[p] # "none"

\* The ids of diagnostics and modules mean the strings they were issued for:
\* in the task's table, in the table an infrastructure error carries, and
\* after the merge in the aggregated or the build's table.
IdsKeepTheirStrings ==
    /\ \A m \in Entries : \A h \in held[m] :
          Issued(local[m], h.id) /\ Resolve(local[m], h.id) = h.text
    /\ \A h \in outHeld : Issued(table, h.id) /\ Resolve(table, h.id) = h.text

\* What the merged modules interned, by the place of the module in path order.
Interned ==
    Occurrences(BuildTable, 0) \cup
    UNION {Occurrences(SubSeq(ModuleText[m], 1, read[m]), PathRank[m] + 1) :
               m \in {merged[i] : i \in DOMAIN merged}}

\* The build returns every failed module and no other, or every entry module,
\* in path order; and its table is the one a serial compilation in that order
\* would have built, whatever the waves and the interleaving were.
BuildIsDeterministic ==
    Finished /\ phase = "waves" =>
        /\ {merged[i] : i \in DOMAIN merged} =
              {m \in Entries : Failures = {} \/ m \in Failures}
        /\ \A i, j \in DOMAIN merged :
              i < j => PathRank[merged[i]] < PathRank[merged[j]]
        /\ ListsByOccurrence(table, Interned)

\* A failed module hides none of the others: every entry module is compiled,
\* also those that depend on the failed one.
EveryModuleIsCompiled ==
    Finished /\ phase = "waves" => \A m \in Entries : outcome[m] # "none"
=============================================================================
