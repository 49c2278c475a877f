-------------------------- MODULE FilePreparation --------------------------
(***************************************************************************)
(* Preparation of the source files of one module                           *)
(* (frontend_orchestration.rs, prepare_module_files): the files are split  *)
(* into chunks, a Rayon worker per chunk tokenizes and parses its files    *)
(* against its own fork of the module's string table, and the owner then   *)
(* merges the forks in chunk order, rewriting the ids the results hold.    *)
(*                                                                         *)
(* A file is abstracted to the sequence of strings its preparation         *)
(* interns; its result is the set of ids it retains, each kept with the    *)
(* string it was issued for, a history the code does not have.             *)
(***************************************************************************)
EXTENDS StringTable, ChunkPlan, FiniteSets

CONSTANTS
    String,           \* the strings source files can contain
    BaseTable,        \* the module's table before its files are prepared
    FileText,         \* FileText[f] : the strings file f interns, in order
    MaxFiles,         \* bound on the files of a module
    MaxThreads        \* bound on Rayon's worker count

Files == 0 .. MaxFiles - 1

ASSUME BoundsAssumption ==
    MaxFiles \in Nat \ {0} /\ MaxThreads \in Nat \ {0}

ASSUME TextAssumption ==
    /\ BaseTable \in Seq(String) /\ NoDuplicates(BaseTable)
    /\ FileText \in [Files -> Seq(String)]

VARIABLES
    fileCount, \* the files of the module
    threads,   \* Rayon's worker count
    pc,        \* what the preparing thread does
    plan,      \* the chunks: half-open ranges of file indexes
    table,     \* the module's string table
    local,     \* local[c] : the string table of chunk c's worker
    cursor,    \* cursor[c] : the file chunk c prepares and its next string
    results,   \* results[c] : the files chunk c finished, in order
    held,      \* held[c] : the ids the results of chunk c hold
    merging,   \* the chunk being validated or merged
    expected,  \* validate_preparation_chunk_order's expected_file_index
    remap,     \* the remap of the chunk being merged
    outputs,   \* the results of the merged chunks, in merge order
    outHeld    \* the ids those results hold

vars == <<fileCount, threads, pc, plan, table, local, cursor, results, held,
          merging, expected, remap, outputs, outHeld>>

Chunks == DOMAIN plan
BaseLen == Len(BaseTable)

\* An id a file retains, with the string it was issued for.
Holding == [file : Files, id : Nat, text : String]

Result == [file : Files, ok : BOOLEAN, read : Nat]

-----------------------------------------------------------------------------
Init ==
    /\ fileCount \in 1 .. MaxFiles
    /\ threads \in 1 .. MaxThreads
    /\ \E large \in BOOLEAN : plan = PlanFor(fileCount, large, threads)
    /\ pc = "prepare"
    /\ table = BaseTable
    /\ local = [c \in Chunks |-> BaseTable]
    /\ cursor = [c \in Chunks |-> [file |-> plan[c].first, read |-> 0]]
    /\ results = [c \in Chunks |-> << >>]
    /\ held = [c \in Chunks |-> {}]
    /\ merging = 1
    /\ expected = 0
    /\ remap = NewRemap(BaseLen)
    /\ outputs = << >>
    /\ outHeld = {}

HasFile(c) == cursor[c].file < plan[c].end

\* The worker of chunk c interns the next string of its current file; the
\* file's output keeps the id.
WorkerIntern(c) ==
    LET f == cursor[c].file
        k == cursor[c].read + 1
    IN  /\ pc = "prepare" /\ HasFile(c)
        /\ k \in DOMAIN FileText[f]
        /\ local' = [local EXCEPT ![c] = Intern(@, FileText[f][k])]
        /\ held' = [held EXCEPT ![c] = @ \cup
               {[file |-> f, id |-> IdOf(local'[c], FileText[f][k]),
                 text |-> FileText[f][k]]}]
        /\ cursor' = [cursor EXCEPT ![c].read = k]
        /\ UNCHANGED <<fileCount, threads, pc, plan, table, results, merging,
                       expected, remap, outputs, outHeld>>

\* It finishes a file: with an output when the whole text was read, with a
\* diagnostic at any point of it, and goes on to the next file either way.
WorkerFinishFile(c, ok) ==
    LET f == cursor[c].file
    IN  /\ pc = "prepare" /\ HasFile(c)
        /\ ok => cursor[c].read = Len(FileText[f])
        /\ results' = [results EXCEPT ![c] =
               Append(@, [file |-> f, ok |-> ok, read |-> cursor[c].read])]
        /\ cursor' = [cursor EXCEPT ![c] = [file |-> f + 1, read |-> 0]]
        /\ UNCHANGED <<fileCount, threads, pc, plan, table, local, held,
                       merging, expected, remap, outputs, outHeld>>

\* The parallel iterator is collected when every worker has returned.
CollectChunks ==
    /\ pc = "prepare"
    /\ \A c \in Chunks : ~HasFile(c)
    /\ pc' = "validate"
    /\ UNCHANGED <<fileCount, threads, plan, table, local, cursor, results,
                   held, merging, expected, remap, outputs, outHeld>>

\* One iteration of validate_preparation_chunk_order.
ChunkIsOrdered(c) ==
    /\ plan[c].first = expected
    /\ plan[c].end >= plan[c].first
    /\ plan[c].end <= fileCount
    /\ Len(results[c]) = plan[c].end - plan[c].first
    /\ \A i \in DOMAIN results[c] : results[c][i].file = plan[c].first + i - 1

ValidateChunk ==
    /\ pc = "validate" /\ merging \in Chunks
    /\ IF ChunkIsOrdered(merging)
       THEN /\ expected' = plan[merging].end
            /\ merging' = merging + 1
            /\ UNCHANGED pc
       ELSE /\ pc' = "rejected"
            /\ UNCHANGED <<expected, merging>>
    /\ UNCHANGED <<fileCount, threads, plan, table, local, cursor, results,
                   held, remap, outputs, outHeld>>

FinishValidation ==
    /\ pc = "validate" /\ merging \notin Chunks
    /\ pc' = IF expected = fileCount THEN "merge" ELSE "rejected"
    /\ merging' = 1
    /\ UNCHANGED <<fileCount, threads, plan, table, local, cursor, results,
                   held, expected, remap, outputs, outHeld>>

\* One iteration of merge_delta_from for the chunk being merged.
MergeString ==
    LET next == BaseLen + Len(remap.suffix) + 1
    IN  /\ pc = "merge" /\ merging \in Chunks
        /\ next <= Len(local[merging])
        /\ table' = Intern(table, local[merging][next])
        /\ remap' = RemapNext(remap, IdOf(table', local[merging][next]))
        /\ UNCHANGED <<fileCount, threads, pc, plan, local, cursor, results,
                       held, merging, expected, outputs, outHeld>>

\* A plausible bug: results in the order in which chunks come off a stack.
MergeChunkResultsInFront ==
    /\ pc = "merge" /\ merging \in Chunks
    /\ BaseLen + Len(remap.suffix) = Len(local[merging])
    /\ outputs' = results[merging] \o outputs
    /\ outHeld' = outHeld \cup
           {[h EXCEPT !.id = RemapGet(remap, @)] : h \in held[merging]}
    /\ merging' = merging + 1
    /\ remap' = NewRemap(BaseLen)
    /\ UNCHANGED <<fileCount, threads, pc, plan, table, local, cursor, results,
                   held, expected>>

\* The rest of the merge of a chunk: its results are rewritten unless the
\* remap is the identity, and appended to the module's.
MergeChunkResults ==
    /\ pc = "merge" /\ merging \in Chunks
    /\ BaseLen + Len(remap.suffix) = Len(local[merging])
    /\ outputs' = outputs \o results[merging]
    /\ outHeld' = outHeld \cup
           (IF remap.identity THEN held[merging]
            ELSE {[h EXCEPT !.id = RemapGet(remap, @)] : h \in held[merging]})
    /\ merging' = merging + 1
    /\ remap' = NewRemap(BaseLen)
    /\ UNCHANGED <<fileCount, threads, pc, plan, table, local, cursor, results,
                   held, expected>>

\* The module fails when any file was diagnosed, after every file was merged;
\* prepare_header_syntax, which works on all outputs, may still refuse it.
FinishMerge ==
    /\ pc = "merge" /\ merging \notin Chunks
    /\ pc' \in IF \E i \in DOMAIN outputs : ~outputs[i].ok
               THEN {"diagnosed"} ELSE {"prepared", "diagnosed"}
    /\ UNCHANGED <<fileCount, threads, plan, table, local, cursor, results,
                   held, merging, expected, remap, outputs, outHeld>>

Terminated ==
    /\ pc \in {"prepared", "diagnosed", "rejected"}
    /\ UNCHANGED vars

Next ==
    \/ \E c \in Chunks : WorkerIntern(c)
    \/ \E c \in Chunks, ok \in BOOLEAN : WorkerFinishFile(c, ok)
    \/ CollectChunks
    \/ ValidateChunk
    \/ FinishValidation
    \/ MergeString
    \/ MergeChunkResults
    \/ FinishMerge
    \/ Terminated

Spec == Init /\ [][Next]_vars
-----------------------------------------------------------------------------
Finished == pc \in {"prepared", "diagnosed"}

TypeOK ==
    /\ pc \in {"prepare", "validate", "merge", "rejected",
               "prepared", "diagnosed"}
    /\ fileCount \in 1 .. MaxFiles /\ threads \in 1 .. MaxThreads
    /\ plan \in Seq([first : Nat, end : Nat])
    /\ table \in Seq(String)
    /\ local \in [Chunks -> Seq(String)]
    /\ cursor \in [Chunks -> [file : Nat, read : Nat]]
    /\ results \in [Chunks -> Seq(Result)]
    /\ held \in [Chunks -> SUBSET Holding]
    /\ merging \in Nat \ {0}
    /\ expected \in Nat
    /\ remap \in [prefix : {BaseLen}, suffix : Seq(Nat), identity : BOOLEAN]
    /\ outputs \in Seq(Result)
    /\ outHeld \in SUBSET Holding

\* A StringId means the string it was issued for, at every moment and in
\* whichever table owns it: the worker's fork until the chunk is merged, the
\* module's table afterwards, also when the rewrite is skipped because the
\* remap is cached as the identity.
IdsKeepTheirStrings ==
    /\ \A c \in Chunks : \A h \in held[c] :
          Issued(local[c], h.id) /\ Resolve(local[c], h.id) = h.text
    /\ \A h \in outHeld : Issued(table, h.id) /\ Resolve(table, h.id) = h.text

\* The strategies never produce a plan that validate_preparation_chunk_order
\* rejects: no file is dropped, prepared twice or moved by the split.
PlansAreAccepted == pc # "rejected"

\* A parallel task is worth its scheduling: when a module has files enough for
\* chunks, none but a lone chunk is below the least size, and the pool gets no
\* more chunks than its target of tasks for each of its workers.
ChunksAmortizeTasks ==
    fileCount >= AlwaysParallel /\ Len(plan) > 1 =>
        /\ \A c \in Chunks : plan[c].end - plan[c].first >= MinChunkSize
        /\ Len(plan) <= threads * TasksPerThread

\* What the files interned, in the order of the module's input.
Interned ==
    Occurrences(BaseTable, 0) \cup
    UNION {Occurrences(SubSeq(FileText[outputs[i].file], 1, outputs[i].read), i) :
               i \in DOMAIN outputs}

\* The ids of a prepared module depend on its files alone: results come in
\* input order and the table lists the strings by first occurrence in that
\* order, whatever the strategy, the thread count and the interleaving were.
PreparationIsDeterministic ==
    Finished =>
        /\ Len(outputs) = fileCount
        /\ \A i \in DOMAIN outputs : outputs[i].file = i - 1
        /\ ListsByOccurrence(table, Interned)
=============================================================================
