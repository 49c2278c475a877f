----------------------------- MODULE ChunkPlan -----------------------------
(***************************************************************************)
(* How the files of a module are split among Rayon tasks                   *)
(* (frontend_orchestration.rs, FilePreparationStrategy and                 *)
(* plan_file_preparation_chunks).  A plan is a sequence of half-open       *)
(* ranges of file indexes.                                                 *)
(***************************************************************************)
EXTENDS Naturals, Sequences

CONSTANTS
    AlwaysSerial,     \* FILE_PREPARATION_ALWAYS_SERIAL_FILE_COUNT
    AlwaysParallel,   \* FILE_PREPARATION_ALWAYS_PARALLEL_FILE_COUNT
    TasksPerThread,   \* FILE_PREPARATION_TARGET_TASKS_PER_THREAD
    MinChunkSize      \* FILE_PREPARATION_MIN_CHUNK_SIZE

ASSUME PolicyAssumption ==
    /\ AlwaysSerial \in Nat /\ AlwaysParallel \in Nat
    /\ TasksPerThread \in Nat /\ MinChunkSize \in Nat \ {0}

Smaller(a, b) == IF a <= b THEN a ELSE b
Larger(a, b) == IF a >= b THEN a ELSE b

\* big: the sources reach FILE_PREPARATION_MEDIUM_PARALLEL_MIN_BYTES.
Strategy(n, big) ==
    IF n <= AlwaysSerial THEN "Serial"
    ELSE IF n >= AlwaysParallel THEN "ParallelChunked"
    ELSE IF big THEN "ParallelPerFile"
    ELSE "Serial"

\* A plausible bug: the size of the chunks is the only limit.
ChunkCountBySize(n, workers) == Larger(Smaller(n \div MinChunkSize, n), 1)

ChunkCount(n, workers) ==
    LET target == Larger(workers, 1) * TasksPerThread
        bySize == Larger(n \div MinChunkSize, 1)
    IN  Larger(Smaller(Smaller(target, bySize), n), 1)

\* A plausible bug: the files left over by the division go nowhere.
ChunkStartDropping(n, count, k) == k * (n \div count)

\* Where chunk k begins, and chunk k - 1 ends: the planning loop has placed k
\* chunks, the first n % count of them one file larger.
ChunkStart(n, count, k) ==
    k * (n \div count) + Smaller(k, n % count)

ChunkedPlan(n, workers) ==
    LET count == ChunkCount(n, workers)
    IN  [c \in 1 .. count |-> [first |-> ChunkStart(n, count, c - 1),
                               end |-> ChunkStart(n, count, c)]]

PlanFor(n, big, workers) ==
    CASE Strategy(n, big) = "Serial" ->
            << [first |-> 0, end |-> n] >>
      [] Strategy(n, big) = "ParallelPerFile" ->
            [c \in 1 .. n |-> [first |-> c - 1, end |-> c]]
      [] OTHER -> ChunkedPlan(n, workers)

\* A plan covers the files of a module in order, without gap or overlap.
Covers(p, n) ==
    /\ p # << >>
    /\ p[1].first = 0
    /\ p[Len(p)].end = n
    /\ \A c \in DOMAIN p : p[c].first <= p[c].end
    /\ \A c \in 1 .. Len(p) - 1 : p[c].end = p[c + 1].first
=============================================================================
