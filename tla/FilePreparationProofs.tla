---------------------- MODULE FilePreparationProofs ----------------------
(***************************************************************************)
(* Proofs about FilePreparation, for every set of strings, every module,   *)
(* and every value of the thresholds that choose and size the chunks.      *)
(***************************************************************************)
EXTENDS FilePreparation, CommonLemmas

\* Division leaves a remainder below the divisor and loses nothing.
LEMMA Division ==
    ASSUME NEW n \in Nat, NEW count \in Nat \ {0}
    PROVE  /\ n \div count \in Nat /\ n % count \in Nat
           /\ n % count < count
           /\ count * (n \div count) + (n % count) = n
BY Z3

\* The chunk boundaries start at zero, never go back, and end with the files.
LEMMA ChunkStarts ==
    ASSUME NEW n \in Nat, NEW count \in Nat \ {0}
    PROVE  /\ ChunkStart(n, count, 0) = 0
           /\ ChunkStart(n, count, count) = n
           /\ \A k \in 0 .. count :
                 ChunkStart(n, count, k) \in Nat /\ ChunkStart(n, count, k) <= n
           /\ \A k \in 1 .. count :
                 ChunkStart(n, count, k) - ChunkStart(n, count, k - 1)
                    >= n \div count
<1> DEFINE q == n \div count
           r == n % count
<1>1. q \in Nat /\ r \in Nat /\ r < count /\ count * q + r = n
  BY Division
<1> HIDE DEF q, r
<1>2. \A k \in 0 .. count : k * q \in Nat /\ k * q <= count * q
  <2> SUFFICES ASSUME NEW k \in 0 .. count
               PROVE  k * q \in Nat /\ k * q <= count * q
    OBVIOUS
  <2>1. PICK d \in Nat : count = k + d
    <3>1. count - k \in Nat /\ count = k + (count - k)
      OBVIOUS
    <3> QED  BY <3>1
  <2>2. count * q = k * q + d * q /\ d * q \in Nat /\ k * q \in Nat
    BY <1>1, <2>1, Z3
  <2> QED  BY <2>2
<1>3. \A k \in Nat : (k + 1) * q = k * q + q /\ 0 * q = 0
  BY <1>1, Z3
<1>4. \A k \in 0 .. count : ChunkStart(n, count, k) = k * q + Smaller(k, r)
  BY DEF ChunkStart, q, r
<1>5. ChunkStart(n, count, 0) = 0 /\ ChunkStart(n, count, count) = n
  BY <1>1, <1>3, <1>4 DEF Smaller
<1>6. ASSUME NEW k \in 0 .. count
      PROVE  ChunkStart(n, count, k) \in Nat /\ ChunkStart(n, count, k) <= n
  <2>1. Smaller(k, r) \in Nat /\ Smaller(k, r) <= r
    BY <1>1 DEF Smaller
  <2> QED  BY <1>1, <1>2, <1>4, <2>1
<1>7. ASSUME NEW k \in 1 .. count
      PROVE  ChunkStart(n, count, k) - ChunkStart(n, count, k - 1) >= q
  <2>1. PICK j \in Nat : j \in 0 .. count /\ k = j + 1 /\ k - 1 = j
    <3>1. k - 1 \in 0 .. count /\ k = (k - 1) + 1
      OBVIOUS
    <3> QED  BY <3>1
  <2>2. Smaller(j + 1, r) >= Smaller(j, r)
        /\ Smaller(j + 1, r) \in Nat /\ Smaller(j, r) \in Nat
    BY <1>1 DEF Smaller
  <2>3. ChunkStart(n, count, k) = (j * q + q) + Smaller(j + 1, r)
        /\ ChunkStart(n, count, k - 1) = j * q + Smaller(j, r)
    BY <1>3, <1>4, <2>1
  <2>4. j * q \in Nat
    BY <1>2, <2>1
  <2> QED  BY <1>1, <2>2, <2>3, <2>4
<1> QED  BY <1>5, <1>6, <1>7 DEF q, r

\* There is a chunk at least and a file for each; more than one chunk stays
\* within the limits by size and by workers.
LEMMA ChunkCounts ==
    ASSUME NEW n \in Nat \ {0}, NEW workers \in Nat
    PROVE  /\ ChunkCount(n, workers) \in 1 .. n
           /\ ChunkCount(n, workers) > 1 =>
                 /\ ChunkCount(n, workers) <= n \div MinChunkSize
                 /\ ChunkCount(n, workers)
                       <= Larger(workers, 1) * TasksPerThread
<1>1. n \div MinChunkSize \in Nat
  BY PolicyAssumption, Division
<1>2. Larger(workers, 1) * TasksPerThread \in Nat
  <2>1. Larger(workers, 1) \in Nat
    BY DEF Larger
  <2> QED  BY <2>1, PolicyAssumption, Z3
<1> QED  BY <1>1, <1>2 DEF ChunkCount, Smaller, Larger

\* A plan of any strategy splits the files into chunks that lie inside the
\* module and follow each other without gap or overlap, for every threshold,
\* file count and worker count.
LEMMA PlanIsSound ==
    ASSUME NEW n \in Nat \ {0}, NEW large \in BOOLEAN, NEW workers \in Nat
    PROVE  /\ PlanFor(n, large, workers) \in Seq([first : Nat, end : Nat])
           /\ Covers(PlanFor(n, large, workers), n)
           /\ \A c \in DOMAIN PlanFor(n, large, workers) :
                 PlanFor(n, large, workers)[c].end <= n
<1>1. CASE Strategy(n, large) = "Serial"
  BY <1>1 DEF PlanFor, Covers
<1>2. CASE Strategy(n, large) = "ParallelPerFile"
  <2> DEFINE p == [c \in 1 .. n |-> [first |-> c - 1, end |-> c]]
  <2>1. PlanFor(n, large, workers) = p
    BY <1>2 DEF PlanFor
  <2>2. p \in Seq([first : Nat, end : Nat]) /\ Len(p) = n /\ DOMAIN p = 1 .. n
    OBVIOUS
  <2>3. p[1].first = 0 /\ p[n].end = n /\ p # << >>
    BY <2>2
  <2>4. /\ \A c \in 1 .. n : p[c].first <= p[c].end /\ p[c].end <= n
        /\ \A c \in 1 .. n - 1 : p[c].end = p[c + 1].first
    OBVIOUS
  <2> HIDE DEF p
  <2> QED  BY <2>1, <2>2, <2>3, <2>4 DEF Covers
<1>3. CASE Strategy(n, large) = "ParallelChunked"
  <2> DEFINE count == ChunkCount(n, workers)
             p == [c \in 1 .. count |-> [first |-> ChunkStart(n, count, c - 1),
                                         end |-> ChunkStart(n, count, c)]]
  <2>1. PlanFor(n, large, workers) = p
    BY <1>3 DEF PlanFor, ChunkedPlan
  <2>2. count \in 1 .. n /\ count \in Nat \ {0} /\ n \in Nat
    BY ChunkCounts
  <2> HIDE DEF count
  <2>3. \A k \in 0 .. count :
           ChunkStart(n, count, k) \in Nat /\ ChunkStart(n, count, k) <= n
    BY <2>2, ChunkStarts
  <2>4. ChunkStart(n, count, 0) = 0 /\ ChunkStart(n, count, count) = n
    BY <2>2, ChunkStarts
  <2>5. \A k \in 1 .. count : k - 1 \in 0 .. count /\ k \in 0 .. count
    BY <2>2
  <2>6. p \in Seq([first : Nat, end : Nat]) /\ Len(p) = count
        /\ DOMAIN p = 1 .. count
    BY <2>2, <2>3, <2>5
  <2>7. \A c \in 1 .. count : p[c].first <= p[c].end /\ p[c].end <= n
    <3> SUFFICES ASSUME NEW c \in 1 .. count
                 PROVE  p[c].first <= p[c].end /\ p[c].end <= n
      OBVIOUS
    <3>1. ChunkStart(n, count, c) - ChunkStart(n, count, c - 1) >= n \div count
          /\ n \div count \in Nat
      BY <2>2, ChunkStarts, Division
    <3>2. ChunkStart(n, count, c - 1) \in Nat /\ ChunkStart(n, count, c) \in Nat
          /\ ChunkStart(n, count, c) <= n
      BY <2>3, <2>5
    <3>3. ChunkStart(n, count, c - 1) <= ChunkStart(n, count, c)
      BY <3>1, <3>2
    <3> QED  BY <3>2, <3>3
  <2>8. \A c \in 1 .. count - 1 : p[c].end = p[c + 1].first
    <3> SUFFICES ASSUME NEW c \in 1 .. count - 1
                 PROVE  p[c].end = p[c + 1].first
      OBVIOUS
    <3> QED  BY <2>2
  <2>9. p[1].first = 0 /\ p[count].end = n /\ p # << >>
    <3>1. 1 \in 1 .. count /\ count \in 1 .. count /\ 1 - 1 = 0
      BY <2>2
    <3>2. p[1].first = ChunkStart(n, count, 1 - 1)
          /\ p[count].end = ChunkStart(n, count, count)
      BY <3>1
    <3>3. p[1].first = ChunkStart(n, count, 0)
      BY <3>1, <3>2
    <3>4. p # << >>
      BY <2>2, <2>6
    <3> QED  BY <2>4, <3>2, <3>3, <3>4
  <2> HIDE DEF p
  <2> QED  BY <2>1, <2>2, <2>6, <2>7, <2>8, <2>9 DEF Covers
<1> QED  BY <1>1, <1>2, <1>3 DEF Strategy

\* In a plan of more than one chunk, no chunk is below the least size, and
\* there are no more chunks than the workers' target of tasks.
LEMMA ChunksAreWorthIt ==
    ASSUME NEW n \in Nat \ {0}, n >= AlwaysParallel,
           NEW large \in BOOLEAN, NEW workers \in Nat \ {0},
           Len(PlanFor(n, large, workers)) > 1
    PROVE  /\ \A c \in DOMAIN PlanFor(n, large, workers) :
                 PlanFor(n, large, workers)[c].end
                    - PlanFor(n, large, workers)[c].first >= MinChunkSize
           /\ Len(PlanFor(n, large, workers)) <= workers * TasksPerThread
<1> DEFINE count == ChunkCount(n, workers)
           p == [c \in 1 .. count |-> [first |-> ChunkStart(n, count, c - 1),
                                       end |-> ChunkStart(n, count, c)]]
<1>1. PlanFor(n, large, workers) = p
  <2>1. Strategy(n, large) # "Serial"
    BY DEF PlanFor
  <2> QED  BY <2>1, PolicyAssumption DEF Strategy, PlanFor, ChunkedPlan
<1>2. /\ count \in 1 .. n
      /\ count > 1 => /\ count <= n \div MinChunkSize
                      /\ count <= Larger(workers, 1) * TasksPerThread
  BY ChunkCounts
<1>3. Larger(workers, 1) = workers
  BY DEF Larger
<1> HIDE DEF count
<1>0. count \in Nat \ {0} /\ n \in Nat
  BY <1>2
<1>4. Len(p) = count /\ DOMAIN p = 1 .. count /\ count > 1
  BY <1>1, <1>2
<1>5. n \div count >= MinChunkSize
  <2> DEFINE d == n \div MinChunkSize
             q == n \div count
             r == n % count
  <2>1. d \in Nat /\ n % MinChunkSize \in Nat
        /\ MinChunkSize * d + (n % MinChunkSize) = n
    BY PolicyAssumption, Division
  <2>2. q \in Nat /\ r \in Nat /\ r < count /\ count * q + r = n
    BY <1>0, Division
  <2>3. count <= d
    BY <1>2, <1>4
  <2> HIDE DEF d, q, r
  <2>4. MinChunkSize * count <= MinChunkSize * d
        /\ MinChunkSize * d \in Nat /\ MinChunkSize * count \in Nat
    <3>1. PICK e \in Nat : d = count + e
      <4>1. d - count \in Nat /\ d = count + (d - count)
        BY <1>2, <2>1, <2>3
      <4> QED  BY <4>1
    <3>2. /\ MinChunkSize * d = MinChunkSize * count + MinChunkSize * e
          /\ MinChunkSize * e \in Nat /\ MinChunkSize * count \in Nat
          /\ MinChunkSize * d \in Nat
      BY <1>2, <2>1, <3>1, PolicyAssumption, Z3
    <3> QED  BY <3>2
  <2>5. ASSUME q < MinChunkSize PROVE FALSE
    <3>1. PICK e \in Nat : MinChunkSize = q + 1 + e
      <4>1. MinChunkSize - (q + 1) \in Nat
            /\ MinChunkSize = q + 1 + (MinChunkSize - (q + 1))
        BY <2>2, <2>5, PolicyAssumption
      <4> QED  BY <4>1
    <3>2. /\ MinChunkSize * count = count * q + count + count * e
          /\ count * q \in Nat /\ count * e \in Nat
      BY <1>2, <2>2, <3>1, Z3
    <3> QED  BY <1>2, <2>1, <2>2, <2>4, <3>2
  <2>6. q >= MinChunkSize
    BY <2>2, <2>5, PolicyAssumption
  <2> QED  BY <2>6 DEF q
<1>6. ASSUME NEW c \in 1 .. count
      PROVE  p[c].end - p[c].first >= MinChunkSize
  <2>1. ChunkStart(n, count, c) - ChunkStart(n, count, c - 1) >= n \div count
        /\ n \div count \in Nat
    BY <1>0, ChunkStarts, Division
  <2>2. c \in 0 .. count /\ c - 1 \in 0 .. count
    BY <1>2
  <2>3. ChunkStart(n, count, c - 1) \in Nat /\ ChunkStart(n, count, c) \in Nat
    BY <1>0, <2>2, ChunkStarts
  <2> QED  BY <1>5, <2>1, <2>3, PolicyAssumption
<1> QED  BY <1>1, <1>2, <1>3, <1>4, <1>6
-----------------------------------------------------------------------------
\* A fork, and the module's table, keep the strings they began with.
StartsWithBase(t) ==
    Len(t) >= BaseLen /\ \A i \in 1 .. BaseLen : t[i] = BaseTable[i]

\* What the ids held with the results of a table have to be.
Keeps(t, ids) ==
    \A h \in ids : Issued(t, h.id) /\ Resolve(t, h.id) = h.text

\* The plan covers the files, inside the module, in chunks of a good size.
PlanInv ==
    /\ Covers(plan, fileCount)
    /\ \A c \in Chunks : plan[c].end <= fileCount
    /\ ChunksAmortizeTasks

\* The results of a chunk are those of its files up to the cursor, in order.
WorkInv ==
    \A c \in Chunks :
        /\ plan[c].first <= cursor[c].file /\ cursor[c].file <= plan[c].end
        /\ Len(results[c]) = cursor[c].file - plan[c].first
        /\ \A i \in DOMAIN results[c] :
              results[c][i].file = plan[c].first + i - 1
        /\ pc # "prepare" => cursor[c].file = plan[c].end

\* The validation has accepted the chunks before merging.
ValidationInv ==
    /\ pc = "prepare" => merging = 1 /\ expected = 0
    /\ pc = "validate" =>
          /\ merging <= Len(plan) + 1
          /\ expected = IF merging = 1 THEN 0 ELSE plan[merging - 1].end
    /\ pc # "rejected"

\* Every table keeps its base and the ids it is responsible for.
TableInv ==
    /\ StartsWithBase(table) /\ Keeps(table, outHeld)
    /\ \A c \in Chunks : StartsWithBase(local[c]) /\ Keeps(local[c], held[c])

\* The remap sends the strings merged so far to the ids of the same strings in
\* the module's table; cached as the identity, it is one.
RemapInv ==
    /\ pc # "merge" \/ merging \notin Chunks => remap = NewRemap(BaseLen)
    /\ merging \in Chunks =>
          /\ BaseLen + Len(remap.suffix) <= Len(local[merging])
          /\ \A k \in 1 .. Len(remap.suffix) :
                /\ remap.suffix[k] < Len(table)
                /\ table[remap.suffix[k] + 1] = local[merging][BaseLen + k]
                /\ remap.identity => remap.suffix[k] = BaseLen + k - 1

\* The inductive invariant.
PreparationInv ==
    TypeOK /\ PlanInv /\ WorkInv /\ ValidationInv /\ TableInv /\ RemapInv
-----------------------------------------------------------------------------
\* A table that only grew still keeps the ids, and the base it began with.
LEMMA GrowthKeeps ==
    ASSUME NEW t \in Seq(String), NEW u \in Seq(String), NEW ids,
           Len(t) <= Len(u), \A i \in 1 .. Len(t) : u[i] = t[i]
    PROVE  /\ Keeps(t, ids) => Keeps(u, ids)
           /\ StartsWithBase(t) => StartsWithBase(u)
<1>1. ASSUME Keeps(t, ids), NEW h \in ids
      PROVE  Issued(u, h.id) /\ Resolve(u, h.id) = h.text
  BY <1>1 DEF Keeps, Issued, Resolve
<1>2. BaseLen \in Nat
  BY TextAssumption DEF BaseLen
<1> QED  BY <1>1, <1>2 DEF Keeps, StartsWithBase

\* The initial state satisfies the invariant.
LEMMA InitPreparation == Init => PreparationInv
<1> SUFFICES ASSUME Init PROVE PreparationInv
  OBVIOUS
<1>1. PICK large \in BOOLEAN : plan = PlanFor(fileCount, large, threads)
  BY DEF Init
<1>2. /\ fileCount \in Nat \ {0} /\ fileCount \in 1 .. MaxFiles
      /\ threads \in Nat \ {0} /\ threads \in 1 .. MaxThreads
  BY BoundsAssumption DEF Init
<1>3. /\ plan \in Seq([first : Nat, end : Nat])
      /\ Covers(plan, fileCount)
      /\ \A c \in DOMAIN plan : plan[c].end <= fileCount
  BY <1>1, <1>2, PlanIsSound
<1>4. ChunksAmortizeTasks
  <2> SUFFICES ASSUME fileCount >= AlwaysParallel, Len(plan) > 1
               PROVE  /\ \A c \in Chunks :
                            plan[c].end - plan[c].first >= MinChunkSize
                      /\ Len(plan) <= threads * TasksPerThread
    BY DEF ChunksAmortizeTasks
  <2> QED
    BY <1>1, <1>2, ChunksAreWorthIt DEF Chunks
<1>5. BaseTable \in Seq(String) /\ BaseLen \in Nat
  BY TextAssumption DEF BaseLen
<1>6. /\ pc = "prepare" /\ table = BaseTable
      /\ local = [c \in Chunks |-> BaseTable]
      /\ cursor = [c \in Chunks |-> [file |-> plan[c].first, read |-> 0]]
      /\ results = [c \in Chunks |-> << >>]
      /\ held = [c \in Chunks |-> {}]
      /\ merging = 1 /\ expected = 0 /\ remap = NewRemap(BaseLen)
      /\ outputs = << >> /\ outHeld = {}
  BY DEF Init
<1>7. \A c \in Chunks :
         plan[c].first \in Nat /\ plan[c].end \in Nat
         /\ plan[c].first <= plan[c].end
  <2> SUFFICES ASSUME NEW c \in Chunks
               PROVE  plan[c].first \in Nat /\ plan[c].end \in Nat
                      /\ plan[c].first <= plan[c].end
    OBVIOUS
  <2>1. plan[c] \in [first : Nat, end : Nat]
    BY <1>3, ElementOfSeq DEF Chunks
  <2>2. plan[c].first <= plan[c].end
    BY <1>3 DEF Chunks, Covers
  <2> QED  BY <2>1, <2>2
<1>8. TypeOK
  BY <1>2, <1>3, <1>5, <1>6, <1>7 DEF TypeOK, NewRemap, Holding, Result
<1>9. PlanInv /\ ValidationInv
  BY <1>3, <1>4, <1>6 DEF PlanInv, ValidationInv, Chunks
<1>10. WorkInv
  BY <1>6, <1>7 DEF WorkInv
<1>11. TableInv
  <2>1. StartsWithBase(BaseTable) /\ Keeps(BaseTable, {})
    BY <1>5 DEF StartsWithBase, Keeps, BaseLen
  <2>2. \A c \in Chunks : local[c] = BaseTable /\ held[c] = {}
    BY <1>6
  <2> QED  BY <1>6, <2>1, <2>2 DEF TableInv
<1>12. RemapInv
  <2>1. remap.suffix = << >> /\ Len(remap.suffix) = 0
    BY <1>6 DEF NewRemap
  <2>2. \A c \in Chunks : Len(local[c]) = BaseLen
    BY <1>6 DEF BaseLen
  <2> QED  BY <1>5, <1>6, <2>1, <2>2 DEF RemapInv
<1> QED  BY <1>8, <1>9, <1>10, <1>11, <1>12 DEF PreparationInv
\* A worker that interns one more string.
LEMMA WorkerInternInv ==
    ASSUME PreparationInv, NEW c \in Chunks, WorkerIntern(c)
    PROVE  PreparationInv'
<1> DEFINE f == cursor[c].file
           k == cursor[c].read + 1
           t == local[c]
           s == FileText[f][k]
           u == Intern(t, s)
           h == [file |-> f, id |-> IdOf(u, s), text |-> s]
<1> USE DEF PreparationInv
<1>1. /\ pc = "prepare" /\ f < plan[c].end /\ k \in DOMAIN FileText[f]
      /\ local' = [local EXCEPT ![c] = u]
      /\ held' = [held EXCEPT ![c] = @ \cup {[file |-> f,
                     id |-> IdOf(local'[c], s), text |-> s]}]
      /\ cursor' = [cursor EXCEPT ![c].read = k]
      /\ UNCHANGED <<fileCount, threads, pc, plan, table, results, merging, expected,
                     remap, outputs, outHeld>>
  BY DEF WorkerIntern, HasFile
<1>2. f \in Files /\ f \in Nat /\ k \in Nat /\ s \in String
  <2>1. cursor[c] \in [file : Nat, read : Nat]
        /\ plan[c] \in [first : Nat, end : Nat] /\ fileCount \in 1 .. MaxFiles
        /\ plan[c].end <= fileCount
    BY ElementOfSeq DEF TypeOK, PlanInv, Chunks
  <2>2. f \in Files /\ f \in Nat /\ k \in Nat
    BY <1>1, <2>1, BoundsAssumption DEF Files
  <2>3. FileText[f] \in Seq(String)
    BY <2>2, TextAssumption
  <2> QED  BY <1>1, <2>2, <2>3
<1>3. t \in Seq(String) /\ held[c] \in SUBSET Holding
  BY DEF TypeOK
<1>4. /\ u \in Seq(String) /\ Len(t) <= Len(u)
      /\ \A i \in 1 .. Len(t) : u[i] = t[i]
      /\ h.id \in Nat /\ h.id < Len(u) /\ u[h.id + 1] = s
  <2> HIDE DEF f, k, t, s
  <2>1. /\ u \in Seq(String) /\ Len(t) <= Len(u)
        /\ \A i \in 1 .. Len(t) : u[i] = t[i]
        /\ IdOf(u, s) \in Nat /\ IdOf(u, s) < Len(u) /\ u[IdOf(u, s) + 1] = s
    BY <1>2, <1>3, InternWorks
  <2> QED  BY <2>1
<1> HIDE DEF f, k, t, s, u
<1>5. local'[c] = u /\ held'[c] = held[c] \cup {h} /\ h \in Holding
      /\ \A d \in Chunks \ {c} : local'[d] = local[d] /\ held'[d] = held[d]
  BY <1>1, <1>2, <1>4 DEF TypeOK, Holding
<1>6. TypeOK'
  <2>1. Chunks' = Chunks
    BY <1>1 DEF Chunks
  <2>2. local' \in [Chunks -> Seq(String)]
    BY <1>1, <1>4 DEF TypeOK
  <2>3. held' \in [Chunks -> SUBSET Holding]
    <3>1. held[c] \cup {h} \in SUBSET Holding
      BY <1>3, <1>5
    <3>2. held' = [held EXCEPT ![c] = held[c] \cup {h}]
      BY <1>1, <1>5 DEF TypeOK
    <3> HIDE DEF h
    <3> QED  BY <3>1, <3>2 DEF TypeOK
  <2>4. cursor' \in [Chunks -> [file : Nat, read : Nat]]
    BY <1>1, <1>2 DEF TypeOK
  <2> QED  BY <1>1, <2>1, <2>2, <2>3, <2>4 DEF TypeOK
<1>7. PlanInv' /\ ValidationInv'
  BY <1>1 DEF PlanInv, ValidationInv, ChunksAmortizeTasks, Chunks
<1>8. WorkInv'
  <2>1. \A d \in Chunks : cursor'[d].file = cursor[d].file
    BY <1>1 DEF TypeOK
  <2> QED  BY <1>1, <2>1 DEF WorkInv, Chunks
<1>9. TableInv'
  <2>1. Keeps(u, held[c]) /\ StartsWithBase(u)
    BY <1>3, <1>4, GrowthKeeps DEF TableInv, t
  <2>2. Keeps(u, held[c] \cup {h})
    BY <1>4, <2>1 DEF Keeps, Issued, Resolve
  <2>3. table' = table /\ outHeld' = outHeld /\ Chunks' = Chunks
    BY <1>1 DEF Chunks
  <2>4. ASSUME NEW d \in Chunks
        PROVE  StartsWithBase(local'[d]) /\ Keeps(local'[d], held'[d])
    BY <1>5, <2>1, <2>2 DEF TableInv
  <2> QED  BY <2>3, <2>4 DEF TableInv, StartsWithBase, Keeps
<1>10. RemapInv'
  <2>1. remap' = NewRemap(BaseLen) /\ remap'.suffix = << >>
    BY <1>1 DEF RemapInv, NewRemap
  <2>2. \A d \in Chunks : Len(local'[d]) >= BaseLen
    BY <1>9, <1>1 DEF TableInv, StartsWithBase, Chunks
  <2>3. \A d \in Chunks : Len(local'[d]) \in Nat
    <3>1. \A d \in Chunks : local'[d] \in Seq(String)
      BY <1>1, <1>6 DEF TypeOK, Chunks
    <3> QED  BY <3>1
  <2>4. BaseLen \in Nat /\ merging' = merging /\ pc' = "prepare"
        /\ Chunks' = Chunks
    BY <1>1, TextAssumption DEF BaseLen, Chunks
  <2> QED  BY <2>1, <2>2, <2>3, <2>4 DEF RemapInv
<1> QED  BY <1>6, <1>7, <1>8, <1>9, <1>10
\* A worker that finishes a file appends its result.
LEMMA WorkerFinishInv ==
    ASSUME PreparationInv, NEW c \in Chunks, NEW ok \in BOOLEAN,
           WorkerFinishFile(c, ok)
    PROVE  PreparationInv'
<1> DEFINE f == cursor[c].file
           r == [file |-> f, ok |-> ok, read |-> cursor[c].read]
<1> USE DEF PreparationInv
<1>1. /\ pc = "prepare" /\ f < plan[c].end
      /\ results' = [results EXCEPT ![c] = Append(@, r)]
      /\ cursor' = [cursor EXCEPT ![c] = [file |-> f + 1, read |-> 0]]
      /\ UNCHANGED <<fileCount, threads, pc, plan, table, local, held, merging, expected,
                     remap, outputs, outHeld>>
  BY DEF WorkerFinishFile, HasFile
<1>2. /\ cursor[c] \in [file : Nat, read : Nat]
      /\ plan[c] \in [first : Nat, end : Nat] /\ fileCount \in 1 .. MaxFiles
      /\ plan[c].end <= fileCount /\ results[c] \in Seq(Result)
  BY ElementOfSeq DEF TypeOK, PlanInv, Chunks
<1>3. f \in Nat /\ f \in Files /\ r \in Result
  BY <1>1, <1>2, BoundsAssumption DEF Files, Result
<1>4. Chunks' = Chunks
  BY <1>1 DEF Chunks
<1> HIDE DEF f
<1>5. TypeOK'
  <2>1. results' \in [Chunks -> Seq(Result)]
    BY <1>1, <1>3 DEF TypeOK
  <2>2. cursor' \in [Chunks -> [file : Nat, read : Nat]]
    BY <1>1, <1>3 DEF TypeOK
  <2> QED  BY <1>1, <1>4, <2>1, <2>2 DEF TypeOK
<1>6. PlanInv' /\ ValidationInv' /\ TableInv' /\ RemapInv'
  BY <1>1 DEF PlanInv, ValidationInv, ChunksAmortizeTasks, Chunks, TableInv,
     StartsWithBase, Keeps, RemapInv
<1>7. WorkInv'
  <2> SUFFICES ASSUME NEW d \in Chunks
               PROVE  /\ plan[d].first <= cursor'[d].file
                      /\ cursor'[d].file <= plan[d].end
                      /\ Len(results'[d]) = cursor'[d].file - plan[d].first
                      /\ \A i \in DOMAIN results'[d] :
                            results'[d][i].file = plan[d].first + i - 1
    BY <1>1, <1>4 DEF WorkInv
  <2>1. CASE d # c
    <3>1. cursor'[d] = cursor[d] /\ results'[d] = results[d]
      BY <1>1, <2>1 DEF TypeOK
    <3> QED  BY <3>1 DEF WorkInv
  <2>2. CASE d = c
    <3>1. cursor'[c].file = f + 1 /\ results'[c] = Append(results[c], r)
      BY <1>1 DEF TypeOK
    <3>2. /\ plan[c].first <= f /\ Len(results[c]) = f - plan[c].first
          /\ \A i \in DOMAIN results[c] :
                results[c][i].file = plan[c].first + i - 1
          /\ plan[c].first \in Nat /\ plan[c].end \in Nat
      BY <1>2 DEF WorkInv, f
    <3>3. Len(results'[c]) = Len(results[c]) + 1
      BY <1>2, <3>1
    <3>4. \A i \in DOMAIN results'[c] :
             results'[c][i].file = plan[c].first + i - 1
      <4> SUFFICES ASSUME NEW i \in DOMAIN results'[c]
                   PROVE  results'[c][i].file = plan[c].first + i - 1
        OBVIOUS
      <4>1. CASE i \in DOMAIN results[c]
        BY <1>2, <3>1, <3>2, <4>1
      <4>2. CASE i = Len(results[c]) + 1
        <5>1. results'[c][i] = r
          BY <1>2, <3>1, <4>2
        <5> QED  BY <1>3, <3>2, <4>2, <5>1
      <4>3. i \in DOMAIN results[c] \/ i = Len(results[c]) + 1
        BY <1>2, <3>1, <3>3
      <4> QED  BY <4>1, <4>2, <4>3
    <3>5. plan[c].first <= cursor'[c].file /\ cursor'[c].file <= plan[c].end
          /\ Len(results'[c]) = cursor'[c].file - plan[c].first
      <4>1. f < plan[c].end /\ Len(results[c]) \in Nat
        BY <1>1, <1>2
      <4> QED  BY <1>3, <3>1, <3>2, <3>3, <4>1
    <3> QED  BY <2>2, <3>4, <3>5
  <2> QED  BY <2>1, <2>2
<1> QED  BY <1>5, <1>6, <1>7

\* The steps between the phases.
LEMMA CollectInv ==
    ASSUME PreparationInv, CollectChunks
    PROVE  PreparationInv'
<1> USE DEF PreparationInv, CollectChunks
<1>1. TypeOK' /\ PlanInv' /\ TableInv'
  BY DEF TypeOK, PlanInv, ChunksAmortizeTasks, TableInv, Chunks,
     StartsWithBase, Keeps
<1>2. RemapInv'
  BY DEF RemapInv, Chunks
<1>3. WorkInv'
  <2>1. \A c \in Chunks : ~(cursor[c].file < plan[c].end)
    BY DEF HasFile
  <2>2. \A c \in Chunks :
           /\ cursor[c] \in [file : Nat, read : Nat]
           /\ plan[c] \in [first : Nat, end : Nat]
    BY ElementOfSeq DEF TypeOK, Chunks
  <2>3. \A c \in Chunks : cursor[c].file = plan[c].end
    BY <2>1, <2>2 DEF WorkInv
  <2> QED  BY <2>3 DEF WorkInv, Chunks
<1>4. ValidationInv'
  <2>1. plan \in Seq([first : Nat, end : Nat])
    BY DEF TypeOK
  <2>2. Len(plan) \in Nat
    BY <2>1
  <2> QED  BY <2>2 DEF ValidationInv
<1> QED  BY <1>1, <1>2, <1>3, <1>4

\* The chunk being validated is in order, so the validation goes on.
LEMMA ValidateInv ==
    ASSUME PreparationInv, ValidateChunk
    PROVE  PreparationInv'
<1> USE DEF PreparationInv
<1> DEFINE c == merging
<1>1. pc = "validate" /\ c \in Chunks
  BY DEF ValidateChunk
<1>2. /\ plan \in Seq([first : Nat, end : Nat]) /\ Chunks = 1 .. Len(plan)
      /\ Len(plan) \in Nat /\ Covers(plan, fileCount) /\ c \in Nat \ {0}
      /\ plan[c] \in [first : Nat, end : Nat]
  <2>1. plan \in Seq([first : Nat, end : Nat])
    BY DEF TypeOK
  <2>2. plan[c] \in [first : Nat, end : Nat]
    BY <1>1, <2>1, ElementOfSeq DEF Chunks
  <2> QED  BY <2>1, <2>2 DEF TypeOK, PlanInv, Chunks
<1>3. ChunkIsOrdered(c)
  <2>1. plan[c].first = expected
    <3>1. CASE c = 1
      BY <1>1, <1>2, <3>1 DEF ValidationInv, Covers
    <3>2. CASE c # 1
      <4>1. c - 1 \in 1 .. Len(plan) - 1 /\ (c - 1) + 1 = c
        BY <1>1, <1>2, <3>2
      <4>2. plan[c - 1].end = plan[(c - 1) + 1].first
        BY <1>2, <4>1 DEF Covers
      <4> QED  BY <1>1, <3>2, <4>1, <4>2 DEF ValidationInv
    <3> QED  BY <3>1, <3>2
  <2>2. plan[c].end >= plan[c].first /\ plan[c].end <= fileCount
    BY <1>1, <1>2 DEF Covers, Chunks, PlanInv
  <2>3. cursor[c].file = plan[c].end
    BY <1>1 DEF WorkInv
  <2>4. Len(results[c]) = plan[c].end - plan[c].first
        /\ \A i \in DOMAIN results[c] :
              results[c][i].file = plan[c].first + i - 1
    BY <1>1, <2>3 DEF WorkInv
  <2> QED  BY <2>1, <2>2, <2>4 DEF ChunkIsOrdered
<1>4. /\ expected' = plan[c].end /\ merging' = c + 1
      /\ UNCHANGED <<fileCount, threads, pc, plan, table, local, cursor, results, held,
                     remap, outputs, outHeld>>
  BY <1>1, <1>3 DEF ValidateChunk
<1>5. TypeOK'
  <2>1. plan[c].end \in Nat /\ c + 1 \in Nat \ {0} /\ Chunks' = Chunks
    BY <1>2, <1>4 DEF Chunks
  <2>2. expected' \in Nat /\ merging' \in Nat \ {0}
    BY <1>4, <2>1
  <2> HIDE DEF c
  <2> QED  BY <1>4, <2>1, <2>2 DEF TypeOK
<1>6. PlanInv' /\ WorkInv' /\ TableInv'
  BY <1>4 DEF PlanInv, WorkInv, ChunksAmortizeTasks, TableInv, Chunks,
     StartsWithBase, Keeps
<1>7. ValidationInv'
  BY <1>1, <1>2, <1>4 DEF ValidationInv
<1>8. RemapInv'
  <2>1. remap = NewRemap(BaseLen) /\ remap.suffix = << >>
    BY <1>1 DEF RemapInv, NewRemap
  <2>2. \A d \in Chunks : Len(local[d]) >= BaseLen /\ Len(local[d]) \in Nat
    BY DEF TableInv, StartsWithBase, TypeOK
  <2>3. BaseLen \in Nat /\ Chunks' = Chunks
    BY <1>4, TextAssumption DEF BaseLen, Chunks
  <2> QED  BY <1>4, <2>1, <2>2, <2>3 DEF RemapInv
<1> QED  BY <1>5, <1>6, <1>7, <1>8

\* After the last chunk the validation expects no more files, and accepts.
LEMMA FinishValidationInv ==
    ASSUME PreparationInv, FinishValidation
    PROVE  PreparationInv'
<1> USE DEF PreparationInv
<1>1. /\ plan \in Seq([first : Nat, end : Nat]) /\ Chunks = 1 .. Len(plan)
      /\ Len(plan) \in Nat /\ Covers(plan, fileCount)
      /\ merging \in Nat \ {0}
  <2>1. plan \in Seq([first : Nat, end : Nat])
    BY DEF TypeOK
  <2> QED  BY <2>1 DEF TypeOK, PlanInv, Chunks
<1>2. merging = Len(plan) + 1 /\ Len(plan) # 0
  <2>1. merging <= Len(plan) + 1 /\ merging \notin Chunks
    BY DEF ValidationInv, FinishValidation
  <2>2. plan # << >>
    BY <1>1 DEF Covers
  <2> QED  BY <1>1, <2>1, <2>2
<1>3. expected = fileCount
  <2>1. merging - 1 = Len(plan) /\ merging # 1
    BY <1>1, <1>2
  <2> QED  BY <1>1, <2>1 DEF Covers, ValidationInv, FinishValidation
<1>4. /\ pc = "validate" /\ pc' = "merge" /\ merging' = 1
      /\ UNCHANGED <<fileCount, threads, plan, table, local, cursor, results, held,
                     expected, remap, outputs, outHeld>>
  BY <1>3 DEF FinishValidation
<1>5. TypeOK' /\ PlanInv' /\ WorkInv' /\ TableInv' /\ ValidationInv'
  BY <1>4 DEF TypeOK, PlanInv, WorkInv, ChunksAmortizeTasks, TableInv, Chunks,
     StartsWithBase, Keeps, ValidationInv
<1>6. RemapInv'
  <2>1. remap = NewRemap(BaseLen) /\ remap.suffix = << >>
    BY <1>4 DEF RemapInv, NewRemap
  <2>2. \A d \in Chunks : Len(local[d]) >= BaseLen /\ Len(local[d]) \in Nat
    BY DEF TableInv, StartsWithBase, TypeOK
  <2>3. BaseLen \in Nat /\ Chunks' = Chunks
    BY <1>4, TextAssumption DEF BaseLen, Chunks
  <2> QED  BY <1>4, <2>1, <2>2, <2>3 DEF RemapInv
<1> QED  BY <1>5, <1>6
\* Merging one string of a fork: the remap sends its id to the same string.
LEMMA MergeStringInv ==
    ASSUME PreparationInv, MergeString
    PROVE  PreparationInv'
<1> DEFINE c == merging
           n == Len(remap.suffix)
           s == local[c][BaseLen + n + 1]
           newId == IdOf(table', s)
<1> USE DEF PreparationInv
<1>1. /\ pc = "merge" /\ c \in Chunks /\ BaseLen + n + 1 <= Len(local[c])
      /\ table' = Intern(table, s) /\ remap' = RemapNext(remap, newId)
      /\ UNCHANGED <<fileCount, threads, pc, plan, local, cursor, results, held,
                     merging, expected, outputs, outHeld>>
  BY DEF MergeString
<1>2. /\ remap \in [prefix : {BaseLen}, suffix : Seq(Nat), identity : BOOLEAN]
      /\ remap.suffix \in Seq(Nat) /\ remap.prefix = BaseLen /\ n \in Nat
      /\ BaseLen \in Nat /\ local[c] \in Seq(String) /\ table \in Seq(String)
  <2>1. BaseLen \in Nat
    BY TextAssumption DEF BaseLen
  <2>2. remap \in [prefix : {BaseLen}, suffix : Seq(Nat), identity : BOOLEAN]
        /\ local[c] \in Seq(String) /\ table \in Seq(String)
    BY <1>1 DEF TypeOK
  <2>3. remap.suffix \in Seq(Nat) /\ remap.prefix = BaseLen
    BY <2>2
  <2> QED  BY <2>1, <2>2, <2>3
<1>3. s \in String
  <2>1. BaseLen + n + 1 \in DOMAIN local[c]
    BY <1>1, <1>2
  <2> QED  BY <1>2, <2>1, ElementOfSeq
<1> HIDE DEF s
<1>4. /\ table' \in Seq(String) /\ Len(table) <= Len(table')
      /\ \A i \in 1 .. Len(table) : table'[i] = table[i]
      /\ newId \in Nat /\ newId < Len(table') /\ table'[newId + 1] = s
  <2> DEFINE u == Intern(table, s)
  <2>1. /\ u \in Seq(String) /\ Len(table) <= Len(u)
        /\ \A i \in 1 .. Len(table) : u[i] = table[i]
        /\ IdOf(u, s) \in Nat /\ IdOf(u, s) < Len(u) /\ u[IdOf(u, s) + 1] = s
    BY <1>2, <1>3, InternWorks
  <2>2. table' = u /\ newId = IdOf(u, s)
    BY <1>1
  <2> HIDE DEF u, newId
  <2> QED  BY <2>1, <2>2
<1> HIDE DEF newId
<1>5. /\ remap' \in [prefix : {BaseLen}, suffix : Seq(Nat), identity : BOOLEAN]
      /\ remap'.suffix = Append(remap.suffix, newId)
      /\ remap'.identity => remap.identity /\ newId = BaseLen + n
  <2>1. remap' = [remap EXCEPT
            !.suffix = Append(@, newId),
            !.identity = @ /\ newId = remap.prefix + Len(remap.suffix)]
    BY <1>1 DEF RemapNext
  <2>2. Append(remap.suffix, newId) \in Seq(Nat)
    BY <1>2, <1>4
  <2>3. remap'.suffix = Append(remap.suffix, newId)
    BY <1>2, <2>1
  <2>4. remap'.identity = (remap.identity /\ newId = BaseLen + n)
    BY <1>2, <2>1
  <2>5. remap' \in [prefix : {BaseLen}, suffix : Seq(Nat), identity : BOOLEAN]
    <3>1. (remap.identity /\ newId = remap.prefix + Len(remap.suffix)) \in BOOLEAN
      OBVIOUS
    <3> QED  BY <1>2, <2>1, <2>2, <3>1, Zenon
  <2> QED  BY <2>3, <2>4, <2>5
<1>6. Chunks' = Chunks
  BY <1>1 DEF Chunks
<1>7. TypeOK'
  BY <1>1, <1>4, <1>5, <1>6 DEF TypeOK
<1>8. PlanInv' /\ WorkInv' /\ ValidationInv'
  BY <1>1 DEF PlanInv, WorkInv, ValidationInv, ChunksAmortizeTasks, Chunks
<1>9. TableInv'
  <2>1. Keeps(table', outHeld) /\ StartsWithBase(table')
    BY <1>2, <1>4, GrowthKeeps DEF TableInv
  <2> QED  BY <1>1, <1>6, <2>1 DEF TableInv, StartsWithBase, Keeps
<1>10. RemapInv'
  <2>1. Len(remap'.suffix) = n + 1
    BY <1>2, <1>4, <1>5, AppendKeeps
  <2>2. ASSUME NEW k \in 1 .. n + 1
        PROVE  /\ remap'.suffix[k] < Len(table')
               /\ table'[remap'.suffix[k] + 1] = local[c][BaseLen + k]
               /\ remap'.identity => remap'.suffix[k] = BaseLen + k - 1
    <3>1. CASE k \in 1 .. n
      <4>1. remap'.suffix[k] = remap.suffix[k] /\ remap.suffix[k] \in Nat
        <5>1. k \in DOMAIN remap.suffix
          BY <1>2, <3>1
        <5>2. remap.suffix[k] \in Nat
          BY <1>2, <5>1, ElementOfSeq
        <5>3. Append(remap.suffix, newId)[k] = remap.suffix[k]
          BY <1>2, <1>4, <3>1, AppendKeeps
        <5> QED  BY <1>5, <5>2, <5>3
      <4>2. /\ remap.suffix[k] < Len(table)
            /\ table[remap.suffix[k] + 1] = local[c][BaseLen + k]
            /\ remap.identity => remap.suffix[k] = BaseLen + k - 1
        BY <1>1, <3>1 DEF RemapInv
      <4>3. table'[remap.suffix[k] + 1] = table[remap.suffix[k] + 1]
            /\ remap.suffix[k] < Len(table')
        <5>1. remap.suffix[k] + 1 \in 1 .. Len(table) /\ Len(table') \in Nat
          <6>1. Len(table) \in Nat /\ Len(table') \in Nat
            BY <1>2, <1>4
          <6> QED  BY <4>1, <4>2, <6>1
        <5>2. table'[remap.suffix[k] + 1] = table[remap.suffix[k] + 1]
          BY <1>4, <5>1
        <5>3. Len(table) \in Nat /\ Len(table) <= Len(table')
          BY <1>2, <1>4
        <5> QED  BY <4>1, <4>2, <5>1, <5>2, <5>3
      <4> QED  BY <1>5, <4>1, <4>2, <4>3
    <3>2. CASE k = n + 1
      <4>1. remap'.suffix[k] = newId
        BY <1>2, <1>4, <1>5, <3>2, AppendKeeps
      <4>2. BaseLen + k = BaseLen + n + 1 /\ BaseLen + n = BaseLen + k - 1
        <5>1. n \in Nat /\ BaseLen \in Nat
          BY <1>2
        <5> HIDE DEF n
        <5> QED  BY <3>2, <5>1
      <4>3. local[c][BaseLen + k] = s
        BY <4>2 DEF s
      <4> QED  BY <1>4, <1>5, <4>1, <4>2, <4>3
    <3> QED  BY <1>2, <3>1, <3>2
  <2>3. BaseLen + Len(remap'.suffix) <= Len(local[c])
    BY <1>1, <1>2, <2>1
  <2>4. pc' = "merge" /\ merging' = c /\ c \in Chunks /\ local' = local
    BY <1>1
  <2> HIDE DEF c
  <2> QED  BY <1>6, <2>1, <2>2, <2>3, <2>4 DEF RemapInv
<1> QED  BY <1>7, <1>8, <1>9, <1>10

\* Merging the results of a fork that was merged: their ids, rewritten unless
\* the remap is the identity, mean the same strings in the module's table.
LEMMA MergeResultsInv ==
    ASSUME PreparationInv, MergeChunkResults
    PROVE  PreparationInv'
<1> DEFINE c == merging
           n == Len(remap.suffix)
           rewritten == {[h EXCEPT !.id = RemapGet(remap, @)] : h \in held[c]}
<1> USE DEF PreparationInv
<1>1. /\ pc = "merge" /\ c \in Chunks /\ BaseLen + n = Len(local[c])
      /\ outputs' = outputs \o results[c]
      /\ outHeld' = outHeld \cup
             (IF remap.identity THEN held[c] ELSE rewritten)
      /\ merging' = c + 1 /\ remap' = NewRemap(BaseLen)
      /\ UNCHANGED <<fileCount, threads, pc, plan, table, local, cursor, results, held,
                     expected>>
  BY DEF MergeChunkResults
<1>2. /\ remap.suffix \in Seq(Nat) /\ remap.prefix = BaseLen /\ n \in Nat
      /\ BaseLen \in Nat /\ local[c] \in Seq(String) /\ table \in Seq(String)
      /\ held[c] \in SUBSET Holding /\ results[c] \in Seq(Result)
      /\ c \in Nat \ {0}
  <2>1. BaseLen \in Nat
    BY TextAssumption DEF BaseLen
  <2>2. remap \in [prefix : {BaseLen}, suffix : Seq(Nat), identity : BOOLEAN]
        /\ local[c] \in Seq(String) /\ table \in Seq(String)
        /\ held[c] \in SUBSET Holding /\ results[c] \in Seq(Result)
        /\ c \in Nat \ {0}
    BY <1>1 DEF TypeOK
  <2>3. remap.suffix \in Seq(Nat) /\ remap.prefix = BaseLen
    BY <2>2
  <2> QED  BY <2>1, <2>2, <2>3
<1> HIDE DEF c
\* An id of the fork and the id it is sent to.
<1>3. ASSUME NEW h \in held[c]
      PROVE  LET id == RemapGet(remap, h.id)
             IN  /\ id \in Nat /\ id < Len(table)
                 /\ table[id + 1] = h.text
                 /\ remap.identity => id = h.id
  <2>1. /\ h.id \in Nat /\ h.id < Len(local[c])
        /\ local[c][h.id + 1] = h.text
    BY <1>1 DEF TableInv, Keeps, Issued, Resolve
  <2>2. CASE h.id < BaseLen
    <3>1. RemapGet(remap, h.id) = h.id
      BY <1>2, <2>2 DEF RemapGet
    <3>2. h.id + 1 \in 1 .. BaseLen /\ BaseLen <= Len(table)
          /\ Len(table) \in Nat
      BY <1>2, <2>1, <2>2 DEF TableInv, StartsWithBase
    <3>3. table[h.id + 1] = BaseTable[h.id + 1]
          /\ local[c][h.id + 1] = BaseTable[h.id + 1]
      BY <1>1, <3>2 DEF TableInv, StartsWithBase
    <3> QED  BY <1>2, <2>1, <2>2, <3>1, <3>2, <3>3
  <2>3. CASE ~(h.id < BaseLen)
    <3> DEFINE k == h.id - BaseLen + 1
    <3>1. k \in 1 .. n /\ BaseLen + k = h.id + 1 /\ BaseLen + k - 1 = h.id
      <4>1. BaseLen + n = Len(local[c]) /\ n \in Nat /\ BaseLen \in Nat
        BY <1>1, <1>2
      <4> HIDE DEF n
      <4> QED  BY <2>1, <2>3, <4>1
    <3>2. RemapGet(remap, h.id) = remap.suffix[k]
      BY <1>2, <2>1, <2>3 DEF RemapGet
    <3> HIDE DEF k
    <3>3. /\ remap.suffix[k] < Len(table)
          /\ table[remap.suffix[k] + 1] = local[c][BaseLen + k]
          /\ remap.identity => remap.suffix[k] = BaseLen + k - 1
      BY <1>1, <3>1 DEF RemapInv, c
    <3>4. remap.suffix[k] \in Nat
      <4>1. k \in DOMAIN remap.suffix
        BY <1>2, <3>1
      <4> QED  BY <1>2, <4>1, ElementOfSeq
    <3> QED  BY <2>1, <3>1, <3>2, <3>3, <3>4
  <2> QED  BY <2>2, <2>3
<1>4. ASSUME NEW h \in outHeld' \ outHeld
      PROVE  h \in Holding /\ Issued(table, h.id) /\ Resolve(table, h.id) = h.text
  <2>1. CASE remap.identity
    <3>1. h \in held[c] /\ h \in Holding
      BY <1>1, <1>2, <2>1
    <3> QED  BY <1>3, <2>1, <3>1 DEF Issued, Resolve
  <2>2. CASE ~remap.identity
    <3>1. PICK g \in held[c] : h = [g EXCEPT !.id = RemapGet(remap, @)]
      BY <1>1, <2>2
    <3>2. g \in Holding /\ RemapGet(remap, g.id) \in Nat
      BY <1>2, <1>3
    <3>3. h.id = RemapGet(remap, g.id) /\ h.text = g.text /\ h \in Holding
      BY <3>1, <3>2 DEF Holding
    <3> QED  BY <1>3, <3>3 DEF Issued, Resolve
  <2> QED  BY <2>1, <2>2
<1>5. Chunks' = Chunks
  BY <1>1 DEF Chunks
<1>6. TypeOK'
  <2>1. outHeld' \in SUBSET Holding
    BY <1>4 DEF TypeOK
  <2>2. outputs' \in Seq(Result)
    BY <1>1, <1>2 DEF TypeOK
  <2>3. remap' \in [prefix : {BaseLen}, suffix : Seq(Nat), identity : BOOLEAN]
    BY <1>1 DEF NewRemap
  <2>4. merging' \in Nat \ {0}
    BY <1>1, <1>2
  <2> QED  BY <1>1, <1>5, <2>1, <2>2, <2>3, <2>4 DEF TypeOK
<1>7. PlanInv' /\ WorkInv' /\ ValidationInv'
  BY <1>1 DEF PlanInv, WorkInv, ValidationInv, ChunksAmortizeTasks, Chunks
<1>8. TableInv'
  <2>1. \A h \in outHeld' :
           Issued(table, h.id) /\ Resolve(table, h.id) = h.text
    BY <1>4 DEF TableInv, Keeps
  <2> QED  BY <1>1, <1>5, <2>1 DEF TableInv, StartsWithBase, Keeps
<1>9. RemapInv'
  <2>1. remap' = NewRemap(BaseLen) /\ remap'.suffix = << >>
    BY <1>1 DEF NewRemap
  <2>2. \A d \in Chunks : Len(local[d]) >= BaseLen /\ Len(local[d]) \in Nat
    BY DEF TableInv, StartsWithBase, TypeOK
  <2> QED  BY <1>1, <1>2, <1>5, <2>1, <2>2 DEF RemapInv
<1> QED  BY <1>6, <1>7, <1>8, <1>9

\* The end of the merge changes the phase only.
LEMMA FinishMergeInv ==
    ASSUME PreparationInv, FinishMerge
    PROVE  PreparationInv'
<1> USE DEF PreparationInv
<1>1. /\ pc = "merge" /\ merging \notin Chunks
      /\ pc' \in {"prepared", "diagnosed"}
      /\ UNCHANGED <<fileCount, threads, plan, table, local, cursor, results, held,
                     merging, expected, remap, outputs, outHeld>>
  BY DEF FinishMerge
<1>2. TypeOK' /\ PlanInv' /\ WorkInv' /\ TableInv' /\ ValidationInv'
  BY <1>1 DEF TypeOK, PlanInv, WorkInv, ChunksAmortizeTasks, TableInv, Chunks,
     StartsWithBase, Keeps, ValidationInv
<1>3. RemapInv'
  BY <1>1 DEF RemapInv, Chunks
<1> QED  BY <1>2, <1>3

\* A finished preparation stays as it is.
LEMMA StutterPreparation ==
    ASSUME PreparationInv, UNCHANGED vars
    PROVE  PreparationInv'
BY DEF PreparationInv, vars, TypeOK, PlanInv, WorkInv, ChunksAmortizeTasks,
   TableInv, Chunks, StartsWithBase, Keeps, ValidationInv, RemapInv
-----------------------------------------------------------------------------
\* The invariant holds in every state of the preparation of any files.
THEOREM PreparationInvariant == Spec => []PreparationInv
<1>1. Init => PreparationInv
  BY InitPreparation
<1>2. PreparationInv /\ [Next]_vars => PreparationInv'
  <2> SUFFICES ASSUME PreparationInv, [Next]_vars
               PROVE  PreparationInv'
    OBVIOUS
  <2>1. CASE \E c \in Chunks : WorkerIntern(c)
    BY <2>1, WorkerInternInv
  <2>2. CASE \E c \in Chunks, ok \in BOOLEAN : WorkerFinishFile(c, ok)
    BY <2>2, WorkerFinishInv
  <2>3. CASE CollectChunks
    BY <2>3, CollectInv
  <2>4. CASE ValidateChunk
    BY <2>4, ValidateInv
  <2>5. CASE FinishValidation
    BY <2>5, FinishValidationInv
  <2>6. CASE MergeString
    BY <2>6, MergeStringInv
  <2>7. CASE MergeChunkResults
    BY <2>7, MergeResultsInv
  <2>8. CASE FinishMerge
    BY <2>8, FinishMergeInv
  <2>9. CASE Terminated \/ UNCHANGED vars
    BY <2>9, StutterPreparation DEF Terminated
  <2> QED  BY <2>1, <2>2, <2>3, <2>4, <2>5, <2>6, <2>7, <2>8, <2>9 DEF Next
<1> QED  BY <1>1, <1>2, PTL DEF Spec

\* The variables keep their types.
THEOREM PreparationTypesHold == Spec => []TypeOK
<1>1. PreparationInv => TypeOK
  BY DEF PreparationInv
<1> QED  BY <1>1, PreparationInvariant, PTL

\* An id means the string it was issued for, in a worker's fork and, after the
\* merge has rewritten it or found that it need not, in the module's table.
THEOREM IdsKeepTheirStringsHolds == Spec => []IdsKeepTheirStrings
<1>1. PreparationInv => IdsKeepTheirStrings
  BY DEF PreparationInv, TableInv, Keeps, IdsKeepTheirStrings
<1> QED  BY <1>1, PreparationInvariant, PTL

\* No plan of any strategy is rejected, for any thresholds of the policy.
THEOREM PlansAreAcceptedHolds == Spec => []PlansAreAccepted
<1>1. PreparationInv => PlansAreAccepted
  BY DEF PreparationInv, ValidationInv, PlansAreAccepted
<1> QED  BY <1>1, PreparationInvariant, PTL

\* Chunks are large enough and few enough, for any thresholds of the policy.
THEOREM ChunksAmortizeTasksHolds == Spec => []ChunksAmortizeTasks
<1>1. PreparationInv => ChunksAmortizeTasks
  BY DEF PreparationInv, PlanInv
<1> QED  BY <1>1, PreparationInvariant, PTL
-----------------------------------------------------------------------------
(***************************************************************************)
(* What the files interned, by file and position.  The file with index f   *)
(* has the number f + 1, in the worker's results as in the outputs, so     *)
(* that merging changes no place.                                          *)
(***************************************************************************)
BaseSaid == Occurrences(BaseTable, 0)

ReadOf(f, read) == Occurrences(SubSeq(FileText[f], 1, read), f + 1)

FinishedSaid(c) ==
    UNION {ReadOf(results[c][i].file, results[c][i].read) : i \in DOMAIN results[c]}

CurrentSaid(c) ==
    IF HasFile(c) THEN ReadOf(cursor[c].file, cursor[c].read) ELSE {}

Said(c) == FinishedSaid(c) \cup CurrentSaid(c)

\* A worker's table lists what its chunk interned.
LocalsList ==
    \A c \in Chunks : ListsByOccurrence(local[c], BaseSaid \cup Said(c))

\* The outputs are those of the chunks merged so far, and the table lists what
\* they interned, but for the strings of the chunk being merged.
MergedInOrder ==
    /\ \A i \in DOMAIN outputs : outputs[i].file = i - 1
    /\ Len(outputs) = IF merging \in Chunks THEN plan[merging].first
                      ELSE fileCount
    /\ merging \notin Chunks => ListsByOccurrence(table, Interned)
    /\ merging \in Chunks =>
          \E t \in Seq(String) :
              /\ ListsByOccurrence(t, Interned)
              /\ MergedUpTo(table, t, local[merging], BaseLen, Len(remap.suffix))

\* Inductive relative to PreparationInv.
OrderInv ==
    /\ LocalsList
    /\ pc \in {"prepare", "validate"} => outputs = << >> /\ table = BaseTable
    /\ pc \in {"merge", "prepared", "diagnosed"} => MergedInOrder
    /\ pc \in {"prepared", "diagnosed"} => merging \notin Chunks

\* A cursor that has a file is at a file of the module, and the results before
\* it are those of earlier files.
LEMMA CursorInside ==
    ASSUME PreparationInv, NEW c \in Chunks
    PROVE  /\ cursor[c].file \in Nat /\ cursor[c].read \in Nat
           /\ HasFile(c) => /\ cursor[c].file \in Files
                            /\ FileText[cursor[c].file] \in Seq(String)
           /\ results[c] \in Seq(Result)
           /\ \A i \in DOMAIN results[c] :
                 /\ results[c][i].file = plan[c].first + i - 1
                 /\ results[c][i].file < cursor[c].file
                 /\ results[c][i].file \in Nat
<1> USE DEF PreparationInv
<1>1. /\ cursor[c] \in [file : Nat, read : Nat]
      /\ plan[c] \in [first : Nat, end : Nat] /\ fileCount \in 1 .. MaxFiles
      /\ plan[c].end <= fileCount
      /\ results[c] \in Seq(Result)
  BY ElementOfSeq DEF TypeOK, PlanInv, Chunks
<1>2. HasFile(c) => cursor[c].file \in Files
  BY <1>1, BoundsAssumption DEF Files, HasFile
<1>3. HasFile(c) => FileText[cursor[c].file] \in Seq(String)
  BY <1>2, TextAssumption
<1>4. ASSUME NEW i \in DOMAIN results[c]
      PROVE  /\ results[c][i].file = plan[c].first + i - 1
             /\ results[c][i].file < cursor[c].file
             /\ results[c][i].file \in Nat
  <2>1. /\ results[c][i].file = plan[c].first + i - 1
        /\ Len(results[c]) = cursor[c].file - plan[c].first
    BY DEF WorkInv
  <2>2. i \in 1 .. Len(results[c])
    BY <1>1
  <2> QED  BY <1>1, <2>1, <2>2
<1> QED  BY <1>1, <1>2, <1>3, <1>4

\* Steps that leave the workers alone.
LEMMA LocalsStay ==
    ASSUME LocalsList, UNCHANGED <<plan, local, cursor, results>>
    PROVE  LocalsList'
BY DEF LocalsList, Chunks, Said, FinishedSaid, CurrentSaid, HasFile

\* At the beginning nothing was said.
LEMMA InitOrder == Init => OrderInv
<1> SUFFICES ASSUME Init PROVE OrderInv
  OBVIOUS
<1>1. PreparationInv
  BY InitPreparation
<1>2. ASSUME NEW c \in Chunks
      PROVE  ListsByOccurrence(local[c], BaseSaid \cup Said(c))
  <2>1. results[c] = << >> /\ cursor[c].read = 0 /\ local[c] = BaseTable
    BY DEF Init
  <2>2. FinishedSaid(c) = {}
    BY <2>1 DEF FinishedSaid
  <2>3. CurrentSaid(c) = {}
    BY <1>1, <2>1, CursorInside, NoOccurrence DEF CurrentSaid, ReadOf
  <2>4. ListsByOccurrence(BaseTable, BaseSaid)
    BY TextAssumption, TableListsItself DEF BaseSaid
  <2>5. BaseSaid \cup Said(c) = BaseSaid
    BY <2>2, <2>3 DEF Said
  <2> QED  BY <2>1, <2>4, <2>5
<1>3. pc = "prepare" /\ outputs = << >> /\ table = BaseTable
  BY DEF Init
<1> QED  BY <1>2, <1>3 DEF OrderInv, LocalsList

\* The string a worker interns comes after all its chunk said before.
LEMMA InternOrder ==
    ASSUME PreparationInv, OrderInv, NEW c \in Chunks, WorkerIntern(c)
    PROVE  OrderInv'
<1> DEFINE f == cursor[c].file
           k == cursor[c].read
           s == FileText[f][k + 1]
           p == <<f + 1, k + 1>>
           new == [text |-> s, at |-> p]
<1>1. /\ pc = "prepare" /\ HasFile(c) /\ k + 1 \in DOMAIN FileText[f]
      /\ local' = [local EXCEPT ![c] = Intern(@, s)]
      /\ cursor' = [cursor EXCEPT ![c].read = k + 1]
      /\ UNCHANGED <<pc, plan, table, results, outputs>>
  BY DEF WorkerIntern
<1>2. /\ local \in [Chunks -> Seq(String)]
      /\ cursor \in [Chunks -> [file : Nat, read : Nat]]
  BY DEF PreparationInv, TypeOK
<1>3. /\ f \in Nat /\ k \in Nat /\ FileText[f] \in Seq(String)
      /\ k < Len(FileText[f]) /\ s \in String
  <2>1. f \in Nat /\ k \in Nat /\ FileText[f] \in Seq(String)
    BY <1>1, CursorInside
  <2> QED  BY <1>1, <2>1
<1>0. /\ ReadOf(f, k + 1) = ReadOf(f, k) \cup {new}
      /\ \A o \in ReadOf(f, k) : Precedes(o.at, p)
  <2> DEFINE text == FileText[f]
             number == f + 1
  <2>1. text \in Seq(String) /\ number \in Nat /\ k \in Nat /\ k < Len(text)
    BY <1>3
  <2> HIDE DEF text, number, k
  <2>2. /\ Occurrences(SubSeq(text, 1, k + 1), number)
              = Occurrences(SubSeq(text, 1, k), number)
                   \cup {[text |-> text[k + 1], at |-> <<number, k + 1>>]}
        /\ \A o \in Occurrences(SubSeq(text, 1, k), number) :
              Precedes(o.at, <<number, k + 1>>)
    BY <2>1, OneMoreOccurrence
  <2> QED  BY <2>2 DEF ReadOf, text, number
<1>4. /\ local'[c] = Intern(local[c], s)
      /\ cursor'[c].file = f /\ cursor'[c].read = k + 1
      /\ \A d \in Chunks \ {c} : local'[d] = local[d] /\ cursor'[d] = cursor[d]
  BY <1>1, <1>2
<1>5. Said(c)' = Said(c) \cup {new}
  <2>1. FinishedSaid(c)' = FinishedSaid(c)
    BY <1>1 DEF FinishedSaid
  <2>2. HasFile(c)'
    BY <1>1, <1>4 DEF HasFile
  <2>3. CurrentSaid(c)' = ReadOf(f, k + 1)
    BY <1>4, <2>2 DEF CurrentSaid
  <2>4. CurrentSaid(c) = ReadOf(f, k)
    BY <1>1 DEF CurrentSaid
  <2>5. ReadOf(f, k + 1) = ReadOf(f, k) \cup {new}
    BY <1>0
  <2> HIDE DEF new
  <2> QED  BY <2>1, <2>3, <2>4, <2>5 DEF Said
<1>6. ASSUME NEW o \in BaseSaid \cup Said(c) PROVE Precedes(o.at, p)
  <2>1. CASE o \in BaseSaid
    BY <1>3, <2>1, OccurrencePlaces DEF BaseSaid, Precedes
  <2>2. CASE o \in CurrentSaid(c)
    <3>1. o \in ReadOf(f, k)
      BY <1>1, <2>2 DEF CurrentSaid
    <3> QED  BY <1>0, <3>1
  <2>3. CASE o \in FinishedSaid(c)
    <3>1. PICK i \in DOMAIN results[c] :
              o \in ReadOf(results[c][i].file, results[c][i].read)
      BY <2>3 DEF FinishedSaid
    <3>2. results[c][i].file < f /\ results[c][i].file \in Nat
      BY CursorInside
    <3>3. o.at[1] = results[c][i].file + 1
      BY <3>1, OccurrencePlaces DEF ReadOf
    <3> QED  BY <1>3, <3>2, <3>3 DEF Precedes
  <2> QED  BY <2>1, <2>2, <2>3 DEF Said
<1> HIDE DEF f, k, s, p
<1>7. ListsByOccurrence(local'[c], (BaseSaid \cup Said(c)) \cup {new})
  <2>1. ListsByOccurrence(local[c], BaseSaid \cup Said(c))
    BY DEF OrderInv, LocalsList
  <2>2. local[c] \in Seq(String)
    BY <1>2
  <2> DEFINE O == BaseSaid \cup Said(c)
  <2>3. ListsByOccurrence(local[c], O) /\ \A o \in O : Precedes(o.at, p)
    BY <1>6, <2>1
  <2> HIDE DEF O
  <2>4. ListsByOccurrence(Intern(local[c], s), O \cup {new})
    BY <1>3, <2>2, <2>3, NextOccurrence
  <2> QED  BY <1>4, <2>4 DEF O
<1>8. ListsByOccurrence(local'[c], BaseSaid \cup Said(c)')
  <2>1. BaseSaid \cup Said(c)' = (BaseSaid \cup Said(c)) \cup {new}
    BY <1>5
  <2> QED  BY <1>7, <2>1
<1>9. ASSUME NEW d \in Chunks \ {c}
      PROVE  ListsByOccurrence(local'[d], BaseSaid \cup Said(d)')
  <2>1. Said(d)' = Said(d)
    BY <1>1, <1>4 DEF Said, FinishedSaid, CurrentSaid, HasFile
  <2> QED  BY <1>4, <2>1 DEF OrderInv, LocalsList
<1>10. Chunks' = Chunks /\ BaseSaid' = BaseSaid
  BY <1>1 DEF Chunks, BaseSaid
<1>11. LocalsList'
  BY <1>8, <1>9, <1>10 DEF LocalsList
<1> QED  BY <1>1, <1>11 DEF OrderInv

\* Finishing a file says nothing new.
LEMMA FinishOrder ==
    ASSUME PreparationInv, OrderInv, NEW c \in Chunks, NEW ok \in BOOLEAN,
           WorkerFinishFile(c, ok)
    PROVE  OrderInv'
<1> DEFINE f == cursor[c].file
           k == cursor[c].read
           r == [file |-> f, ok |-> ok, read |-> k]
<1>1. /\ pc = "prepare" /\ HasFile(c)
      /\ results' = [results EXCEPT ![c] = Append(@, r)]
      /\ cursor' = [cursor EXCEPT ![c] = [file |-> f + 1, read |-> 0]]
      /\ UNCHANGED <<pc, plan, table, local, outputs>>
  BY DEF WorkerFinishFile
<1>2. /\ results \in [Chunks -> Seq(Result)]
      /\ cursor \in [Chunks -> [file : Nat, read : Nat]]
  BY DEF PreparationInv, TypeOK
<1>3. r.file = f /\ r.read = k /\ f \in Files /\ k \in Nat /\ r \in Result
  BY <1>1, CursorInside DEF Result
<1> HIDE DEF r
<1>4. /\ results'[c] = Append(results[c], r)
      /\ cursor'[c] = [file |-> f + 1, read |-> 0]
      /\ \A d \in Chunks \ {c} : results'[d] = results[d] /\ cursor'[d] = cursor[d]
  BY <1>1, <1>2
<1>5. FinishedSaid(c)' = FinishedSaid(c) \cup CurrentSaid(c)
  <2>1. CurrentSaid(c) = ReadOf(r.file, r.read)
    BY <1>1, <1>3 DEF CurrentSaid
  <2>2. /\ Len(results'[c]) = Len(results[c]) + 1
        /\ \A i \in 1 .. Len(results[c]) : results'[c][i] = results[c][i]
        /\ results'[c][Len(results[c]) + 1] = r
        /\ DOMAIN results[c] = 1 .. Len(results[c])
        /\ DOMAIN results'[c] = 1 .. Len(results[c]) + 1
        /\ Len(results[c]) \in Nat
    <3>1. results[c] \in Seq(Result)
      BY <1>2
    <3> QED  BY <1>3, <1>4, <3>1, AppendKeeps
  <2> DEFINE n == Len(results[c])
  <2>3. 1 .. n + 1 = 1 .. n \cup {n + 1}
    BY <2>2
  <2> HIDE DEF n
  <2>4. FinishedSaid(c)' = UNION {ReadOf(results'[c][i].file, results'[c][i].read) :
                                      i \in 1 .. n + 1}
    BY <2>2 DEF FinishedSaid, n
  <2>5. FinishedSaid(c) = UNION {ReadOf(results'[c][i].file, results'[c][i].read) :
                                      i \in 1 .. n}
    BY <2>2 DEF FinishedSaid, n
  <2>6. ReadOf(results'[c][n + 1].file, results'[c][n + 1].read) = CurrentSaid(c)
    BY <2>1, <2>2 DEF n
  <2> QED  BY <2>3, <2>4, <2>5, <2>6
<1>6. CurrentSaid(c)' = {}
  <2>1. CASE HasFile(c)'
    <3>1. PreparationInv'
      BY WorkerFinishInv
    <3>2. c \in Chunks'
      BY <1>1 DEF Chunks
    <3>3. FileText[f + 1] \in Seq(String)
      <4>1. f + 1 < plan[c].end
        BY <1>1, <1>4, <2>1 DEF HasFile
      <4>2. plan[c] \in [first : Nat, end : Nat] /\ fileCount \in 1 .. MaxFiles
            /\ plan[c].end <= fileCount /\ f \in Nat
        BY <1>3, ElementOfSeq DEF PreparationInv, TypeOK, PlanInv, Chunks, Files
      <4>3. f + 1 \in Files
        BY <4>1, <4>2, BoundsAssumption DEF Files
      <4> QED  BY <4>3, TextAssumption
    <3>4. CurrentSaid(c)' = ReadOf(f + 1, 0)
      BY <1>4, <2>1 DEF CurrentSaid
    <3> QED  BY <3>3, <3>4, NoOccurrence DEF ReadOf
  <2>2. CASE ~HasFile(c)'
    BY <2>2 DEF CurrentSaid
  <2> QED  BY <2>1, <2>2
<1>7. Said(c)' = Said(c)
  BY <1>5, <1>6 DEF Said
<1>8. ASSUME NEW d \in Chunks \ {c} PROVE Said(d)' = Said(d)
  BY <1>1, <1>4 DEF Said, FinishedSaid, CurrentSaid, HasFile
<1>9. Chunks' = Chunks /\ BaseSaid' = BaseSaid
  BY <1>1 DEF Chunks, BaseSaid
<1>10. LocalsList'
  BY <1>1, <1>7, <1>8, <1>9 DEF OrderInv, LocalsList
<1> QED  BY <1>1, <1>10 DEF OrderInv

\* Collecting and validating the chunks, and finishing the merge, say nothing.
LEMMA QuietOrder ==
    ASSUME PreparationInv, OrderInv,
           CollectChunks \/ ValidateChunk \/ FinishMerge \/ UNCHANGED vars
    PROVE  OrderInv'
<1>1. /\ UNCHANGED <<fileCount, threads, plan, table, local, cursor, results, remap, outputs>>
      /\ pc' = "merge" => pc = "merge"
      /\ pc' \in {"prepared", "diagnosed"} =>
            pc \in {"merge", "prepared", "diagnosed"}
      /\ pc' \in {"prepare", "validate"} => pc \in {"prepare", "validate"}
      /\ pc' \in {"merge", "prepared", "diagnosed"} => merging' = merging
      /\ pc' \in {"prepared", "diagnosed"} => merging \notin Chunks
  BY DEF CollectChunks, ValidateChunk, FinishMerge, vars, OrderInv
<1>2. LocalsList'
  BY <1>1, LocalsStay DEF OrderInv
<1>3. pc' \in {"merge", "prepared", "diagnosed"} => MergedInOrder'
  BY <1>1 DEF OrderInv, MergedInOrder, Interned, Chunks
<1> QED  BY <1>1, <1>2, <1>3 DEF OrderInv, Chunks

\* When the merge begins nothing is merged yet.
LEMMA BeginMergeOrder ==
    ASSUME PreparationInv, OrderInv, FinishValidation
    PROVE  OrderInv'
<1>1. /\ pc = "validate" /\ pc' \in {"merge", "rejected"} /\ merging' = 1
      /\ UNCHANGED <<fileCount, threads, plan, table, local, cursor, results, remap, outputs>>
  BY DEF FinishValidation
<1>2. outputs = << >> /\ table = BaseTable /\ remap.suffix = << >>
  BY <1>1 DEF OrderInv, PreparationInv, RemapInv, NewRemap
<1>3. LocalsList'
  BY <1>1, LocalsStay DEF OrderInv
<1>4. 1 \in Chunks /\ plan[1].first = 0
  BY DEF PreparationInv, TypeOK, PlanInv, Covers, Chunks
<1>5. Interned' = BaseSaid
  <2>1. outputs' = << >> /\ DOMAIN outputs' = {}
    BY <1>1, <1>2
  <2> QED  BY <2>1 DEF Interned, BaseSaid
<1>6. ListsByOccurrence(BaseTable, BaseSaid)
  BY TextAssumption, TableListsItself DEF BaseSaid
<1>7. MergedUpTo(table', BaseTable, local'[1], BaseLen, Len(remap'.suffix))
  <2>1. local[1] \in Seq(String) /\ BaseLen \in Nat /\ Len(remap.suffix) = 0
    BY <1>2, <1>4, TextAssumption DEF PreparationInv, TypeOK, BaseLen
  <2>2. MergedUpTo(BaseTable, BaseTable, local[1], BaseLen, 0)
    BY <2>1, TextAssumption, MergeBegins
  <2> QED  BY <1>1, <1>2, <2>1, <2>2
<1>8. MergedInOrder'
  <2>1. Chunks' = Chunks /\ outputs' = << >> /\ merging' \in Chunks'
    BY <1>1, <1>2, <1>4 DEF Chunks
  <2>2. Len(outputs') = plan'[merging'].first
    BY <1>1, <1>4, <2>1
  <2>3. BaseTable \in Seq(String)
    BY TextAssumption
  <2> QED  BY <1>1, <1>5, <1>6, <1>7, <2>1, <2>2, <2>3 DEF MergedInOrder
<1> QED  BY <1>1, <1>3, <1>8 DEF OrderInv

\* One more string of the chunk is merged.
LEMMA MergeStringOrder ==
    ASSUME PreparationInv, OrderInv, MergeString
    PROVE  OrderInv'
<1> DEFINE L == local[merging]
           n == Len(remap.suffix)
<1>1. /\ pc = "merge" /\ merging \in Chunks /\ BaseLen + n + 1 <= Len(L)
      /\ table' = Intern(table, L[BaseLen + n + 1])
      /\ remap' = RemapNext(remap, IdOf(table', L[BaseLen + n + 1]))
      /\ UNCHANGED <<fileCount, threads, pc, plan, local, cursor, results, merging, outputs>>
  BY DEF MergeString
<1>2. LocalsList'
  BY <1>1, LocalsStay DEF OrderInv
<1>3. /\ L \in Seq(String) /\ table \in Seq(String)
      /\ BaseLen \in Nat /\ n \in Nat
      /\ remap \in [prefix : {BaseLen}, suffix : Seq(Nat), identity : BOOLEAN]
  BY <1>1, TextAssumption DEF PreparationInv, TypeOK, BaseLen
<1>4. Len(remap'.suffix) = n + 1
  <2>1. remap'.suffix = Append(remap.suffix, IdOf(table', L[BaseLen + n + 1]))
    BY <1>1, <1>3 DEF RemapNext
  <2>2. PreparationInv'
    BY MergeStringInv
  <2>3. remap' \in [prefix : {BaseLen}, suffix : Seq(Nat), identity : BOOLEAN]
    BY <2>2 DEF PreparationInv, TypeOK
  <2> HIDE DEF L
  <2> QED  BY <1>3, <2>1, <2>3
<1>5. NoDuplicates(L)
  BY <1>1, ListingFacts DEF OrderInv, LocalsList
<1>6. PICK t \in Seq(String) : /\ ListsByOccurrence(t, Interned)
                              /\ MergedUpTo(table, t, L, BaseLen, n)
  BY <1>1 DEF OrderInv, MergedInOrder
<1> HIDE DEF L, n
<1>7. MergedUpTo(table', t, L, BaseLen, n + 1)
  <2>1. BaseLen + n < Len(L)
    BY <1>1, <1>3
  <2> QED  BY <1>1, <1>3, <1>5, <1>6, <2>1, MergeGoesOn
<1>8. MergedInOrder'
  <2>1. /\ Chunks' = Chunks /\ Interned' = Interned /\ local'[merging'] = L
        /\ merging' \in Chunks'
    BY <1>1 DEF Chunks, Interned, L
  <2>2. ListsByOccurrence(t, Interned')
        /\ MergedUpTo(table', t, local'[merging'], BaseLen, Len(remap'.suffix))
    BY <1>4, <1>6, <1>7, <2>1
  <2>3. /\ \A i \in DOMAIN outputs' : outputs'[i].file = i - 1
        /\ Len(outputs') = plan'[merging'].first
    BY <1>1 DEF OrderInv, MergedInOrder
  <2> QED  BY <2>1, <2>2, <2>3 DEF MergedInOrder
<1> QED  BY <1>1, <1>2, <1>8 DEF OrderInv

\* The results of a chunk are appended when all its strings are merged: the
\* table then lists what the outputs before and those of the chunk interned.
LEMMA MergeResultsOrder ==
    ASSUME PreparationInv, OrderInv, MergeChunkResults
    PROVE  OrderInv'
<1> DEFINE c == merging
           L == local[c]
           n == Len(outputs)
           R == results[c]
<1>1. /\ pc = "merge" /\ c \in Chunks /\ BaseLen + Len(remap.suffix) = Len(L)
      /\ outputs' = outputs \o R
      /\ merging' = c + 1
      /\ UNCHANGED <<fileCount, threads, pc, plan, table, local, cursor, results>>
  BY DEF MergeChunkResults
<1>2. LocalsList'
  BY <1>1, LocalsStay DEF OrderInv
<1>3. /\ L \in Seq(String) /\ table \in Seq(String) /\ BaseLen \in Nat
      /\ remap.suffix \in Seq(Nat)
      /\ outputs \in Seq(Result) /\ n \in Nat /\ R \in Seq(Result)
      /\ StartsWithBase(L)
      /\ \A d \in Chunks : plan[d].first \in Nat /\ plan[d].end \in Nat
      /\ plan \in Seq([first : Nat, end : Nat])
  <2>1. plan \in Seq([first : Nat, end : Nat])
    BY DEF PreparationInv, TypeOK
  <2>2. ASSUME NEW d \in Chunks PROVE plan[d].first \in Nat /\ plan[d].end \in Nat
    <3>1. plan[d] \in [first : Nat, end : Nat]
      BY <2>1, ElementOfSeq DEF Chunks
    <3> QED  BY <3>1
  <2> QED  BY <1>1, <2>1, <2>2, TextAssumption
           DEF PreparationInv, TypeOK, TableInv, BaseLen
<1>4. n = plan[c].first /\ \A i \in DOMAIN outputs : outputs[i].file = i - 1
  BY <1>1 DEF OrderInv, MergedInOrder
<1>5. Len(R) = plan[c].end - n /\ ~HasFile(c)
      /\ \A j \in DOMAIN R : R[j].file = n + j - 1
  <2>1. cursor[c].file = plan[c].end /\ Len(R) = cursor[c].file - plan[c].first
        /\ \A j \in DOMAIN R : R[j].file = plan[c].first + j - 1
    BY <1>1 DEF PreparationInv, WorkInv
  <2> QED  BY <1>1, <1>3, <1>4, <2>1 DEF HasFile
<1> DEFINE ReadAt(i) ==
               Occurrences(SubSeq(FileText[outputs[i].file], 1, outputs[i].read), i)
           ReadAt2(i) ==
               Occurrences(SubSeq(FileText[outputs'[i].file], 1, outputs'[i].read), i)
<1>6. /\ DOMAIN outputs = 1 .. n /\ DOMAIN R = 1 .. Len(R)
      /\ DOMAIN outputs' = 1 .. n + Len(R) /\ Len(outputs') = n + Len(R)
      /\ \A i \in 1 .. n : outputs'[i] = outputs[i]
      /\ \A j \in 1 .. Len(R) : outputs'[n + j] = R[j]
  BY <1>1, <1>3
<1> HIDE DEF n, R, c, L
<1>7. Len(R) \in Nat /\ \A i \in 1 .. n + Len(R) :
          i \in 1 .. n \/ (i - n \in 1 .. Len(R) /\ i = n + (i - n))
  BY <1>3
<1>8. \A i \in DOMAIN outputs' : outputs'[i].file = i - 1
  <2> SUFFICES ASSUME NEW i \in 1 .. n + Len(R) PROVE outputs'[i].file = i - 1
    BY <1>6
  <2>1. CASE i \in 1 .. n
    BY <1>4, <1>6, <2>1
  <2>2. CASE i - n \in 1 .. Len(R) /\ i = n + (i - n)
    <3>1. R[i - n].file = n + (i - n) - 1
      BY <1>5, <1>6, <2>2
    <3>2. outputs'[i] = R[i - n]
      BY <1>6, <2>2
    <3> QED  BY <1>3, <2>2, <3>1, <3>2
  <2> QED  BY <1>7, <2>1, <2>2
<1>9. Interned' = Interned \cup Said(c)
  <2> DEFINE New == UNION {ReadOf(R[j].file, R[j].read) : j \in 1 .. Len(R)}
             Before == UNION {ReadAt(i) : i \in 1 .. n}
             After == UNION {ReadAt2(i) : i \in 1 .. n + Len(R)}
  <2>1. Said(c) = New
    BY <1>5, <1>6 DEF Said, CurrentSaid, FinishedSaid, R
  <2>2. Interned = BaseSaid \cup Before
    BY <1>6 DEF Interned, BaseSaid
  <2>3. Interned' = BaseSaid \cup After
    BY <1>6 DEF Interned, BaseSaid
  <2>4. ASSUME NEW i \in 1 .. n PROVE ReadAt2(i) = ReadAt(i)
    BY <1>6
  <2>5. ASSUME NEW j \in 1 .. Len(R) PROVE ReadAt2(n + j) = ReadOf(R[j].file, R[j].read)
    <3>1. R[j].file = n + j - 1 /\ outputs'[n + j] = R[j]
      BY <1>5, <1>6
    <3>2. R[j].file + 1 = n + j
      BY <1>3, <3>1
    <3> QED  BY <3>1, <3>2 DEF ReadOf
  <2>6. \A i \in 1 .. n : i \in 1 .. n + Len(R)
    BY <1>3, <1>7
  <2>7. \A j \in 1 .. Len(R) : n + j \in 1 .. n + Len(R)
    BY <1>3, <1>7
  <2> HIDE DEF ReadAt, ReadAt2
  <2>8. After = Before \cup New
    <3>0. /\ \A o : o \in After <=> \E k \in 1 .. n + Len(R) : o \in ReadAt2(k)
          /\ \A o : o \in Before <=> \E k \in 1 .. n : o \in ReadAt(k)
          /\ \A o : o \in New <=> \E j \in 1 .. Len(R) : o \in ReadOf(R[j].file, R[j].read)
      OBVIOUS
    <3> HIDE DEF After, Before, New
    <3>1. ASSUME NEW i \in 1 .. n + Len(R), NEW o \in ReadAt2(i)
          PROVE  \/ \E k \in 1 .. n : o \in ReadAt(k)
                 \/ \E j \in 1 .. Len(R) : o \in ReadOf(R[j].file, R[j].read)
      <4>1. CASE i \in 1 .. n
        BY <2>4, <3>1, <4>1
      <4>2. CASE i - n \in 1 .. Len(R) /\ i = n + (i - n)
        BY <2>5, <3>1, <4>2
      <4> QED  BY <1>7, <4>1, <4>2
    <3>2. ASSUME NEW i \in 1 .. n, NEW o \in ReadAt(i)
          PROVE  \E k \in 1 .. n + Len(R) : o \in ReadAt2(k)
      BY <2>4, <2>6, <3>2
    <3>3. ASSUME NEW j \in 1 .. Len(R), NEW o \in ReadOf(R[j].file, R[j].read)
          PROVE  \E k \in 1 .. n + Len(R) : o \in ReadAt2(k)
      BY <2>5, <2>7, <3>3
    <3> QED  BY <3>0, <3>1, <3>2, <3>3
  <2> HIDE DEF After, Before, New
  <2> QED  BY <2>1, <2>2, <2>3, <2>8
<1>10. ListsByOccurrence(table, Interned')
  <2>1. PICK t \in Seq(String) :
            /\ ListsByOccurrence(t, Interned)
            /\ MergedUpTo(table, t, L, BaseLen, Len(remap.suffix))
    BY <1>1 DEF OrderInv, MergedInOrder, L, c
  <2>2. ListsByOccurrence(L, BaseSaid \cup Said(c))
    BY <1>1 DEF OrderInv, LocalsList, L, c
  <2>3. BaseSaid \in SUBSET Interned
    BY DEF Interned, BaseSaid
  <2>4. Len(remap.suffix) = Len(L) - BaseLen /\ BaseLen \in 0 .. Len(L)
    BY <1>1, <1>3
  <2>5. {L[i] : i \in 1 .. BaseLen} = {o.text : o \in BaseSaid}
    <3>1. \A i \in 1 .. BaseLen : L[i] = BaseTable[i]
      BY <1>3 DEF StartsWithBase
    <3>2. DOMAIN BaseTable = 1 .. BaseLen
      BY TextAssumption DEF BaseLen
    <3>3. ASSUME NEW i \in 1 .. BaseLen PROVE \E o \in BaseSaid : L[i] = o.text
      <4> DEFINE o == [text |-> BaseTable[i], at |-> <<0, i>>]
      <4>1. o \in BaseSaid
        BY <3>2 DEF BaseSaid, Occurrences
      <4>2. o.text = L[i]
        BY <3>1
      <4> QED  BY <4>1, <4>2
    <3>4. \A o \in BaseSaid : \E i \in 1 .. BaseLen : L[i] = o.text
      BY <3>1, <3>2 DEF BaseSaid, Occurrences
    <3> QED  BY <3>3, <3>4
  <2>6. ASSUME NEW o \in Interned, NEW x \in Said(c) PROVE Precedes(o.at, x.at)
    <3>1. PICK j \in 1 .. Len(R) : x \in ReadOf(R[j].file, R[j].read)
      BY <1>5, <1>6, <2>6 DEF Said, CurrentSaid, FinishedSaid, R
    <3>2. x.at[1] = n + j
      <4>1. x.at[1] = R[j].file + 1 /\ R[j].file = n + j - 1
        BY <1>5, <1>6, <3>1, OccurrencePlaces DEF ReadOf
      <4> QED  BY <1>3, <4>1
    <3>3. o.at[1] \in 0 .. n
      <4>1. CASE o \in BaseSaid
        BY <1>3, <4>1, OccurrencePlaces DEF BaseSaid
      <4>2. ASSUME NEW i \in 1 .. n, o \in ReadAt(i) PROVE o.at[1] \in 0 .. n
        <5>1. o.at[1] = i
          BY <4>2, OccurrencePlaces
        <5> QED  BY <1>3, <5>1
      <4>3. o \in BaseSaid \/ \E i \in 1 .. n : o \in ReadAt(i)
        BY <1>6, <2>6 DEF Interned, BaseSaid
      <4> HIDE DEF ReadAt
      <4> QED  BY <4>1, <4>2, <4>3
    <3>4. j \in Nat \ {0}
      BY <1>7
    <3> QED  BY <1>3, <3>2, <3>3, <3>4 DEF Precedes
  <2>7. ListsByOccurrence(table, Interned \cup Said(c))
    <3>1. MergedUpTo(table, t, L, BaseLen, Len(L) - BaseLen)
      BY <2>1, <2>4
    <3>2. \A o \in Interned, x \in Said(c) : Precedes(o.at, x.at)
      BY <2>6
    <3> HIDE DEF ReadAt, ReadAt2
    <3> QED  BY <1>3, <2>1, <2>2, <2>3, <2>4, <2>5, <3>1, <3>2, MergeLists
  <2> QED  BY <1>9, <2>7
<1>11. MergedInOrder'
  <2>0. Len(outputs') = n + Len(R)
    BY <1>6, <1>7
  <2>1. Len(outputs') = plan[c].end /\ Chunks' = Chunks
    <3>1. plan' = plan /\ c \in Chunks
      BY <1>1
    <3>2. n \in Nat /\ plan[c].end \in Nat /\ Len(R) = plan[c].end - n
      BY <1>3, <1>5, <3>1
    <3> QED  BY <2>0, <3>1, <3>2 DEF Chunks
  <2>2. /\ c + 1 \in Chunks => plan[c].end = plan[c + 1].first
        /\ c + 1 \notin Chunks => plan[c].end = fileCount
    <3>1. Covers(plan, fileCount) /\ c \in 1 .. Len(plan) /\ Chunks = 1 .. Len(plan)
      BY <1>1, <1>3 DEF PreparationInv, PlanInv, Chunks, c
    <3> QED  BY <3>1 DEF Covers
  <2>3. c + 1 \in Chunks =>
            /\ table \in Seq(String)
            /\ MergedUpTo(table, table, local[c + 1], BaseLen, Len(NewRemap(BaseLen).suffix))
    <3> SUFFICES ASSUME c + 1 \in Chunks
                 PROVE  MergedUpTo(table, table, local[c + 1], BaseLen,
                                   Len(NewRemap(BaseLen).suffix))
      BY <1>3
    <3>1. local[c + 1] \in Seq(String) /\ Len(NewRemap(BaseLen).suffix) = 0
      BY DEF PreparationInv, TypeOK, NewRemap
    <3>2. NoDuplicates(table)
      BY <1>10 DEF ListsByOccurrence
    <3> QED  BY <1>3, <3>1, <3>2, MergeBegins
  <2>4. remap' = NewRemap(BaseLen)
    BY DEF MergeChunkResults
  <2> QED  BY <1>1, <1>8, <1>10, <2>1, <2>2, <2>3, <2>4 DEF MergedInOrder, c
<1> QED  BY <1>1, <1>2, <1>11 DEF OrderInv

\* The order of the results and of the table holds in every state.
THEOREM PreparationOrderInvariant == Spec => []OrderInv
<1>1. PreparationInv /\ OrderInv /\ [Next]_vars => OrderInv'
  <2> SUFFICES ASSUME PreparationInv, OrderInv, [Next]_vars
               PROVE  OrderInv'
    OBVIOUS
  <2>1. CASE \E c \in Chunks : WorkerIntern(c)
    BY <2>1, InternOrder
  <2>2. CASE \E c \in Chunks, ok \in BOOLEAN : WorkerFinishFile(c, ok)
    BY <2>2, FinishOrder
  <2>3. CASE CollectChunks \/ ValidateChunk \/ FinishMerge \/ Terminated
             \/ UNCHANGED vars
    BY <2>3, QuietOrder DEF Terminated
  <2>4. CASE FinishValidation
    BY <2>4, BeginMergeOrder
  <2>5. CASE MergeString
    BY <2>5, MergeStringOrder
  <2>6. CASE MergeChunkResults
    BY <2>6, MergeResultsOrder
  <2> QED  BY <2>1, <2>2, <2>3, <2>4, <2>5, <2>6 DEF Next
<1> QED  BY <1>1, InitOrder, PreparationInvariant, PTL DEF Spec

\* The ids of a prepared module depend on its files alone: whatever strategy,
\* thread count and interleaving, results come in input order and the table
\* lists the strings by their first occurrence in that order.
THEOREM PreparationIsDeterministicHolds == Spec => []PreparationIsDeterministic
<1>1. OrderInv => PreparationIsDeterministic
  BY DEF OrderInv, MergedInOrder, PreparationIsDeterministic, Finished
<1> QED  BY <1>1, PreparationOrderInvariant, PTL
=============================================================================
