# Formal models of the Beanstalk compiler, build system and dev server

Beanstalk is a programming language and compiler written in Rust, with a build
system for directory projects and a dev server. These TLA+ modules model the
parts of it in which several actors, several steps or several runs meet, and
the two analyses of the compiler that decide what a program means before it is
translated: the ordering of a module's declarations and the borrow checker.
TLC checks the models on small instances; TLAPS proves all their safety
properties for every value of the constants.

All paths below are relative to the repository.

## The system

| Part | State it keeps | Operations | Talks to |
| --- | --- | --- | --- |
| String interning (`src/compiler_frontend/symbols/string_interning.rs`) | tables of strings, shared base and own suffix | intern, fork, resolve, `merge_delta_from` with a remap | every compiler stage holds its ids |
| File preparation (`frontend_orchestration.rs`) | chunks, forks, results, diagnostics | plan chunks, prepare in parallel, validate, merge | Rayon workers, string tables |
| Project module graph (`project_module_graph.rs`) | provider and consumer sets, edge locations | add edge, `compile_waves`, cycle report | module inventory |
| Header binding and ordering (`module_dependencies.rs`, `headers/`) | ordering hints, sort marks, sorted headers, errors | canonicalize hints, add constant dependencies, sort | file preparation before it, AST after it |
| Borrow checker (`analysis/borrow_checker/`) | layout, future-use sets, one state per block, worklist, facts | compute future uses, transfer statements, join at edges | HIR before it, backends use its facts |
| Module inventory (`module_inventory.rs`) | discovered modules and import facts | discover, merge facts, group by wave | graph, directory compilation |
| Directory compilation (`compilation.rs`) | results of module tasks, the build's table | compile waves, sort, aggregate failures, merge | all of the above |
| Output writing and cleanup (`build.rs`, `output_cleanup.rs`) | output folder, manifest on disk | read manifest, emit, remove stale, write manifest | later builds, other builders, users |
| Watch session (`watch.rs`) | revision counter, wake-up channel, fingerprints | signal, wait and debounce | notify callback or polling thread, rebuild loop |
| Rebuild loop (`build_loop.rs`) | last seen revision, watch scope | wait, build until stable, swap session | watch session, dev server state |
| Dev server state, pages and event streams (`state.rs`, `http.rs`, `sse.rs`, `dev_client.rs`) | build state, registry of clients | publish, broadcast, register, serve | rebuild loop, browser tabs |
| Tokenizer, header syntax, AST, types, templates, HIR, backends, HTML builder, configuration, CLI | per-compilation data | one-pass translations | each other, in sequence |

The dev server runs the loop in one thread, the watcher in another (a callback
of the notify crate, or a polling thread), and every connection in a thread of
its own. They share an atomic counter, a channel of capacity one, a mutex around
the build state and a mutex around the client registry. A build itself is
parallel in two places: the files of a module are prepared by Rayon workers,
and the modules of a compile wave are compiled by Rayon tasks. What survives a
process is the output folder with its manifest.

What is hard here: wake-ups and edits that arrive between two reads of the
revision; a build that reads sources while they change; sessions that are
replaced together with what they have not delivered; event channels that are
full; pages made from one build and streams registered after another; ids
issued by concurrent forks of one table; results that complete in any order;
pages read from files that are being written; cycles between modules and between
declarations, and an ordering that goes on after it has found some; borrow
states that differ between the paths that meet in a block, and loops that change
what their own beginning was checked with; and builds that fail, crash or find a
damaged manifest.
`PROJECT.json` lists these hazards with the line where each bites and the
properties that cover it.

What makes each part correct:

- an id keeps meaning the string it was issued for, and the result of parallel
  work is a function of the input;
- providers are compiled before consumers, all modules are, and cycles are
  reported as such;
- every declaration comes after the ones it names plainly or reads, and what
  cannot be ordered is reported, no more and no less;
- an accepted function never uses a value it gave away, nor a view somebody
  else wrote behind, whichever path it takes;
- no edit that the watcher signals is forgotten; every rebuild has a cause;
- an open tab shows the last build, whole, or a reload for it is on its way;
- cleanup deletes stale artifacts of the same builder, and nothing else but what
  an interrupted manifest names by accident.

## The modules

| Module | Models | Kind |
| --- | --- | --- |
| `StringTable` | interning, delta merge, remap | operators |
| `ChunkPlan` | preparation strategy and chunk plan | operators |
| `FilePreparation` (+ `MCFilePreparation`) | preparation of one module's files | state machine |
| `FilePreparationProofs` | theorems about `FilePreparation` and its chunk plans | proofs |
| `CompileWaves` (+ `MCCompileWaves`) | edge merge and peeling | state machine |
| `DirectoryCompile` (+ `MCDirectoryCompile`) | compilation of a directory project; extends `CompileWaves` and `StringTable` | state machine |
| `DirectoryCompileProofs` | theorems about `CompileWaves` and `DirectoryCompile` | proofs |
| `HeaderOrder` (+ `MCHeaderOrder`) | canonicalization, constant dependencies and the sort of one module's headers | state machine |
| `HeaderOrderProofs` | theorems about `HeaderOrder` | proofs |
| `BorrowState` | the abstract state of the borrow checker and its primitive changes | operators |
| `BorrowTransfer` | layout, access checks and transfer rules of one statement | operators |
| `BorrowCheck` | future-use sweeps and the worklist; extends `BorrowTransfer` | state machine |
| `BorrowRun` (+ `MCBorrowRun`) | one run of an accepted function; extends `BorrowCheck` | state machine |
| `BorrowCheckProofs` | theorems about `BorrowCheck` and `BorrowRun` | proofs |
| `WatchLoop` | watcher, session and rebuild loop | state machine |
| `ReloadStream` | build publication, broadcast, event streams, tabs | state machine |
| `ReloadStreamProofs` | theorems about `ReloadStream` | proofs |
| `LiveReload` | what the dev server promises an author | abstract specification |
| `DevServer` | `WatchLoop` and `ReloadStream` composed; implements `LiveReload` | composition |
| `DevServerProofs` | theorems about `WatchLoop`, and that `DevServer` implements it and `LiveReload` | proofs |
| `OutputCleanup` (+ `MCOutputCleanup`) | emission, cleanup and manifest across builds | state machine |
| `OutputCleanupProofs` | theorems about `OutputCleanup` | proofs |
| `CommonLemmas` | induction, recursion, interning and merging: what several of the proofs rest on | proofs |

`map` in `PROJECT.json` gives the source lines of every definition. Operators
whose comment says "a plausible bug" are variants of the definition next to
them, with the parameters of that definition; no specification uses them. Each
property of a passing run is known to fail when one such variant takes the place
of the original (`mutants` in `PROJECT.json`).

### StringTable, ChunkPlan, FilePreparation

A table is the sequence of its strings and an id is a position minus one. The
code splits a forked table into a shared base and an own suffix; every lookup
reads the two as one sequence, and so does the model. `merge_delta_from` is
modelled one string at a time, with the remap it builds and the cached identity
flag that decides whether results are rewritten at all.

A source file is the sequence of strings its preparation interns. A worker per
chunk interns them into its own fork (`WorkerIntern`), ends each file with an
output or a diagnostic (`WorkerFinishFile`), and the owner then validates the
chunk order and merges chunk by chunk. Every id a result holds is kept with the
string it was issued for; the code has no such record, it is what the
properties compare with. The number of workers (`threads`, what Rayon reports) is
chosen at the start and kept, because the limit on chunks is relative to it.

That the result is deterministic is stated without computing it:
`ListsByOccurrence` says that a table lists the strings of a set of occurrences
(a string, with the file and the place it was read at) once each, in the order
of their first occurrence. There is one such table for a module, whichever
worker interned what first.

### CompileWaves

`Observations` are the import facts discovery can return. `MergeFact` takes
them in the order of the code's stable sort and inserts edges idempotently with
the location of the first observation. `PeelWave` is one iteration of the
peeling loop over a whole wave: the code decrements the outstanding count of
every consumer of every ready module, which sums up to subtracting the number
of ready providers. Modules are numbered in the order of their root
directories, as `ModuleId`s are; the order of modules inside a wave is left
out because nothing later depends on it.

The code's internal errors (an edge to itself, a root without a module, an id
out of range) cannot be reached: discovery reports only imports between two
roots it found itself.

### DirectoryCompile

Waves are filtered to entry modules (support roots and the facade never
compile), tasks of a wave interleave, and each ends in one of three ways:
compiled, diagnosed, or broken by an infrastructure error. In the last case the
task hands out a fresh fork merged with the table of the error, as
`CompilerMessages::from_error` does. Results are merged in path order, failures
only if there are any; `BuildIsDeterministic` asks for a list by occurrence of
the strings of the merged modules, taken in that order. Module warnings, type contexts and the steps before the
inventory are left out.

### HeaderOrder

A header is its position in source order, with the types it names and, in order,
the names its constant initializer, template condition or collection capacities
read. A type is named plainly (`hints`: a declaration of the file, or an import
of it) or with a namespace (`qualified`: the header that is meant, and the last
component of the name). `Retained` is what syntax preparation keeps of them: of a
qualified name the last component only, looked up like a plain name of the file
(`for_each_named_type_in_parsed_ref`, `collect_named_type_ordering_hint`), and
never the own name of a struct, choice or function. What the default values of
struct fields read is not collected by the code (`header_dispatch.rs`, lines 356
to 357), so it is no part of the model and of no property. The
phases are the code's passes: `CanonicalizeHints` turns import spellings into
the headers they are bound to, `AddConstantDependencies` adds an edge for every
constant a constant or a capacity reads and rejects forbidden references, and
the sort visits headers depth first. A frame of `frames` is one activation of
the recursive `visit_node`: `VisitRoot` and `Descend` are its calls,
`FinishHeader` its return, `Unwind` and `Report` the way of an error through the
calls to the outer loop. So the error recovery (marks taken back, the failed
root reported once, the walk going on with the next header) is modelled step by
step. Start functions have no name, are kept out of the graph and appended at
the end.

The import environment (which spelling is bound to what, and what is visible) and
the public exports of packages, which binding computes before these passes, are
inputs of the model.

### BorrowState, BorrowTransfer, BorrowCheck, BorrowRun

A local is the set of modes it may be in (uninitialised, owner of its slot, view
of other locals) with the roots it views; bit sets are sets. `counts` is the
cached number of holders of each root, which the code updates incrementally and
the access checks read. `BorrowTransfer` has the layout of a function (a
position for each statement and terminator, first writes and last uses) and
the rules: which accesses conflict, when a local that a call may consume is
given away or only borrowed (`MoveDecision`), and what an assignment, an
aggregate, a write or a call leaves behind. `BorrowCheck` computes the may- and
must-use sets by sweeps until nothing changes, then runs the first-in first-out
worklist: one statement, one call argument or one edge per step, with the
truncation to the locals visible in the successor, the join with its recorded
state, and the check that joined paths agree about inferred moves.

`BorrowRun` is the other side: the value each local holds in one run through an
accepted function, whether as a view, and through which other locals the view
was made, under the transfers the checker decided for each statement. A
temporary that is no view is loaded by value: what is assigned from it is a value
of its own. Where an edge leaves a region, the locals declared in it end, and
the views of them with them. `fault` records a use of a value that was given away
or never there, and a use of a view behind which another holder wrote.

Two history variables name the places where the checker is known to look away;
the properties of the run except them and nothing else.

- `partial`: a view lost the root whose value it holds and stayed usable because
  it had another one. This is the third finding below; the loss can be a
  transfer by assignment or into an aggregate, or the end of the region of that
  root. The case of a temporary that is rebound as a view of a value it is itself
  a root of (`RootsItself`) counts too: it overwrites the root.
- `scratch`: a temporary read or wrote while a view of the same value was past
  its last use in block order but used again in a later iteration.
  The code looks for later iterations only on behalf of bindings of the source
  program, because rebinding a temporary "is not a source mutation"
  (`transfer/access/conflicts.rs`, lines 421 to 450).

The functions are the shapes that HIR lowering gives to straight code, `if` and
`while`. Call summaries of callees (effects per argument, arguments a result
may view) are part of the statements. Left out: reactive sources, advisory drop
sites (reported, never acted on), arguments of jumps, map, cast and numeric
operations (which load their operands as other expressions do) and aggregates
in returns.

### WatchLoop

The project is a set of areas: the entry root with the configuration, and
package folders. An edit stamps an area and, in the entry area, may change which
areas belong to the project. The stamp is the contents, which builds read. What
the polling backend sees is the `mark`, for the lengths and modification times of
the files: an edit gives a new one, or leaves the one the poller knows. `Edit` is
the user; `NotifyCallback`, `IgnoreEvents` (backend errors and events that are not
actionable, dropped without a signal), `PollBaseline`, `PollScan` and `SendToken` are the watcher, with `signal_change`
in its two steps; the actions of `RebuildLoop` follow `wait_for_stable_change`,
`run_builds_until_stable` and `run_watch_build_loop` read by read. A build reads
the configuration, then the areas one by one while the user goes on.

`missed` and `signals` are history variables. `missed` names the gaps an edit
can fall into: `unwatched` (no session, or outside its scope), `alike` (with a
length and time the poller knows already), `dropped` (in an event or error the
notify callback ignores), `latched` (before
`last_seen_revision` was read), `settled` (before the second read after a
build), `paused` (at the rebuild limit) and `swapped` (in a session that is
being dropped).

Left out: the end of the loop when the channel is disconnected (the session
holds a sender as long as it lives), scans that fail (the poller keeps its
fingerprints and tries again), watch targets that do not exist, and endless bursts of events (edits are bounded, so the debounce always
ends).

### ReloadStream, LiveReload, DevServer

`ReloadStream` has the second half of `run_single_build_cycle` (write, publish
under one lock, broadcast under the other), the handler thread of each event
stream step by step, and the browser's tabs. One write to a closed connection
may still succeed, and with `Stalls` a live peer may exceed the write timeout. A
build's output is a stamp, and `partial` while `fs::write` has truncated a file
and not yet filled it, or for good when the write failed. A page read meanwhile
is partial too, and may have no working reload script: its text ends inside a
character, which is answered with a plain error, or inside a tag. Such a tab
(phase `broken`) stays as it is until its user acts. A manual refresh is closing
one tab and opening another. The files of a build share one stamp: that they
are written one after the other adds nothing to a page that is one of them.
Request parsing, methods and routing are left out, and so are poisoned locks,
which need a panic.

`DevServer` runs both with shared build steps. `LiveReload` states the promise:
builds follow edits in order and are never ahead of them, and a request is
answered with a build at least as new as the one published when it was made.
The refinement maps edits, the stamp of the published build, the tabs with a
request under way, and what each tab asked for and shows.

### OutputCleanup

A file carries the name of who wrote it last. A build reads the manifest, emits
its files one by one, removes what the manifest lists and the build did not
emit, and writes its manifest. That write is not atomic: `HalfWritten` leaves the
old manifest, one without its metadata, or a valid header over the first of the
sorted paths, of which the last may be cut. A cut path is the name of another
file when some path is a beginning of it (`Beginnings`), and the code takes it for
an artifact: any safe relative path is one. `torn` remembers that this happened;
the properties except the names that can come of it (`CutNames`) and nothing
else. `Mishap` bounds the
failures, crashes and damages of a behaviour. Whether a path counts as managed
is a function of the path (its extension, or its being emitted as bytes).

Left out: builds without a project directory (no manifest is used), the safety
check of the output root, lexical path checks, directories, removal of empty
parents, and writes skipped because the content is the same, which leave the
same file.

## The runs

| Run | States | What it shows |
| --- | --- | --- |
| `file_preparation` | 114 145 | ids keep their strings, every plan is accepted and keeps its chunks worth a task, the result is deterministic |
| `compile_waves` | 203 464 | the waves, the cycle report and the edge locations are right |
| `directory_compile` | 8 070 | providers finish first, ids survive both merges, the build is deterministic, a failure hides no other module |
| `header_order` | 911 539 | accepted modules are ordered by their plain names, rejected ones reported exactly, the recursion is bounded, cycles leave the file |
| `borrow_run` | 243 569 | the analysis is sound and covers every path, future uses agree with the paths, accepted functions run without fault |
| `watch_loop` | 284 898 | no lost wake-up, stale output only through the named gaps, bounded rebuilds, signalled edits are built |
| `reload_stream` | 128 102 | no lost reload, settled tabs are current and whole, no reload loop, recent pages, an exact registry; closed streams are forgotten, builds reach their tabs |
| `dev_server` | 165 592 | the composition implements `LiveReload`; a signalled edit is shown as a whole page, unless its tab was overtaken |
| `output_cleanup` | 427 434 | cleanup is confined to the builder's own artifacts under mishaps, but for names cut by an interrupted manifest write, and complete without mishaps |
| `watch_loop_failed`, `output_cleanup_preserved`, `borrow_views_partial` | | violations, see the findings |

### Bounds

- `file_preparation`: up to six files over four strings, with thresholds scaled
  to 1 and 4 so that serial, per-file and chunked plans all occur, a least chunk
  size of two so that it and the number of threads, from one to three, both limit
  the chunks, and texts that share strings so that remaps are the identity in some chunks and
  not in others. With the constants of the code (2, 8, 2, 4) a chunked module
  would have eight files at least; the theorems below cover them.
- `compile_waves`: four modules and up to four facts in any order: chains,
  diamonds, duplicates and every small cycle.
- `directory_compile`: three entries and a support root, four graphs (none, a
  chain through the support root, a shared provider, a cycle).
- `header_order`: three declarations around a start function with every graph of
  names between them, an import that is missing, public or bound, and a type
  that exists nowhere; four declarations with at most two edges each, so that
  an error is followed by roots that share headers with the failed one;
  four constants and structs in two files that read each other; and two types
  and an alias in two files that name each other with a namespace, whose last
  component is another declaration of the file, an import or unknown. 51 801
  modules.
- `borrow_run`: two parameters, a view, a mutable binding and a temporary in
  straight functions of four statements, an `if` with a merge block and a
  `while` with a back edge, from small sets of statements per place. A run
  takes nine edges at most (`MaxHops`), which is three rounds of the loop: one
  to make a view, one to write behind it, one to use it. Both exceptions of the
  run properties, `partial` and `scratch`, occur in it with a fault after them.
- `watch_loop`: three edits, so that an edit can disturb a rebuild and the
  follow-up, and a rebuild limit of 2 instead of 5, so that it is reached.
- `reload_stream`: three builds, so that a broadcast finds a full channel; two
  streams, so that an old handler outlives the reload it caused. Any number of
  tabs is covered by the proofs.
- `dev_server`: two edits and three builds, one tab with one stream; builds
  that fail are left to the parts, where they are in every run (with
  `BuildsMayFail` the run has 1 238 306 states and passes too).
- `output_cleanup`: three paths, one unmanaged and a beginning of another; two
  builders; three builds and two mishaps.

`CHECK_DEADLOCK FALSE` is set for the dev server and the cleanup, where users
and builds may stop, and for the sort, which ends; the other models end in a
state of their own.

### Fairness

Only the dev server models assume fairness; what else must eventually happen is
the termination of sequential code. They assume weak fairness of the rebuild loop and of the watcher, of the broadcast,
of every handler thread, and of every browser tab: each is a thread or a process
that the operating system schedules, and none waits for a lock that another
one keeps. No live peer is assumed to exceed the write timeout, although it may:
the fairness of a handler leaves those steps out (`PeerStalls`). Nothing is
assumed of the user, nor of the number of builds. Time is
not modelled: a timeout may fire whenever its channel is empty, and with
fairness it does in the end.

## Findings

Each is a run that fails, with the line of the documentation or of a message it
contradicts in `PROJECT.json`.

- **A failed rebuild may leave the faulty folder unwatched**
  (`watch_loop_failed`). When a configuration edit adds a folder and a file in
  it does not compile, `build_once` returns no watch scope, and fixing the file
  triggers nothing.
- **Preserved artifacts stay for good** (`output_cleanup_preserved`). After a
  build in limited safe mode the new manifest does not list what was preserved.
  The same holds of files written by a build that failed and of files whose
  removal failed, which is why `NoStaleArtifacts` asks for an unbroken chain of
  builds.
- **A view of two roots outlives the loss of one** (`borrow_views_partial`). When
  the two branches of an `if` make a temporary view different parameters, a
  binding that takes over one of them removes it from the view and leaves the
  view usable through the other root; a write through the binding is then seen
  through the view. `NoUseAfterTransfer` and `AliasesStayExclusive` except runs
  with such a view (`partial`).

Worth knowing, without a run of their own; a document or comment of the
repository is quoted where it says otherwise:

- a crash while the manifest is written may leave a valid header and a path list
  that ends in "page" of "page.html". The next build takes "page" for an artifact
  and deletes a file of that name, which no build emitted, whereas the comment at
  `output_cleanup.rs` (lines 345 and 346) has it that "corrupt entries are skipped
  without broadening cleanup". `ManifestClaimsOwnArtifacts` and
  `OnlyOwnArtifactsAreRemoved` except that one name, `CurrentOutputsSurvive` an
  unmanaged output of that name (`CutNames`), and `output_cleanup` reaches them;
- a type named with a namespace is not ordered. Of `models.User` the hint keeps
  `User`, as a name of the naming file (`type_syntax/walk.rs`, lines 20 to 22:
  "Dependency discovery only needs the final nominal type name"), so nothing puts
  the `User` of the other file first, although `docs/compiler-design-overview.md`
  (from line 570) lists the types of fields, parameters and alias targets among
  the edges. If the naming file has a `User` of its own, the edge goes there; and
  an alias `User as models.User` waits for itself and is rejected as circular.
  `UsesComeFirst` is about plain names, and `CyclesLeaveTheFile` counts an edge
  over a last component as one over a type;
- what the default values of struct fields read gives no edge either, so a
  constant they read may be sorted after the struct; the comment at
  `header_dispatch.rs` (lines 356 and 357) says that is meant;
- an edit that the notify backend drops or reports as an error, and one that
  leaves length and modification time, is not built until a later one is (the
  gaps `dropped` and `alike`);
- an edit during the initial build is not built: the watch session starts after
  it and takes the revision it finds as seen (the gaps `unwatched` and `latched`
  of `StaleOnlyThroughKnownGaps`);
- a build published between the snapshot of a page and the registration of its
  stream is neither on the page nor announced to it (the exception in
  `SettledTabIsCurrent`);
- a page read while its file is being written may lack the reload script;
- in a loop, an access by a compiler temporary does not ask whether a view is
  used again in the next iteration (the exception `scratch` in
  `AliasesStayExclusive`): with `c = x` before a loop whose head reads `c`, a
  temporary set to `x` in the body may be written through, and the head then
  sees the write behind `c`. The comment in `transfer/access/conflicts.rs` (lines
  421 to 423) gives a reason for it; `borrow-validation.bd` says otherwise:
  "Joins conservatively retain activity when any incoming path may still use the
  alias", "Loops use fixed-point future-use reasoning" (lines 56 and 57) and
  "Exclusive access conflicts with overlapping active shared access" (line 62);
- `check_inconsistent_move_join` rejects a function in which only one branch
  gives a local away by inference, where `docs/compiler-design-overview.md`
  (line 942) has it that failure to prove a transfer must not reject a program;
- the sort keeps a legal order, not the source order of independent
  declarations: with `a` naming `c`, the headers `a, b, c` come out as
  `c, a, b`.

## Proofs

The prover expands no recursive operator and instantiates no theorem that takes
an operator, so definitions by recursion are functions here and the inductions
are over sets. `CommonLemmas` derives what that needs from the library's facts on
finite sets: every set of naturals has a least element (`LeastElement`); a set
with a bottom and closed under successor, or predecessor, holds the whole
interval (`InductionUpTo`, `InductionDown`); and a recursion over 0 to n, or a
sweep down from n, has a function that obeys it (`IteratesExist`,
`SweepsExist`). On these rest the lemmas on interning (`InternWorks`,
`AppendKeeps`) and on merging a delta (`MergeBegins`, `MergeGoesOn`,
`MergeLists`: a merge string by string ends with a list by occurrence of both
tables' occurrences and a remap that keeps every id's meaning).

`DirectoryCompileProofs` proves of `CompileWaves`, for every number of modules and
every sequence of facts, under `GraphAssumption` (there is a module, and facts are
edges between two different modules):

| Theorem | Property |
| --- | --- |
| `GraphInvariant` | the inductive invariant `GraphInv` |
| `GraphTypesHold` | `GraphTypeOK`: outstanding counts never go below zero |
| `ProvidersComeFirstHolds` | `ProvidersComeFirst` |
| `ModulesCompileOnceHolds` | `ModulesCompileOnce` |
| `CyclesAreReportedHolds` | `CyclesAreReported` |
| `WavesAreEarliestHolds` | `WavesAreEarliest` |
| `FirstLocationHolds` | `EdgesKeepTheirFirstLocation` |

None of the properties is inductive. `GraphInv` adds what ties the counters to
the graph: the two edge sets are each other's inverse; while peeling, the
outstanding count of a module is the number of its providers that are in no
wave; the ready modules are exactly the unscheduled ones with count zero; a
scheduled module has only scheduled providers; and the processed count is the
number of scheduled modules. From the count, `CyclesAreReported` follows
by two facts: the modules left over when nothing is ready each wait for another
of them, and any set in which all wait for each other can never contain a
scheduled module. The lemmas have one step per action, and under it one per
conjunct the action can disturb; counts are handled by the theorems on finite
sets of the TLAPS library.

It goes on to the whole compilation, for every set of entry modules, texts and
paths (`DirectoryAssumption`: entries are modules, two of them differ in their
path, and the table of the build has no duplicates):

| Theorem | Property |
| --- | --- |
| `DirectoryInvariant` | the inductive invariant `DirectoryInv` |
| `DirectoryTypesHold` | `TypeOK` |
| `ProvidersFinishFirstHolds` | `ProvidersFinishFirst`: also through support roots, which are in no wave of tasks |
| `DirectoryIdsKeepTheirStrings` | `IdsKeepTheirStrings` |
| `BuildIsDeterministicHolds` | `BuildIsDeterministic` |
| `EveryModuleIsCompiledHolds` | `EveryModuleIsCompiled` |

`DirectoryInv` is `GraphInv` with `WaveInv` (the filtered waves hold each entry
module of the graph's waves, in their order; a task has begun only in the current
or an earlier one, and the earlier ones have ended), `TaskInv` (the table of a
task starts with the build's and lists its strings and those read so far, and
its ids mean what they were issued for) and `MergeInv` (the same of the merged
table, and every result taken comes before every one left, by path). A provider
finishes first because the graph puts it in an earlier wave and filtering keeps
that order; the chain through support roots is an induction along the path. The
build is deterministic because an occurrence is ordered by the rank of the path
of its module, which no wave and no interleaving changes.

`FilePreparationProofs` proves, for every set of strings, all texts, any number of
files and workers and any thresholds of the chunk policy (`PolicyAssumption`: the
least chunk size is not zero; `BoundsAssumption` and `TextAssumption`: there is a
file and a worker, and the base table has no duplicates):

| Theorem | Property |
| --- | --- |
| `PreparationInvariant` | the inductive invariant `PreparationInv` |
| `PreparationTypesHold` | `TypeOK` |
| `IdsKeepTheirStringsHolds` | `IdsKeepTheirStrings` |
| `PlansAreAcceptedHolds` | `PlansAreAccepted` |
| `ChunksAmortizeTasksHolds` | `ChunksAmortizeTasks` |
| `PreparationOrderInvariant` | the inductive invariant `OrderInv` |
| `PreparationIsDeterministicHolds` | `PreparationIsDeterministic` |

The plan is settled first, as a fact about `PlanFor` alone (`PlanIsSound`,
`ChunksAreWorthIt`): a closed form of the chunk boundaries makes both a matter of
division with remainder. `PreparationInv` then says that the results of a chunk
are those of its files up to the cursor; that the file the validation expects is
the end of the last chunk it saw; that every table begins with the base; and
that the remap of the chunk being merged sends each id merged so far to the same
string, and to itself as long as the identity flag is set. The last one carries
`IdsKeepTheirStrings` through both branches of the merge.

Determinism is `OrderInv` on top of that: the fork of a chunk lists by
occurrence the base and what its files said so far, and the module's table lists
the base, the chunks merged and the part of the current chunk's delta already
taken. A string first heard in a later chunk comes after every string of an
earlier one, so merging chunk by chunk in file order keeps the list
(`NextOccurrence`), and at the end nothing in it mentions a worker.

`HeaderOrderProofs` proves, for modules of any number of headers and files, under
`TargetsAssumption` (targets that are no header are none):

| Theorem | Property |
| --- | --- |
| `AcceptedOrderRespectsUses` | `UsesComeFirst` |
| `SortReportsAreExact` | `ReportsAreExact` |
| `RecursionIsBoundedHolds` | `RecursionIsBounded` |
| `CyclesLeaveTheFileHolds` | `CyclesLeaveTheFile` |

`HeaderInv` says that after the first two passes the hints of a header contain
every other header it names plainly or reads (`HintsAreNeeds`); that the frames are a path of the
graph from the root without repetition and the marks are its headers
(`StackIsPath`, `MarksAreStack`); that an edge already followed leads to a
finished header or is the next frame (`EdgesFollowed`); that the order is closed
under the hints and holds each finished header once (`OrderIsSound`,
`OrderIsFull`). `Stuck` characterises without any walk what cannot be ordered: a
set in which everyone needs something missing or another one of the set. The
recovery is right because no finished header is stuck (`NoneStuck`: a stuck set
would have to contain a first finished one), an error under way means that its
root is (`FailingIsStuck`: the frames, with the cycle or the missing path, are
such a set), and every earlier root is finished or reported once (`RootsAreDone`).
The recursion is bounded by the pigeonhole principle: the frames are different
headers. A cycle leaves its file or goes over the name of a type because every
edge goes to a header that the type names may spell, into another file or upwards
in the file (`HintsAreNamed`), and a cycle cannot go upwards all the way.

`BorrowCheckProofs` proves, for every set of locals and every set of functions,
under `LocalsAssumption`, `BindingsAssumption` and `ProgramsAssumption` (finitely
many locals, parameters and temporaries among them, well-formed statements and
edges: only calls have arguments, a call and a write load nothing besides them,
and the result of a call goes to a temporary, as lowering has it):

| Theorem | Property |
| --- | --- |
| `AnalysisStatesAreSound` | `StateSound`: no local is half initialised without its mode saying so, cached counts are exact |
| `AcceptedFunctionsAreCovered` | `EdgesAreCovered`: no edge of an accepted function is overlooked |
| `RunKeepsTheAnalysis` | a behaviour of `BorrowRun` is one of `BorrowCheck`, so both hold of it too |
| `FutureUseMatchesPathsHolds` | `FutureUseMatchesPaths` |
| `RecordedStatesAreChained` | the invariant `ChainInv` of the analysis |
| `RunInvariant` | the invariant `RunInv` of the run |
| `NoUseAfterTransferHolds` | `NoUseAfterTransfer` |
| `AliasesStayExclusiveHolds` | `AliasesStayExclusive` |

The first needs that each primitive change keeps a state sound, with the counts
it adds and removes; the theorems on finite sets carry the counting. The second
is an argument about what is still to be done (`WorklistInv`): whatever is not
yet covered belongs to a block on the worklist or to the edges of the block being
visited that have not been taken (`NothingLost`, `Propagated`); recorded exits
are covered by what they were propagated to (`CoveredExits`), entries hold
nothing outside the region of their block (`CleanEntries`), and joining with what
an entry covers already changes nothing. When the worklist is empty nothing is
left to be done.

The third property compares two definitions of the future uses. `FutureUseInv`
says that the may-sets hold only what some path uses, that the must-sets still
hold everything no path avoids, and that each is exact once its sweeps have
stopped: a sweep that changes nothing has found a solution of the equations
(`SweepsWorks`), and any solution lies on the other side of what the paths say.
That the blocks reached in as many rounds as there are blocks are all that can be
reached (`ReachedWorks`) is a matter of counting: a round that adds nothing ends
the growth.

That an accepted function runs without fault, for paths of any length, takes two
invariants. `ChainInv` makes of the worklist algorithm a statement about each
statement alone: in a block that is not waiting to be visited again, the locals
recorded before a statement are those the transfer rules made of the statement
before, its access checks passed, the exit state is what they made of the last
one, and the first block begins with the parameters and nothing else. While a
call is checked argument by argument, the state is that of its arguments so far
(`Calling`). With `EdgesAreCovered` this holds along every path of the function.

`RunInv` then relates the run to what the checker recorded at the point it is at
(`Agrees`). What the checker has as initialised, and the run may still see, holds
a value (`Filled`); what it gave up but a slot still holds is held by nobody else
(`Aside`); for every value in use there is one root that all its holders
have, and that holds the value itself unless it is a temporary (`Owned`); and no
view in use is stale (`Unstaled`). `Owned` is what makes the checks of the checker
enough: they compare roots, and two holders of one value are never without a
common one. So when a statement writes or gives a value away, every other holder
in use is among the holders the check counted, and it was expired or the function
rejected; expired holders are used no more, by the exactness of the future uses.
What each kind of statement does to this relation is said once for a step that
drops some roots and binds one local anew (`Carries`), and at a join it passes
from an exit to the recorded entry because that has at least as many roots and
modes. The invariant is `partial` or this: a run in which a view has lost the
root of its value has no common root to argue with.

`DevServerProofs` proves of `WatchLoop`, for any areas, number of edits, backends
and rebuild limit (`WatchAssumption`):

| Theorem | Property |
| --- | --- |
| `WatchInvariant` | the inductive invariant `WatchInv` |
| `NoLostWakeupHolds` | `NoLostWakeup` |
| `RebuildsBoundedBySignalsHolds` | `RebuildsBoundedBySignals` |
| `StaleOnlyThroughKnownGapsHolds` | `StaleOnlyThroughKnownGaps` |

`WatchInv` has two arguments. `BuildsSpendSignals` is a budget: each build, the
running one included, is paid for by a signal of an earlier session or by the
part of the revision the loop has taken note of, and it is the comparison with
`build_start_revision` that leaves a signal for the follow-up. `StaleIsSignalled`
follows the staleness of the output through the loop: as long as no edit fell
into a gap, what the running or last build has read is the project as it is, or
the revision is past what the loop has noted, or the watcher still holds an
edit it will turn into a revision (`Undelivered`). An edit makes the last case
out of the first (a scan must differ unless the area looks known, and then the
edit fell into the gap `alike`: `EditIsUndelivered`), the
watcher makes the revision out of it, and the loop notes a revision only before
it reads.

Then it turns to the composition, for any number of tabs, streams and builds:

| Theorem | Property |
| --- | --- |
| `DevServerImplementsWatchLoop` | every behaviour of `DevServer` is one of `WatchLoop`, so the theorems above hold of it |
| `PromiseInvariant` | the invariant `PromiseInv` of the composition |
| `DevServerImplementsLiveReload` | `ImplementsLiveReload`: the refinement of `LiveReload` |

`PromiseInv` ties the parts together: while the builder of the stream writes, the
rebuild loop has read the sources and not yet published the result, and what is
written is its build (`BuilderFollowsLoop`); the stamps of builds are edits and never go back
(`BuildsFollowEdits`), and a page that was served is not older than the build
published when it was asked for (`PagesFollowRequests`). With it every step is
one of the promise or a stutter: publication is its `Build`, a step of a tab
changes the mapped tab in one of the ways `TabEffect` lists, everything else
leaves the mapped state alone.

`ReloadStreamProofs` proves, for any number of tabs, streams and builds, whether
or not peers stall (`ReloadAssumption`):

| Theorem | Property |
| --- | --- |
| `ReloadInvariant` | the inductive invariant `ReloadInv` |
| `RegistryMatchesHandlersHolds` | `RegistryMatchesHandlers` |
| `NoReloadIsLostHolds` | `NoReloadIsLost` |
| `ReloadsBoundedByBuildsHolds` | `ReloadsBoundedByBuilds` |
| `PagesAreRecentHolds` | `PagesAreRecent` |
| `SettledTabIsCurrentHolds` | `SettledTabIsCurrent` |

`ReloadInv` adds that ids are unique while in use, registered yet or not
(`IdsAreUnique`, which is what makes it right to take them outside the lock);
that a stream gets no event before it is registered (`StreamsAreQuiet`) and
belongs to one tab, which loses it only when its handler gave it up
(`TabsOwnStreams`); that every reload, and the event still ahead of a tab, was
broadcast by a build of its own (`ReloadsAreBroadcasts`); and how stamps, output,
snapshot and page follow one another (`StampsAreVersions`, `PagesFollowBuilds`),
also while the files are partial.

`OutputCleanupProofs` proves, for any builders, paths, number of builds and
mishaps, under `CleanupAssumption` (managed paths are paths, the manifest has an
order, beginnings of paths are paths, and no builder has the name that marks files
of users or of nobody):

| Theorem | Property |
| --- | --- |
| `CleanupInvariant` | the inductive invariant `CleanupInv` |
| `CurrentOutputsSurviveHolds` | `CurrentOutputsSurvive` |
| `ManifestClaimsOwnArtifactsHolds` | `ManifestClaimsOwnArtifacts` |
| `NoStaleArtifactsHolds` | `NoStaleArtifacts` |
| `OnlyOwnArtifactsAreRemovedHolds` | `OnlyOwnArtifactsAreRemoved` |

What a build removes it knows from the manifest it loaded, so the invariant says
of every manifest, on disk or loaded, that it lists managed files its own builder
emitted (`Claims`, `LoadedIsOwn`), whichever build wrote it and whatever failed
in between; once a write was interrupted inside a path (`torn`), also at most one
name that is a beginning of such a file's. `ChainIsUnbroken` is the converse for builds without a mishap: each
artifact in the folder is listed in the manifest on disk or, during a build, in
the one it read or in its own.

Only model-checked is liveness (`SignalledEditIsBuilt`,
`ClosedStreamsAreForgotten`, `BuildReachesTab`, `SignalledEditIsShown`): fairness
and ENABLED are out of the prover's reach. Every other property of a passing run
is a theorem above.

## Not modelled

The tokenizer, header syntax, AST, type system, templates, HIR and backends are
sequential translations of one representation into another; their states are
programs, and a model of them would be a second compiler. They are most of the
repository, so these modules cover a small share of its lines. Reachable file
discovery and the source tree index are walks over a file system; their result
is the input of `CompileWaves`. Configuration, CLI, static files, error pages
and rendering keep no state. `PROJECT.json` lists each with its reason.

## Plan

Modelled in this order: the dev server (`WatchLoop`, `ReloadStream`,
`LiveReload`, `DevServer`), because edits and reloads are what it is for and
failures there are hardest to test; the output folder (`OutputCleanup`); the
parallel build (`StringTable`, `ChunkPlan`, `FilePreparation`, `CompileWaves`,
`DirectoryCompile`); then the borrow checker (`BorrowState`, `BorrowTransfer`,
`BorrowCheck`, `BorrowRun`) and the ordering of declarations (`HeaderOrder`).
Proofs followed the models, in the end those of the compositions
(`DirectoryCompile`, `DevServer`), which use the parts' theorems.

What would come next:

1. reachable file discovery with its queue, and the provider-free parallel
   discovery against the serial one;
2. reactive sources and drop sites in `BorrowTransfer`;
3. a `BorrowRun` without its two exceptions, should the checker come to ask
   whether a view of a lost root is active, and to look for later uses on behalf
   of temporaries too.
