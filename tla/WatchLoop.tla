----------------------------- MODULE WatchLoop -----------------------------
(***************************************************************************)
(* The dev server's watch session and rebuild loop (watch.rs,              *)
(* build_loop.rs, and the start-up order of server.rs).                    *)
(*                                                                         *)
(* Three threads and an environment interleave: the user edits sources;    *)
(* the watcher (the notify callback or the polling thread) turns edits     *)
(* into a revision counter and a wake-up token in a channel of capacity    *)
(* one; the rebuild loop waits, debounces, builds until the revision is    *)
(* stable, and restarts the session when the watch scope changed.          *)
(*                                                                         *)
(* The project is a set of areas (the entry root, each package folder).    *)
(* An area is on disk with the stamp of its last edit, which stands for    *)
(* its contents, and a mark, which stands for the lengths and modification *)
(* times of its files; the project's configuration, itself in area Entry,  *)
(* says which areas belong to it.                                          *)
(***************************************************************************)
EXTENDS Integers, FiniteSets

CONSTANTS
    Areas,            \* the folders a project may consist of
    Entry,            \* the one that holds the configuration
    MaxEdits,         \* bound on the edits of a behaviour
    MaxRebuilds,      \* MAX_CONSECUTIVE_REBUILDS
    Backends,         \* the backends a session may get: "notify", "polling"
    BuildsMayFail     \* whether a source state may not compile

ASSUME WatchAssumption ==
    /\ Entry \in Areas
    /\ MaxEdits \in Nat
    /\ MaxRebuilds \in Nat \ {0}
    /\ Backends \subseteq {"notify", "polling"} /\ Backends # {}
    /\ BuildsMayFail \in BOOLEAN

VARIABLES
    disk,         \* the project: configured areas, stamp and mark of each area
    edits,        \* edits so far
    session,      \* scope and backend of the current watch session
    revision,     \* its revision counter
    token,        \* its channel holds a wake-up
    events,       \* edits its notify backend has not delivered yet
    known,        \* the fingerprints its poller compares with
    watcher,      \* what its watching thread does
    pc,           \* what the rebuild loop does
    lastSeen,     \* last_seen_revision
    seen,         \* seen_revision
    buildStart,   \* build_start_revision
    buildCount,   \* build_count
    nextScope,    \* the watch scope a session will be started with, if any
    build,        \* the running build: what it has read so far
    published,    \* the last published build
    missed,       \* history: edits no later wake-up will report, by cause
    signals       \* history: revisions signalled in all sessions

loopVars == <<pc, lastSeen, seen, buildStart, buildCount, nextScope>>
sessionVars == <<session, revision, token, events, known, watcher>>
vars == <<disk, edits, sessionVars, loopVars, build, published, missed, signals>>

\* What a scan of a watch scope records: lengths and modification times.
Fingerprints(scope) == [a \in scope |-> disk.mark[a]]

NoScope == {}
NoSession == [scope |-> NoScope, backend |-> "none"]
Active == session # NoSession

Init ==
    /\ disk = [configured |-> {Entry}, stamp |-> [a \in Areas |-> 0],
               mark |-> [a \in Areas |-> 0]]
    /\ edits = 0
    /\ session = NoSession
    /\ revision = 0 /\ token = FALSE /\ events = 0
    /\ known = << >> /\ watcher = "idle"
    /\ pc = "read"
    /\ lastSeen = 0 /\ seen = 0 /\ buildStart = 0 /\ buildCount = 0
    /\ nextScope = {Entry}
    /\ build = [at |-> 0, areas |-> {Entry}, read |-> << >>]
    /\ published = [version |-> 0, ok |-> FALSE, build |-> build]
    /\ missed = {}
    /\ signals = 0

-----------------------------------------------------------------------------
(* The user.                                                               *)

\* The running session records edits of area a.
Watched(a) == a \in session.scope /\ watcher # "baseline"

\* The poller cannot tell an area of this mark from the one it knows.
LooksKnown(a, mark) ==
    session.backend = "polling" /\ a \in DOMAIN known /\ known[a] = mark

\* An edit of area a; an edit of the entry area may change the configuration.
\* One that leaves the length, within the granularity of modification times,
\* leaves the mark that the poller knows.
Edit(a, configured, mark) ==
    /\ edits < MaxEdits
    /\ configured = disk.configured \/ a = Entry
    /\ mark = edits + 1 \/ LooksKnown(a, mark)
    /\ edits' = edits + 1
    /\ disk' = [configured |-> configured,
                stamp |-> [disk.stamp EXCEPT ![a] = edits + 1],
                mark |-> [disk.mark EXCEPT ![a] = mark]]
    /\ events' = IF session.backend = "notify" /\ a \in session.scope
                 THEN events + 1 ELSE events
    /\ missed' = missed
          \cup (IF ~Watched(a) /\ a \in configured THEN {"unwatched"} ELSE {})
          \cup (IF Watched(a) /\ LooksKnown(a, mark) THEN {"alike"} ELSE {})
    /\ UNCHANGED <<session, revision, token, known, watcher, loopVars,
                   build, published, signals>>

UserEdits ==
    \E a \in Areas, extra \in SUBSET Areas, mark \in 0 .. MaxEdits :
        Edit(a, {Entry} \cup extra, mark)

-----------------------------------------------------------------------------
(* The watching thread of the current session.                             *)

\* A plausible bug: no new revision while a wake-up is already pending.
BumpRevisionUnlessPending ==
    /\ watcher' = "added"
    /\ IF token THEN UNCHANGED <<revision, signals>>
       ELSE revision' = revision + 1 /\ signals' = signals + 1

BumpRevision ==
    /\ revision' = revision + 1
    /\ signals' = signals + 1
    /\ watcher' = "added"

\* The notify callback: any number of undelivered events reach it as one.
NotifyCallback ==
    /\ session.backend = "notify" /\ watcher = "idle" /\ events > 0
    /\ \E rest \in 0 .. events - 1 : events' = rest
    /\ BumpRevision
    /\ UNCHANGED <<disk, edits, session, token, known, loopVars, build, published,
                   missed>>

\* It ignores the backend's errors (a full queue of events, a lost watch) and
\* the kinds of event it does not take for a change of a file.
IgnoreEvents ==
    /\ session.backend = "notify" /\ watcher = "idle" /\ events > 0
    /\ \E rest \in 0 .. events - 1 : events' = rest
    /\ missed' = missed \cup {"dropped"}
    /\ UNCHANGED <<disk, edits, session, revision, token, known, watcher,
                   loopVars, build, published, signals>>

\* The poller's first scan, on its own thread, after the session has started.
PollBaseline ==
    /\ session.backend = "polling" /\ watcher = "baseline"
    /\ known' = Fingerprints(session.scope)
    /\ watcher' = "idle"
    /\ UNCHANGED <<disk, edits, session, revision, token, events, loopVars,
                   build, published, missed, signals>>

PollScan ==
    /\ session.backend = "polling" /\ watcher = "idle"
    /\ Fingerprints(session.scope) # known
    /\ known' = Fingerprints(session.scope)
    /\ BumpRevision
    /\ UNCHANGED <<disk, edits, session, token, events, loopVars, build, published,
                   missed>>

\* signal_change, after the increment: try_send, ignoring a full channel.
SendToken ==
    /\ watcher = "added"
    /\ token' = TRUE
    /\ watcher' = "idle"
    /\ UNCHANGED <<disk, edits, session, revision, events, known, loopVars,
                   build, published, missed, signals>>

Watcher ==
    NotifyCallback \/ IgnoreEvents \/ PollBaseline \/ PollScan \/ SendToken

-----------------------------------------------------------------------------
(* The rebuild loop.                                                       *)

\* run_single_build_cycle loads the configuration,
ReadConfiguration ==
    /\ pc = "read"
    /\ build' = [at |-> edits, areas |-> disk.configured, read |-> << >>]
    /\ missed' = {}
    /\ pc' = "compile"
    /\ UNCHANGED <<disk, edits, sessionVars, lastSeen, seen, buildStart,
                   buildCount, nextScope, published, signals>>

\* then the sources, area by area while the user goes on editing,
ReadArea(a) ==
    /\ pc = "compile" /\ a \in build.areas \ DOMAIN build.read
    /\ build' = [build EXCEPT !.read =
           [x \in DOMAIN @ \cup {a} |-> IF x = a THEN disk.stamp[a] ELSE @[x]]]
    /\ UNCHANGED <<disk, edits, sessionVars, loopVars, published, missed,
                   signals>>

\* and publishes its outcome.  A failed compilation, which may stop reading
\* early, reports no watch scope; a build that fails later (no entry page, bad
\* site configuration) does.  The first build of a server precedes its watch
\* session, whose scope the configuration gave already.
PublishBuild(ok, scoped) ==
    /\ pc = "compile"
    /\ scoped => DOMAIN build.read = build.areas
    /\ ok => scoped
    /\ ok \/ BuildsMayFail
    /\ published' = [version |-> published.version + 1, ok |-> ok,
                     build |-> build]
    /\ nextScope' = IF scoped THEN build.areas
                    ELSE IF Active THEN NoScope ELSE nextScope
    /\ buildCount' = buildCount + 1
    /\ pc' = IF Active THEN "stable?" ELSE "start"
    /\ UNCHANGED <<disk, edits, sessionVars, lastSeen, seen, buildStart, build,
                   missed, signals>>

\* Edits only the session that is being dropped knows of.
UnseenBySession ==
    \/ events > 0
    \/ revision > lastSeen
    \/ session.backend = "polling" /\ watcher # "baseline"
         /\ Fingerprints(session.scope) # known

\* WatchSession::start: notify, or polling when that is unavailable.  The new
\* session counts from zero and the old one's channel goes with it.
StartSession ==
    /\ pc = "start"
    /\ \E backend \in Backends :
          /\ session' = [scope |-> nextScope, backend |-> backend]
          /\ watcher' = IF backend = "polling" THEN "baseline" ELSE "idle"
    /\ missed' = IF Active /\ UnseenBySession THEN missed \cup {"swapped"}
                 ELSE missed
    /\ revision' = 0 /\ token' = FALSE /\ events' = 0 /\ known' = << >>
    /\ pc' = "load"
    /\ UNCHANGED <<disk, edits, lastSeen, seen, buildStart, buildCount,
                   nextScope, build, published, signals>>

\* last_seen_revision = watch_session.current_revision() on the new session.
LoadLastSeen ==
    /\ pc = "load"
    /\ lastSeen' = revision
    /\ missed' = IF revision > 0 THEN missed \cup {"latched"} ELSE missed
    /\ pc' = "wait"
    /\ UNCHANGED <<disk, edits, sessionVars, seen, buildStart, buildCount,
                   nextScope, build, published, signals>>

\* A plausible bug: sleeping without having looked at the revision.
TestRevisionLater ==
    /\ pc = "wait"
    /\ pc' = "recv"
    /\ UNCHANGED <<disk, edits, sessionVars, lastSeen, seen, buildStart,
                   buildCount, nextScope, build, published, missed, signals>>

\* wait_for_stable_change: the test before the first recv, and after each.
TestRevision ==
    /\ pc = "wait"
    /\ pc' = IF revision > lastSeen THEN "debounce" ELSE "recv"
    /\ UNCHANGED <<disk, edits, sessionVars, lastSeen, seen, buildStart,
                   buildCount, nextScope, build, published, missed, signals>>

Receive ==
    /\ pc = "recv" /\ token
    /\ token' = FALSE
    /\ pc' = "wait"
    /\ UNCHANGED <<disk, edits, session, revision, events, known, watcher,
                   lastSeen, seen, buildStart, buildCount, nextScope,
                   build, published, missed, signals>>

\* The debounce window: another wake-up restarts it, silence ends it.
DebounceAgain ==
    /\ pc = "debounce" /\ token
    /\ token' = FALSE
    /\ UNCHANGED <<disk, edits, session, revision, events, known, watcher,
                   loopVars, build, published, missed, signals>>

DebounceTimeout ==
    /\ pc = "debounce" /\ ~token
    /\ seen' = revision
    /\ buildCount' = 0
    /\ pc' = "begin"
    /\ UNCHANGED <<disk, edits, sessionVars, lastSeen, buildStart, nextScope,
                   build, published, missed, signals>>

\* One turn of run_builds_until_stable, around the build.
BeginBuild ==
    /\ pc = "begin"
    /\ buildStart' = revision
    /\ pc' = "read"
    /\ UNCHANGED <<disk, edits, sessionVars, lastSeen, seen, buildCount,
                   nextScope, build, published, missed, signals>>

\* A plausible bug: a comparison with the revision seen before the builds
\* instead of before the last one.
TestStableSinceWait ==
    /\ pc = "stable?"
    /\ pc' = IF revision # lastSeen /\ buildCount < MaxRebuilds
             THEN "begin" ELSE "settle"
    /\ UNCHANGED <<disk, edits, sessionVars, lastSeen, seen, buildStart,
                   buildCount, nextScope, build, published, missed, signals>>

\* The follow-up build.
TestStable ==
    /\ pc = "stable?"
    /\ pc' = IF revision # buildStart /\ buildCount < MaxRebuilds
             THEN "begin" ELSE "settle"
    /\ missed' = IF revision # buildStart /\ buildCount >= MaxRebuilds
                 THEN missed \cup {"paused"} ELSE missed
    /\ UNCHANGED <<disk, edits, sessionVars, lastSeen, seen, buildStart,
                   buildCount, nextScope, build, published, signals>>

\* last_seen_revision after the builds, with a second read of the revision;
\* then the next wait, or a session for the new scope.
Settle ==
    /\ pc = "settle"
    /\ lastSeen' = IF revision >= seen THEN revision ELSE seen
    /\ missed' = IF revision # buildStart THEN missed \cup {"settled"}
                 ELSE missed
    /\ pc' = IF nextScope \notin {NoScope, session.scope} THEN "start" ELSE "wait"
    /\ UNCHANGED <<disk, edits, sessionVars, seen, buildStart, buildCount,
                   nextScope, build, published, signals>>

RebuildLoop ==
    \/ ReadConfiguration
    \/ \E a \in Areas : ReadArea(a)
    \/ \E ok, scoped \in BOOLEAN : PublishBuild(ok, scoped)
    \/ StartSession \/ LoadLastSeen
    \/ TestRevision \/ Receive
    \/ DebounceAgain \/ DebounceTimeout
    \/ BeginBuild \/ TestStable \/ Settle

Next == UserEdits \/ Watcher \/ RebuildLoop

Spec == Init /\ [][Next]_vars

\* Both threads are scheduled; the user need not do anything.
Fairness == WF_vars(RebuildLoop) /\ WF_vars(Watcher)

FairSpec == Spec /\ Fairness
-----------------------------------------------------------------------------
\* Stamps of some areas.
IsReading(f) == DOMAIN f \subseteq Areas /\ f \in [DOMAIN f -> Nat]

IsBuild(b) ==
    /\ b = [at |-> b.at, areas |-> b.areas, read |-> b.read]
    /\ b.at \in Nat /\ b.areas \in SUBSET Areas /\ IsReading(b.read)

\* Where an edit may go unnoticed.
Gaps == {"unwatched", "alike", "dropped", "latched", "settled", "paused",
         "swapped"}

TypeOK ==
    /\ disk \in [configured : SUBSET Areas, stamp : [Areas -> Nat],
                 mark : [Areas -> Nat]]
    /\ edits \in Nat
    /\ session \in [scope : SUBSET Areas, backend : Backends \cup {"none"}]
    /\ revision \in Nat /\ token \in BOOLEAN /\ events \in Nat
    /\ IsReading(known)
    /\ watcher \in {"idle", "baseline", "added"}
    /\ pc \in {"read", "compile", "start", "load", "wait", "recv", "debounce",
               "begin", "stable?", "settle"}
    /\ lastSeen \in Nat /\ seen \in Nat /\ buildStart \in Nat
    /\ buildCount \in Nat
    /\ nextScope \in SUBSET Areas
    /\ IsBuild(build)
    /\ published.version \in Nat /\ published.ok \in BOOLEAN
    /\ IsBuild(published.build)
    /\ missed \subseteq Gaps
    /\ signals \in Nat

\* A lost wake-up is impossible: whenever the loop sleeps in recv although the
\* revision moved on, the channel holds a token or signal_change is about to
\* send one, however its two steps and the loop's two reads interleave.
NoLostWakeup ==
    pc = "recv" /\ revision > lastSeen => token \/ watcher = "added"

\* A build that mixes states of the sources is legal while it runs, but what it
\* read is what a build would read now.
Fresh ==
    /\ published.build.areas = disk.configured
    /\ \A a \in DOMAIN published.build.read :
          published.build.read[a] = disk.stamp[a]

\* Nothing left to do until the next edit.
Idle ==
    /\ pc = "recv" /\ ~token /\ events = 0 /\ watcher = "idle"
    /\ session.backend = "polling" => known = Fingerprints(session.scope)

\* The loop rests on stale or torn output only when an edit fell into one of
\* the gaps of the protocol: before the session recorded edits or outside its
\* scope (unwatched), with a length and time the poller knows already (alike),
\* in an event the notify callback ignores (dropped), before or at a read of
\* last_seen_revision (latched, settled), at the rebuild limit (paused), or
\* while the session was replaced (swapped).  An edit in the middle of a build
\* is none of them.
StaleOnlyThroughKnownGaps == Idle /\ missed = {} => Fresh

\* Coalescing never multiplies work: there is at most one rebuild per signalled
\* revision, so editor bursts and debounced tokens cause no rebuild storm.
RebuildsBoundedBySignals == published.version <= signals + 1

\* An edit the waiting loop can see is built: with no further condition on what
\* happens meanwhile, a published build began to read at or after it.
SignalledEditIsBuilt ==
    \A n \in 1 .. MaxEdits :
        (pc = "wait" /\ revision > lastSeen /\ edits = n)
            ~> published.build.at >= n

\* An author can fix a failed rebuild: the session watches every area the
\* failed build had read, where the reported error may be.
FailedBuildIsWatched ==
    pc = "recv" /\ published.version > 1 /\ ~published.ok =>
        DOMAIN published.build.read \subseteq session.scope
=============================================================================
