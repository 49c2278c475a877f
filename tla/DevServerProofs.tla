--------------------------- MODULE DevServerProofs ---------------------------
(***************************************************************************)
(* Proofs about WatchLoop and about DevServer, which composes it with      *)
(* ReloadStream.  For any areas, edits and rebuild limit no wake-up is     *)
(* lost, rebuilds are bounded by signals, and stale output is explained by *)
(* one of the named gaps; and for any number of tabs, streams and builds   *)
(* the composed server implements LiveReload.                              *)
(***************************************************************************)
EXTENDS DevServer, TLAPS

\* Sessions count from zero, and only a notify session queues events.
SessionIsSound ==
    /\ session.scope = {} \/ session.backend # "none"
    /\ session.backend = "none" <=> session = NoSession
    /\ session = NoSession =>
          revision = 0 /\ events = 0 /\ lastSeen = 0 /\ watcher = "idle"
    /\ session = NoSession => pc \in {"read", "compile", "start"}
    /\ session.backend = "polling" => events = 0
    /\ watcher = "baseline" => session.backend = "polling" /\ revision = 0
    /\ Entry \in disk.configured

\* A build reads what belongs to it.
ReadsAreInAreas ==
    /\ DOMAIN build.read \subseteq build.areas
    /\ DOMAIN published.build.read \subseteq published.build.areas

\* Each build, the running one included, spends a signal: those of earlier
\* sessions, and those up to the revision that the loop has taken note of.
BuildsSpendSignals ==
    LET Spent(noted) == noted <= revision /\ published.version <= signals - revision + noted
        Owed(noted)  == noted <= revision /\ published.version <= signals - revision + noted + 1
    IN  /\ revision <= signals
        /\ pc \in {"wait", "recv"} => Owed(lastSeen)
        /\ pc = "debounce" => lastSeen < revision /\ Owed(lastSeen)
        /\ pc = "begin" => published.version <= signals /\ seen <= revision
        /\ pc \in {"read", "compile"} => Spent(buildStart) /\ seen <= revision
        /\ pc \in {"stable?", "settle"} => Owed(buildStart) /\ seen <= revision
        /\ pc = "start" => Owed(revision) /\ lastSeen <= revision
        /\ pc = "load" => Owed(0)

\* What the build b has read is what the project is now.
Consistent(b) ==
    /\ b.areas = disk.configured
    /\ \A a \in DOMAIN b.read : b.read[a] = disk.stamp[a]

\* An edit that the watcher has yet to turn into a revision.
Undelivered ==
    \/ events > 0
    \/ /\ session.backend = "polling" /\ watcher # "baseline"
       /\ Fingerprints(session.scope) # known

Signalled(noted) == revision > noted \/ Undelivered

\* As long as no edit fell into a gap, the last build is that of the project as
\* it is, or the loop is going to hear of an edit.
StaleIsSignalled ==
    missed = {} =>
        /\ pc = "compile" => Consistent(build) \/ Signalled(buildStart)
        /\ pc \in {"stable?", "settle"} =>
              Consistent(published.build) \/ Signalled(buildStart)
        /\ pc \in {"start", "wait", "recv", "debounce"} =>
              Consistent(published.build) \/ Signalled(lastSeen)
        /\ pc = "load" => Consistent(published.build) \/ Signalled(0)

WatchInv ==
    /\ TypeOK /\ SessionIsSound /\ ReadsAreInAreas
    /\ NoLostWakeup /\ BuildsSpendSignals /\ StaleIsSignalled

-----------------------------------------------------------------------------
\* A build that has read nothing, a poller that knows nothing.
LEMMA NothingIsReading == IsReading(<< >>)
<1>1. DOMAIN << >> = {}
    OBVIOUS
<1>2. << >> \in [{} -> Nat]
    OBVIOUS
<1> QED  BY <1>1, <1>2 DEF IsReading

LEMMA InitSound == Init => WatchInv
<1> SUFFICES ASSUME Init PROVE WatchInv
    OBVIOUS
<1> USE DEF Init
<1>1. TypeOK
    BY WatchAssumption, NothingIsReading DEF TypeOK, NoSession, NoScope, IsBuild
<1>2. SessionIsSound /\ NoLostWakeup
    BY WatchAssumption DEF SessionIsSound, NoLostWakeup, NoSession, NoScope
<1>3. ReadsAreInAreas
    BY WatchAssumption DEF ReadsAreInAreas, NoSession
<1>4. BuildsSpendSignals /\ StaleIsSignalled
    BY DEF BuildsSpendSignals, StaleIsSignalled
<1> QED  BY <1>1, <1>2, <1>3, <1>4 DEF WatchInv

\* What the watcher has yet to deliver stays undelivered when a source changes:
\* a scan differs from what the poller knows unless the area looks known.
LEMMA EditIsUndelivered ==
    ASSUME WatchInv, NEW a \in Areas, NEW extra \in SUBSET Areas,
           NEW mark \in Nat, Edit(a, {Entry} \cup extra, mark),
           Undelivered \/ Watched(a), ~(Watched(a) /\ LooksKnown(a, mark))
    PROVE  Undelivered'
<1> USE DEF WatchInv, Edit, loopVars
<1>1. CASE events > 0 \/ (Watched(a) /\ session.backend = "notify")
    BY <1>1 DEF TypeOK, Undelivered, Watched
<1>2. CASE Watched(a) /\ session.backend # "notify"
    <2>1. session.backend = "polling" /\ watcher # "baseline" /\ a \in session.scope
        BY <1>2, WatchAssumption DEF TypeOK, SessionIsSound, Watched
    <2>2. a \notin DOMAIN known \/ known[a] # mark
        BY <1>2, <2>1 DEF LooksKnown
    <2>3. /\ a \in DOMAIN Fingerprints(session.scope)'
          /\ Fingerprints(session.scope)'[a] = mark
        BY <2>1 DEF TypeOK, Fingerprints
    <2> QED  BY <2>1, <2>2, <2>3 DEF TypeOK, Undelivered
<1>3. CASE /\ session.backend = "polling" /\ watcher # "baseline"
           /\ Fingerprints(session.scope) # known
           /\ ~Watched(a)
    <2>1. a \notin session.scope
        BY <1>3 DEF Watched
    <2>2. Fingerprints(session.scope)' = Fingerprints(session.scope)
        BY <2>1 DEF TypeOK, Fingerprints
    <2> QED  BY <1>3, <2>2 DEF Undelivered
<1> QED  BY <1>1, <1>2, <1>3 DEF Undelivered

\* An edit the session will not report leaves a gap, unless the area is none of
\* the project's, which no build reads.
LEMMA EditKeeps ==
    ASSUME WatchInv, NEW a \in Areas, NEW extra \in SUBSET Areas,
           NEW mark \in Nat, Edit(a, {Entry} \cup extra, mark)
    PROVE  WatchInv'
<1> USE DEF WatchInv, Edit, loopVars
<1>1. TypeOK'
    BY WatchAssumption DEF TypeOK, Gaps
<1>2. SessionIsSound' /\ NoLostWakeup'
    BY DEF TypeOK, SessionIsSound, NoLostWakeup, NoSession, NoScope
<1>3. ReadsAreInAreas'
    BY DEF TypeOK, IsReading, ReadsAreInAreas
<1>4. BuildsSpendSignals'
    BY DEF BuildsSpendSignals
<1>5. StaleIsSignalled'
    <2>0. CASE Watched(a) /\ LooksKnown(a, mark)
        BY <2>0 DEF StaleIsSignalled
    <2>1. CASE (Undelivered \/ Watched(a)) /\ ~(Watched(a) /\ LooksKnown(a, mark))
        BY <2>1, EditIsUndelivered DEF StaleIsSignalled, Signalled
    <2>2. CASE ~Undelivered /\ ~Watched(a) /\ a \in {Entry} \cup extra
        BY <2>2 DEF StaleIsSignalled
    <2>3. CASE ~Undelivered /\ ~Watched(a) /\ a \notin {Entry} \cup extra
        <3>1. disk'.configured = disk.configured /\ a \notin disk.configured
            BY <2>3 DEF TypeOK
        <3>2. \A x \in Areas \ {a} : disk'.stamp[x] = disk.stamp[x]
            BY DEF TypeOK
        <3>3. Consistent(build) => Consistent(build)'
            BY <3>1, <3>2 DEF TypeOK, IsBuild, IsReading, ReadsAreInAreas, Consistent
        <3>4. Consistent(published.build) => Consistent(published.build)'
            BY <3>1, <3>2 DEF TypeOK, IsBuild, IsReading, ReadsAreInAreas, Consistent
        <3>5. \A n \in Nat : Signalled(n) => revision' > n
            BY <2>3 DEF Signalled
        <3> QED
            BY <2>3, <3>3, <3>4, <3>5 DEF TypeOK, StaleIsSignalled, Signalled
    <2> QED  BY <2>0, <2>1, <2>2, <2>3
<1> QED  BY <1>1, <1>2, <1>3, <1>4, <1>5

\* The notify callback: events turn into a revision nobody has noted yet.
LEMMA NotifyCallbackKeeps ==
    ASSUME WatchInv, NotifyCallback
    PROVE  WatchInv'
<1> USE DEF WatchInv, NotifyCallback, BumpRevision, loopVars, sessionVars
<1>1. TypeOK'
    BY DEF TypeOK, IsReading
<1>2. SessionIsSound' /\ NoLostWakeup'
    BY DEF TypeOK, SessionIsSound, NoLostWakeup, NoSession
<1>3. ReadsAreInAreas'
    BY DEF TypeOK, IsReading, IsBuild, ReadsAreInAreas
<1>4. BuildsSpendSignals'
    BY DEF TypeOK, SessionIsSound, BuildsSpendSignals, Active
<1>5. StaleIsSignalled'
    BY DEF TypeOK, IsBuild, SessionIsSound, BuildsSpendSignals, StaleIsSignalled,
       Signalled, Undelivered, Consistent, Fingerprints, Active
<1> QED  BY <1>1, <1>2, <1>3, <1>4, <1>5

\* Events that the callback ignores leave a gap.
LEMMA IgnoreEventsKeeps ==
    ASSUME WatchInv, IgnoreEvents
    PROVE  WatchInv'
<1> USE DEF WatchInv, IgnoreEvents, loopVars, sessionVars
<1>1. TypeOK'
    BY DEF TypeOK, IsReading, Gaps
<1>2. SessionIsSound' /\ NoLostWakeup'
    BY DEF TypeOK, SessionIsSound, NoLostWakeup, NoSession
<1>3. ReadsAreInAreas'
    BY DEF TypeOK, IsReading, IsBuild, ReadsAreInAreas
<1>4. BuildsSpendSignals'
    BY DEF TypeOK, SessionIsSound, BuildsSpendSignals, Active
<1>5. StaleIsSignalled'
    BY DEF StaleIsSignalled
<1> QED  BY <1>1, <1>2, <1>3, <1>4, <1>5

\* The poller's first scan: before it nothing was signalled, so nothing is hidden.
LEMMA PollBaselineKeeps ==
    ASSUME WatchInv, PollBaseline
    PROVE  WatchInv'
<1> USE DEF WatchInv, PollBaseline, loopVars, sessionVars
<1>1. TypeOK'
    BY DEF TypeOK, IsReading, Fingerprints
<1>2. SessionIsSound' /\ NoLostWakeup'
    BY DEF TypeOK, SessionIsSound, NoLostWakeup, NoSession
<1>3. ReadsAreInAreas'
    BY DEF TypeOK, IsReading, IsBuild, ReadsAreInAreas, Fingerprints
<1>4. BuildsSpendSignals'
    BY DEF TypeOK, SessionIsSound, BuildsSpendSignals, Active
<1>5. StaleIsSignalled'
    BY DEF TypeOK, IsBuild, SessionIsSound, BuildsSpendSignals, StaleIsSignalled,
       Signalled, Undelivered, Consistent, Fingerprints, Active
<1> QED  BY <1>1, <1>2, <1>3, <1>4, <1>5

\* A scan turns what it found into a revision nobody has noted yet.
LEMMA PollScanKeeps ==
    ASSUME WatchInv, PollScan
    PROVE  WatchInv'
<1> USE DEF WatchInv, PollScan, BumpRevision, loopVars, sessionVars
<1>1. TypeOK'
    BY DEF TypeOK, IsReading, Fingerprints
<1>2. SessionIsSound' /\ NoLostWakeup'
    BY DEF TypeOK, SessionIsSound, NoLostWakeup, NoSession
<1>3. ReadsAreInAreas'
    BY DEF TypeOK, IsReading, IsBuild, ReadsAreInAreas, Fingerprints
<1>4. BuildsSpendSignals'
    BY DEF TypeOK, SessionIsSound, BuildsSpendSignals, Active
<1>5. StaleIsSignalled'
    BY DEF TypeOK, IsBuild, SessionIsSound, BuildsSpendSignals, StaleIsSignalled,
       Signalled, Undelivered, Consistent, Fingerprints, Active
<1> QED  BY <1>1, <1>2, <1>3, <1>4, <1>5

\* The wake-up itself.
LEMMA SendTokenKeeps ==
    ASSUME WatchInv, SendToken
    PROVE  WatchInv'
<1> USE DEF WatchInv, SendToken, loopVars, sessionVars
<1>1. TypeOK'
    BY DEF TypeOK, IsReading
<1>2. SessionIsSound' /\ NoLostWakeup'
    BY DEF TypeOK, SessionIsSound, NoLostWakeup, NoSession
<1>3. ReadsAreInAreas'
    BY DEF TypeOK, IsReading, IsBuild, ReadsAreInAreas
<1>4. BuildsSpendSignals'
    BY DEF TypeOK, SessionIsSound, BuildsSpendSignals, Active
<1>5. StaleIsSignalled'
    BY DEF TypeOK, IsBuild, SessionIsSound, BuildsSpendSignals, StaleIsSignalled,
       Signalled, Undelivered, Consistent, Fingerprints, Active
<1> QED  BY <1>1, <1>2, <1>3, <1>4, <1>5

\* A build starts from the configuration as it is.
LEMMA ReadConfigurationKeeps ==
    ASSUME WatchInv, ReadConfiguration
    PROVE  WatchInv'
<1> USE DEF WatchInv, ReadConfiguration, loopVars, sessionVars
<1>1. TypeOK'
    BY NothingIsReading DEF TypeOK, IsBuild
<1>2. SessionIsSound' /\ NoLostWakeup'
    BY DEF TypeOK, SessionIsSound, NoLostWakeup, NoSession
<1>3. ReadsAreInAreas'
    BY DEF TypeOK, IsReading, IsBuild, ReadsAreInAreas
<1>4. BuildsSpendSignals'
    BY DEF TypeOK, SessionIsSound, BuildsSpendSignals, Active
<1>5. StaleIsSignalled'
    BY DEF TypeOK, IsBuild, SessionIsSound, BuildsSpendSignals, StaleIsSignalled,
       Signalled, Undelivered, Consistent, Fingerprints, Active
<1> QED  BY <1>1, <1>2, <1>3, <1>4, <1>5

\* A build reads an area as it is.
LEMMA ReadAreaKeeps ==
    ASSUME WatchInv, NEW a \in Areas, ReadArea(a)
    PROVE  WatchInv'
<1> USE DEF WatchInv, ReadArea, loopVars, sessionVars
<1>1. TypeOK'
    BY DEF TypeOK, IsReading, IsBuild
<1>2. SessionIsSound' /\ NoLostWakeup'
    BY DEF TypeOK, SessionIsSound, NoLostWakeup, NoSession
<1>3. ReadsAreInAreas'
    BY DEF TypeOK, IsReading, IsBuild, ReadsAreInAreas
<1>4. BuildsSpendSignals'
    BY DEF TypeOK, SessionIsSound, BuildsSpendSignals, Active
<1>5. StaleIsSignalled'
    BY DEF TypeOK, IsBuild, SessionIsSound, BuildsSpendSignals, StaleIsSignalled,
       Signalled, Undelivered, Consistent, Fingerprints, Active
<1> QED  BY <1>1, <1>2, <1>3, <1>4, <1>5

\* A published build is the one that ran.
LEMMA PublishBuildKeeps ==
    ASSUME WatchInv, NEW ok \in BOOLEAN, NEW scoped \in BOOLEAN,
           PublishBuild(ok, scoped)
    PROVE  WatchInv'
<1> USE DEF WatchInv, PublishBuild, loopVars, sessionVars
<1>1. TypeOK'
    BY WatchAssumption DEF TypeOK, IsReading, IsBuild, Active, NoScope
<1>2. SessionIsSound' /\ NoLostWakeup'
    BY DEF TypeOK, SessionIsSound, NoLostWakeup, NoSession, NoScope, Active
<1>3. ReadsAreInAreas'
    BY DEF TypeOK, IsReading, IsBuild, ReadsAreInAreas
<1>4. BuildsSpendSignals'
    BY DEF TypeOK, SessionIsSound, BuildsSpendSignals, Active
<1>5. StaleIsSignalled'
    BY DEF TypeOK, IsBuild, SessionIsSound, BuildsSpendSignals, StaleIsSignalled,
       Signalled, Undelivered, Consistent, Fingerprints, Active
<1> QED  BY <1>1, <1>2, <1>3, <1>4, <1>5

\* A new session starts only after the old one was heard, or the gap is noted.
LEMMA StartSessionKeeps ==
    ASSUME WatchInv, StartSession
    PROVE  WatchInv'
<1> USE DEF WatchInv, StartSession, UnseenBySession, loopVars, sessionVars
<1>1. TypeOK'
    <2>1. session' \in [scope : SUBSET Areas, backend : Backends \cup {"none"}]
        BY DEF TypeOK
    <2>2. IsReading(known)'
        BY NothingIsReading
    <2>3. watcher' \in {"idle", "baseline", "added"}
        BY DEF TypeOK
    <2>4. missed' \subseteq Gaps
        BY DEF TypeOK, Gaps
    <2> HIDE DEF StartSession
    <2> QED
        BY <2>1, <2>2, <2>3, <2>4 DEF TypeOK, StartSession
<1>2. SessionIsSound' /\ NoLostWakeup'
    BY WatchAssumption DEF TypeOK, SessionIsSound, NoLostWakeup, NoSession, NoScope, Active
<1>3. ReadsAreInAreas'
    BY DEF TypeOK, IsReading, IsBuild, ReadsAreInAreas
<1>4. BuildsSpendSignals'
    BY DEF TypeOK, SessionIsSound, BuildsSpendSignals, Active
<1>5. StaleIsSignalled'
    BY DEF TypeOK, IsBuild, SessionIsSound, BuildsSpendSignals, StaleIsSignalled,
       Signalled, Undelivered, Consistent, Fingerprints, Active
<1> QED  BY <1>1, <1>2, <1>3, <1>4, <1>5

\* The first read of the revision.
LEMMA LoadLastSeenKeeps ==
    ASSUME WatchInv, LoadLastSeen
    PROVE  WatchInv'
<1> USE DEF WatchInv, LoadLastSeen, loopVars, sessionVars
<1>1. TypeOK'
    BY DEF TypeOK, IsReading, Gaps
<1>2. SessionIsSound' /\ NoLostWakeup'
    BY DEF TypeOK, SessionIsSound, NoLostWakeup, NoSession
<1>3. ReadsAreInAreas'
    BY DEF TypeOK, IsReading, IsBuild, ReadsAreInAreas
<1>4. BuildsSpendSignals'
    BY DEF TypeOK, SessionIsSound, BuildsSpendSignals, Active
<1>5. StaleIsSignalled'
    BY DEF TypeOK, IsBuild, SessionIsSound, BuildsSpendSignals, StaleIsSignalled,
       Signalled, Undelivered, Consistent, Fingerprints, Active
<1> QED  BY <1>1, <1>2, <1>3, <1>4, <1>5

\* The loop sleeps only when it has noted the revision.
LEMMA TestRevisionKeeps ==
    ASSUME WatchInv, TestRevision
    PROVE  WatchInv'
<1> USE DEF WatchInv, TestRevision, loopVars, sessionVars
<1>1. TypeOK'
    BY DEF TypeOK, IsReading
<1>2. SessionIsSound' /\ NoLostWakeup'
    BY DEF TypeOK, SessionIsSound, NoLostWakeup, NoSession
<1>3. ReadsAreInAreas'
    BY DEF TypeOK, IsReading, IsBuild, ReadsAreInAreas
<1>4. BuildsSpendSignals'
    BY DEF TypeOK, SessionIsSound, BuildsSpendSignals, Active
<1>5. StaleIsSignalled'
    BY DEF TypeOK, IsBuild, SessionIsSound, BuildsSpendSignals, StaleIsSignalled,
       Signalled, Undelivered, Consistent, Fingerprints, Active
<1> QED  BY <1>1, <1>2, <1>3, <1>4, <1>5

\* A received wake-up leads back to the test.
LEMMA ReceiveKeeps ==
    ASSUME WatchInv, Receive
    PROVE  WatchInv'
<1> USE DEF WatchInv, Receive, loopVars, sessionVars
<1>1. TypeOK'
    BY DEF TypeOK, IsReading
<1>2. SessionIsSound' /\ NoLostWakeup'
    BY DEF TypeOK, SessionIsSound, NoLostWakeup, NoSession
<1>3. ReadsAreInAreas'
    BY DEF TypeOK, IsReading, IsBuild, ReadsAreInAreas
<1>4. BuildsSpendSignals'
    BY DEF TypeOK, SessionIsSound, BuildsSpendSignals, Active
<1>5. StaleIsSignalled'
    BY DEF TypeOK, IsBuild, SessionIsSound, BuildsSpendSignals, StaleIsSignalled,
       Signalled, Undelivered, Consistent, Fingerprints, Active
<1> QED  BY <1>1, <1>2, <1>3, <1>4, <1>5

\* Another wake-up within the debounce window changes only the channel.
LEMMA DebounceAgainKeeps ==
    ASSUME WatchInv, DebounceAgain
    PROVE  WatchInv'
<1> USE DEF WatchInv, DebounceAgain, loopVars, sessionVars
<1>1. TypeOK'
    BY DEF TypeOK, IsReading
<1>2. SessionIsSound' /\ NoLostWakeup'
    BY DEF TypeOK, SessionIsSound, NoLostWakeup, NoSession
<1>3. ReadsAreInAreas'
    BY DEF TypeOK, IsReading, IsBuild, ReadsAreInAreas
<1>4. BuildsSpendSignals'
    BY DEF TypeOK, SessionIsSound, BuildsSpendSignals, Active
<1>5. StaleIsSignalled'
    BY DEF TypeOK, IsBuild, SessionIsSound, BuildsSpendSignals, StaleIsSignalled,
       Signalled, Undelivered, Consistent, Fingerprints, Active
<1> QED  BY <1>1, <1>2, <1>3, <1>4, <1>5

\* A build begins: the signal it spends is one that no build has spent.
LEMMA DebounceTimeoutKeeps ==
    ASSUME WatchInv, DebounceTimeout
    PROVE  WatchInv'
<1> USE DEF WatchInv, DebounceTimeout, loopVars, sessionVars
<1>1. TypeOK'
    BY DEF TypeOK, IsReading
<1>2. SessionIsSound' /\ NoLostWakeup'
    BY DEF TypeOK, SessionIsSound, NoLostWakeup, NoSession
<1>3. ReadsAreInAreas'
    BY DEF TypeOK, IsReading, IsBuild, ReadsAreInAreas
<1>4. BuildsSpendSignals'
    BY DEF TypeOK, SessionIsSound, BuildsSpendSignals, Active
<1>5. StaleIsSignalled'
    BY DEF TypeOK, IsBuild, SessionIsSound, BuildsSpendSignals, StaleIsSignalled,
       Signalled, Undelivered, Consistent, Fingerprints, Active
<1> QED  BY <1>1, <1>2, <1>3, <1>4, <1>5

\* The revision is noted before anything is read.
LEMMA BeginBuildKeeps ==
    ASSUME WatchInv, BeginBuild
    PROVE  WatchInv'
<1> USE DEF WatchInv, BeginBuild, loopVars, sessionVars
<1>1. TypeOK'
    BY DEF TypeOK, IsReading
<1>2. SessionIsSound' /\ NoLostWakeup'
    BY DEF TypeOK, SessionIsSound, NoLostWakeup, NoSession
<1>3. ReadsAreInAreas'
    BY DEF TypeOK, IsReading, IsBuild, ReadsAreInAreas
<1>4. BuildsSpendSignals'
    BY DEF TypeOK, SessionIsSound, BuildsSpendSignals, Active
<1>5. StaleIsSignalled'
    BY DEF TypeOK, IsBuild, SessionIsSound, BuildsSpendSignals, StaleIsSignalled,
       Signalled, Undelivered, Consistent, Fingerprints, Active
<1> QED  BY <1>1, <1>2, <1>3, <1>4, <1>5

\* A follow-up build spends a signal that came during the last one.
LEMMA TestStableKeeps ==
    ASSUME WatchInv, TestStable
    PROVE  WatchInv'
<1> USE DEF WatchInv, TestStable, loopVars, sessionVars
<1>1. TypeOK'
    BY DEF TypeOK, IsReading, Gaps
<1>2. SessionIsSound' /\ NoLostWakeup'
    BY DEF TypeOK, SessionIsSound, NoLostWakeup, NoSession
<1>3. ReadsAreInAreas'
    BY DEF TypeOK, IsReading, IsBuild, ReadsAreInAreas
<1>4. BuildsSpendSignals'
    BY DEF TypeOK, SessionIsSound, BuildsSpendSignals, Active
<1>5. StaleIsSignalled'
    BY DEF TypeOK, IsBuild, SessionIsSound, BuildsSpendSignals, StaleIsSignalled,
       Signalled, Undelivered, Consistent, Fingerprints, Active
<1> QED  BY <1>1, <1>2, <1>3, <1>4, <1>5

\* The revision is noted for good, unless the gap of its second read is.
LEMMA SettleKeeps ==
    ASSUME WatchInv, Settle
    PROVE  WatchInv'
<1> USE DEF WatchInv, Settle, loopVars, sessionVars
<1>1. TypeOK'
    BY DEF TypeOK, IsReading, Gaps
<1>2. SessionIsSound' /\ NoLostWakeup'
    BY DEF TypeOK, SessionIsSound, NoLostWakeup, NoSession
<1>3. ReadsAreInAreas'
    BY DEF TypeOK, IsReading, IsBuild, ReadsAreInAreas
<1>4. BuildsSpendSignals'
    BY DEF TypeOK, SessionIsSound, BuildsSpendSignals, Active
<1>5. StaleIsSignalled'
    BY DEF TypeOK, IsBuild, SessionIsSound, BuildsSpendSignals, StaleIsSignalled,
       Signalled, Undelivered, Consistent, Fingerprints, Active
<1> QED  BY <1>1, <1>2, <1>3, <1>4, <1>5

-----------------------------------------------------------------------------
\* The invariant is inductive.
THEOREM WatchInvariant == Spec => []WatchInv
<1>1. ASSUME WatchInv, [Next]_vars PROVE WatchInv'
    <2>1. CASE UserEdits
        BY <1>1, <2>1, EditKeeps, WatchAssumption DEF UserEdits
    <2>2. CASE Watcher
        BY <1>1, <2>2, NotifyCallbackKeeps, IgnoreEventsKeeps,
           PollBaselineKeeps, PollScanKeeps, SendTokenKeeps DEF Watcher
    <2>3. CASE RebuildLoop
        BY <1>1, <2>3, ReadConfigurationKeeps, ReadAreaKeeps, PublishBuildKeeps,
           StartSessionKeeps, LoadLastSeenKeeps, TestRevisionKeeps, ReceiveKeeps,
           DebounceAgainKeeps, DebounceTimeoutKeeps, BeginBuildKeeps,
           TestStableKeeps, SettleKeeps DEF RebuildLoop
    <2>4. CASE UNCHANGED vars
        <3> USE <1>1, <2>4 DEF WatchInv, vars, sessionVars, loopVars
        <3>1. TypeOK' /\ SessionIsSound' /\ ReadsAreInAreas'
            BY DEF TypeOK, SessionIsSound, ReadsAreInAreas
        <3>2. NoLostWakeup' /\ BuildsSpendSignals'
            BY DEF NoLostWakeup, BuildsSpendSignals
        <3>3. StaleIsSignalled'
            BY DEF StaleIsSignalled, Signalled, Undelivered, Consistent, Fingerprints
        <3> QED  BY <3>1, <3>2, <3>3
    <2> QED  BY <1>1, <2>1, <2>2, <2>3, <2>4 DEF Next
<1> QED  BY InitSound, <1>1, PTL DEF Spec

\* A lost wake-up is impossible: when the rebuild loop sleeps in recv although
\* the revision moved on, a token is in the channel or about to be sent.
THEOREM NoLostWakeupHolds == Spec => []NoLostWakeup
<1>1. WatchInv => NoLostWakeup
    BY DEF WatchInv
<1> QED  BY <1>1, WatchInvariant, PTL

\* The loop publishes at most one build per signalled revision and one at
\* start-up, over any number of sessions.
THEOREM RebuildsBoundedBySignalsHolds == Spec => []RebuildsBoundedBySignals
<1>1. WatchInv => RebuildsBoundedBySignals
    BY DEF WatchInv, TypeOK, BuildsSpendSignals, RebuildsBoundedBySignals
<1> QED  BY <1>1, WatchInvariant, PTL

\* At rest, and with no edit in one of the named gaps, the published build is
\* the build of the sources as they are.
THEOREM StaleOnlyThroughKnownGapsHolds == Spec => []StaleOnlyThroughKnownGaps
<1>1. WatchInv => StaleOnlyThroughKnownGaps
    <2> SUFFICES ASSUME WatchInv, Idle, missed = {} PROVE Fresh
        BY DEF StaleOnlyThroughKnownGaps
    <2> USE DEF WatchInv, Idle
    <2>1. revision <= lastSeen
        BY DEF TypeOK, NoLostWakeup
    <2>2. ~Signalled(lastSeen)
        BY <2>1 DEF TypeOK, Signalled, Undelivered
    <2> QED  BY <2>2 DEF StaleIsSignalled, Consistent, Fresh
<1> QED  BY <1>1, WatchInvariant, PTL

-----------------------------------------------------------------------------
TabRecord ==
    [phase : {"blank", "requested", "served", "shown", "broken", "gone"},
     snapshot : [version : Nat, ok : BOOLEAN, stamp : Nat],
     shown : Nat, partial : BOOLEAN, asked : Nat,
     stream : Reloading!Streams \cup {Reloading!NoStream}]

\* What a browser and the reload registry hold, as far as the promise needs it.
ReloadTypes ==
    /\ builder \in {"idle", "writing", "written", "broadcast"}
    /\ output \in Nat
    /\ buildState \in [version : Nat, ok : BOOLEAN, stamp : Nat]
    /\ tab \in [Tabs -> TabRecord]

\* The builder of the stream is inside run_single_build_cycle of the loop.
BuilderFollowsLoop ==
    /\ builder \in {"writing", "written"} => pc = "compile" /\ output = build.at
    /\ builder = "broadcast" => pc \in {"stable?", "start"}

\* Builds follow the edits, and what is published and written are such builds.
BuildsFollowEdits ==
    /\ published.build.at <= build.at
    /\ build.at <= edits
    /\ buildState.stamp = published.build.at
    /\ output <= edits
    /\ buildState.ok => buildState.stamp <= output

\* A page under way was asked for before its snapshot was taken.
PagesFollowRequests ==
    \A t \in Tabs :
        /\ tab[t].asked <= buildState.stamp
        /\ tab[t].phase = "served" =>
              /\ tab[t].asked <= tab[t].snapshot.stamp
              /\ tab[t].snapshot.stamp <= buildState.stamp
              /\ tab[t].snapshot.ok => tab[t].snapshot.stamp <= output

PromiseInv ==
    /\ ReloadTypes /\ BuilderFollowsLoop /\ BuildsFollowEdits /\ PagesFollowRequests

-----------------------------------------------------------------------------
\* Every step of the server is one of the watch loop or leaves it alone.
LEMMA DevStepsAreWatchSteps == [DevNext]_devVars => [Next]_vars
<1> SUFFICES ASSUME [DevNext]_devVars PROVE [Next]_vars
    OBVIOUS
<1>1. CASE WatchSteps
    BY <1>1 DEF WatchSteps, Next, RebuildLoop
<1>2. CASE PublishStep
    BY <1>2 DEF PublishStep, Next, RebuildLoop
<1>3. CASE WriteStep \/ ReloadSteps \/ UNCHANGED devVars
    BY <1>3 DEF WriteStep, ReloadSteps, devVars
<1> QED  BY <1>1, <1>2, <1>3 DEF DevNext

\* The composed server implements its watch loop, and so keeps its invariant
\* and everything the theorems above conclude from it.
THEOREM DevServerImplementsWatchLoop == DevSpec => Spec /\ []WatchInv
<1>1. DevInit => Init
    BY DEF DevInit
<1>2. DevSpec => Spec
    BY <1>1, DevStepsAreWatchSteps, PTL DEF DevSpec, Spec
<1> QED  BY <1>2, WatchInvariant, PTL

\* The invariant of the promise holds at the start, and every step keeps it.
LEMMA PromiseInit == DevInit => PromiseInv
<1> SUFFICES ASSUME DevInit PROVE PromiseInv
    OBVIOUS
<1> USE DEF DevInit, Init, Reloading!Init
<1>1. ReloadTypes
    BY DEF ReloadTypes, TabRecord
<1>2. BuilderFollowsLoop /\ BuildsFollowEdits
    BY DEF BuilderFollowsLoop, BuildsFollowEdits
<1>3. PagesFollowRequests
    BY DEF PagesFollowRequests
<1> QED  BY <1>1, <1>2, <1>3 DEF PromiseInv

\* Steps of the loop between two builds.
LEMMA WatchStepsKeep ==
    ASSUME WatchInv, PromiseInv, WatchSteps
    PROVE  /\ PromiseInv'
           /\ UNCHANGED reloadVars /\ published' = published
           /\ edits' = edits \/ edits' = edits + 1
<1> USE DEF PromiseInv, WatchInv, TypeOK, loopVars, sessionVars
<1>0. UNCHANGED reloadVars
    BY DEF WatchSteps
<1>1. ReloadTypes'
    BY <1>0 DEF reloadVars, ReloadTypes
<1>2. PagesFollowRequests'
    BY <1>0 DEF reloadVars, PagesFollowRequests
<1>3. CASE UserEdits
    <2>1. /\ edits' = edits + 1
          /\ UNCHANGED <<pc, build, published>>
        BY <1>3 DEF UserEdits, Edit
    <2>2. BuilderFollowsLoop' /\ BuildsFollowEdits'
        BY <1>0, <2>1 DEF reloadVars, BuilderFollowsLoop, BuildsFollowEdits, ReloadTypes, IsBuild
    <2> QED  BY <1>0, <1>1, <1>2, <2>1, <2>2
<1>4. CASE Watcher
    <2>1. UNCHANGED <<edits, pc, build, published>>
        BY <1>4 DEF Watcher, NotifyCallback, IgnoreEvents, PollBaseline, PollScan,
           SendToken
    <2>2. BuilderFollowsLoop' /\ BuildsFollowEdits'
        BY <1>0, <2>1 DEF reloadVars, BuilderFollowsLoop, BuildsFollowEdits
    <2> QED  BY <1>0, <1>1, <1>2, <2>1, <2>2
<1>5. CASE ReadConfiguration
    <2>1. /\ pc = "read" /\ pc' = "compile" /\ build'.at = edits
          /\ UNCHANGED <<edits, published>>
        BY <1>5 DEF ReadConfiguration
    <2>2. BuilderFollowsLoop' /\ BuildsFollowEdits'
        BY <1>0, <2>1 DEF reloadVars, BuilderFollowsLoop, BuildsFollowEdits, ReloadTypes, IsBuild
    <2> QED  BY <1>0, <1>1, <1>2, <2>1, <2>2
<1>6. CASE \E a \in Areas : builder = "idle" /\ ReadArea(a)
    <2>1. build'.at = build.at /\ UNCHANGED <<edits, pc, published>>
        BY <1>6 DEF ReadArea, IsBuild
    <2>2. BuilderFollowsLoop' /\ BuildsFollowEdits'
        BY <1>0, <2>1 DEF reloadVars, BuilderFollowsLoop, BuildsFollowEdits
    <2> QED  BY <1>0, <1>1, <1>2, <2>1, <2>2
<1>7. CASE builder # "broadcast"
          /\ (\/ StartSession \/ LoadLastSeen \/ TestRevision \/ Receive
              \/ DebounceAgain \/ DebounceTimeout
              \/ BeginBuild \/ TestStable \/ Settle)
    <2>1. pc # "compile" /\ UNCHANGED <<edits, build, published>>
        BY <1>7 DEF StartSession, LoadLastSeen, TestRevision, Receive, DebounceAgain,
                    DebounceTimeout, BeginBuild, TestStable, Settle
    <2>2. builder = "idle"
        BY <1>7, <2>1 DEF BuilderFollowsLoop, ReloadTypes
    <2>3. BuilderFollowsLoop' /\ BuildsFollowEdits'
        BY <1>0, <2>1, <2>2 DEF reloadVars, BuilderFollowsLoop, BuildsFollowEdits
    <2> QED  BY <1>0, <1>1, <1>2, <2>1, <2>3
<1> QED  BY <1>3, <1>4, <1>5, <1>6, <1>7 DEF WatchSteps

\* The builder begins to write its output and has written all of it.
LEMMA WriteStepKeeps ==
    ASSUME WatchInv, PromiseInv, WriteStep
    PROVE  /\ PromiseInv'
           /\ UNCHANGED <<edits, published, tab>>
<1> USE DEF PromiseInv, WatchInv, TypeOK, IsBuild
<1>1. /\ pc = "compile" /\ UNCHANGED <<pc, build, published, edits, buildState, tab>>
      /\ \/ builder' = "writing" /\ output' = build.at /\ builder = "idle"
         \/ builder = "writing" /\ builder' = "written" /\ output' = output
    BY DEF WriteStep, Reloading!WriteOutput, Reloading!FillOutput, vars, loopVars,
           Reloading!streamVars
<1>2. ReloadTypes'
    BY <1>1 DEF ReloadTypes
<1>3. BuilderFollowsLoop' /\ BuildsFollowEdits'
    BY <1>1 DEF BuilderFollowsLoop, BuildsFollowEdits, ReloadTypes
<1>4. output <= output' \/ buildState.stamp <= output'
    BY <1>1 DEF BuildsFollowEdits, ReloadTypes
<1>5. PagesFollowRequests'
    BY <1>1, <1>4 DEF PagesFollowRequests, ReloadTypes, TabRecord
<1> QED  BY <1>1, <1>2, <1>3, <1>5

\* The build is published: never one older than the last, never one of sources
\* that are not there yet.
LEMMA PublishStepKeeps ==
    ASSUME WatchInv, PromiseInv, PublishStep
    PROVE  /\ PromiseInv'
           /\ UNCHANGED <<edits, tab>>
           /\ published'.build.at \in published.build.at .. edits
<1> USE DEF PromiseInv, WatchInv, TypeOK, IsBuild
<1>1. PICK ok \in BOOLEAN, scoped \in BOOLEAN :
          /\ scoped => builder = "written"
          /\ PublishBuild(ok, scoped)
          /\ Reloading!Publish(ok, build.at)
    BY DEF PublishStep
<1>2. /\ UNCHANGED <<build, edits, output, tab>>
      /\ published'.build = build /\ pc = "compile" /\ pc' \in {"stable?", "start"}
      /\ builder' = "broadcast"
      /\ buildState' = [version |-> buildState.version + 1, ok |-> ok, stamp |-> build.at]
      /\ ok => builder = "written"
    BY <1>1 DEF PublishBuild, Reloading!Publish
<1>3. ReloadTypes'
    BY <1>2 DEF ReloadTypes
<1>4. BuilderFollowsLoop' /\ BuildsFollowEdits'
    BY <1>2 DEF BuilderFollowsLoop, BuildsFollowEdits, ReloadTypes
<1>5. buildState.stamp <= buildState'.stamp
    BY <1>2 DEF BuildsFollowEdits
<1>6. PagesFollowRequests'
    BY <1>2, <1>5 DEF PagesFollowRequests, ReloadTypes, TabRecord
<1> QED  BY <1>2, <1>3, <1>4, <1>6 DEF BuildsFollowEdits

\* What a step of the reload side may do to the tabs, seen from the promise:
\* nothing, or one tab asks, is answered, or neither begins nor ends to wait.
Waiting(phase) == phase \in {"requested", "served"}

Becomes(old, new) ==
    \/ /\ ~Waiting(old.phase) /\ new.phase = "requested"
       /\ new.asked = buildState.stamp
       /\ new.shown = old.shown
    \/ /\ old.phase = "requested" /\ new.phase = "served"
       /\ new.snapshot = buildState
       /\ new.asked = old.asked /\ new.shown = old.shown
    \/ /\ old.phase = "served" /\ new.phase \in {"shown", "broken"}
       /\ new.shown = IF old.snapshot.ok THEN output ELSE old.snapshot.stamp
       /\ new.asked = old.asked
    \/ /\ ~Waiting(old.phase) /\ ~Waiting(new.phase)
       /\ new.asked = old.asked /\ new.shown = old.shown

TabEffect(t) ==
    \E new \in TabRecord :
        tab' = [tab EXCEPT ![t] = new] /\ Becomes(tab[t], new)

\* Opening, browsing, reloading and closing have such an effect.
LEMMA TabStepEffect ==
    ASSUME ReloadTypes, NEW t \in Tabs,
           Reloading!Open(t) \/ Reloading!Browse(t) \/ Reloading!Close(t)
    PROVE  TabEffect(t) /\ UNCHANGED <<builder, output, buildState>>
<1>t. /\ tab \in [Tabs -> TabRecord] /\ tab[t] \in TabRecord
      /\ output \in Nat /\ buildState \in [version : Nat, ok : BOOLEAN, stamp : Nat]
    BY DEF ReloadTypes, TabRecord
<1> USE DEF Reloading!serverVars, Reloading!streamVars
<1>0. UNCHANGED <<builder, output, buildState>>
    BY DEF Reloading!Open, Reloading!Browse, Reloading!Close, Reloading!TakeSnapshot,
           Reloading!ServePage, Reloading!Connect, Reloading!Reload
<1>1. CASE Reloading!Open(t)
    <2> DEFINE new == [tab[t] EXCEPT !.phase = "requested", !.asked = buildState.stamp]
    <2>1. tab' = [tab EXCEPT ![t] = new] /\ tab[t].phase = "blank"
        BY <1>1 DEF Reloading!Open
    <2>2. new \in TabRecord /\ Becomes(tab[t], new)
        BY <2>1, <1>t DEF TabRecord, Becomes, Waiting
    <2> QED  BY <1>0, <2>1, <2>2 DEF TabEffect
<1>2. CASE Reloading!TakeSnapshot(t)
    <2> DEFINE new == [tab[t] EXCEPT !.phase = "served", !.snapshot = buildState]
    <2>1. tab' = [tab EXCEPT ![t] = new] /\ tab[t].phase = "requested"
        BY <1>2 DEF Reloading!TakeSnapshot
    <2>2. new \in TabRecord /\ Becomes(tab[t], new)
        BY <2>1, <1>t DEF TabRecord, Becomes, Waiting
    <2> QED  BY <1>0, <2>1, <2>2 DEF TabEffect
<1>3. CASE Reloading!ServePage(t)
    <2>1. PICK phase \in {"shown", "broken"} :
              tab' = [tab EXCEPT ![t].phase = phase,
                                 ![t].shown = IF tab[t].snapshot.ok THEN output
                                              ELSE tab[t].snapshot.stamp,
                                 ![t].partial = Reloading!ReadsPartial(t)]
        BY <1>3 DEF Reloading!ServePage
    <2> DEFINE new == [tab[t] EXCEPT !.phase = phase,
                                     !.shown = IF tab[t].snapshot.ok THEN output
                                               ELSE tab[t].snapshot.stamp,
                                     !.partial = Reloading!ReadsPartial(t)]
    <2>2. tab' = [tab EXCEPT ![t] = new] /\ tab[t].phase = "served"
        BY <1>3, <2>1 DEF Reloading!ServePage
    <2>3. Reloading!ReadsPartial(t) \in BOOLEAN
        BY DEF Reloading!ReadsPartial
    <2>4. new \in TabRecord /\ Becomes(tab[t], new)
        BY <2>2, <2>3, <1>t DEF TabRecord, Becomes, Waiting
    <2> QED  BY <1>0, <2>2, <2>4 DEF TabEffect
<1>4. CASE Reloading!Connect(t)
    <2>1. PICK c \in Reloading!Streams : tab' = [tab EXCEPT ![t].stream = c]
        BY <1>4 DEF Reloading!Connect
    <2> DEFINE new == [tab[t] EXCEPT !.stream = c]
    <2>2. tab' = [tab EXCEPT ![t] = new] /\ tab[t].phase = "shown"
        BY <1>4, <2>1 DEF Reloading!Connect
    <2>3. new \in TabRecord /\ Becomes(tab[t], new)
        BY <2>2, <1>t DEF TabRecord, Becomes, Waiting
    <2> QED  BY <1>0, <2>2, <2>3 DEF TabEffect
<1>5. CASE Reloading!Reload(t)
    <2> DEFINE new == [tab[t] EXCEPT !.phase = "requested",
                                     !.stream = Reloading!NoStream,
                                     !.asked = buildState.stamp]
    <2>1. tab' = [tab EXCEPT ![t] = new] /\ tab[t].phase = "shown"
        BY <1>5 DEF Reloading!Reload
    <2>2. new \in TabRecord /\ Becomes(tab[t], new)
        BY <2>1, <1>t DEF TabRecord, Becomes, Waiting, Reloading!NoStream
    <2> QED  BY <1>0, <2>1, <2>2 DEF TabEffect
<1>6. CASE Reloading!Close(t)
    <2> DEFINE new == [tab[t] EXCEPT !.phase = "gone", !.stream = Reloading!NoStream]
    <2>1. tab' = [tab EXCEPT ![t] = new] /\ tab[t].phase \in {"shown", "broken"}
        BY <1>6 DEF Reloading!Close
    <2>2. new \in TabRecord /\ Becomes(tab[t], new)
        BY <2>1, <1>t DEF TabRecord, Becomes, Waiting, Reloading!NoStream
    <2> QED  BY <1>0, <2>1, <2>2 DEF TabEffect
<1> QED  BY <1>1, <1>2, <1>3, <1>4, <1>5, <1>6 DEF Reloading!Browse

\* And such an effect keeps the invariant: the snapshot of a page is no older
\* than its request, and the output it reads is no older than the snapshot.
LEMMA TabKeeps ==
    ASSUME WatchInv, PromiseInv, NEW t \in Tabs, TabEffect(t),
           UNCHANGED <<vars, builder, output, buildState>>
    PROVE  PromiseInv'
<1> USE DEF PromiseInv
<1>1. PICK new \in TabRecord : tab' = [tab EXCEPT ![t] = new] /\ Becomes(tab[t], new)
    BY DEF TabEffect
<1>2. UNCHANGED <<pc, build, published, edits>>
    BY DEF vars, loopVars
<1>3. /\ tab \in [Tabs -> TabRecord] /\ output \in Nat
      /\ buildState \in [version : Nat, ok : BOOLEAN, stamp : Nat]
    BY DEF ReloadTypes, TabRecord
<1>4. ReloadTypes'
    BY <1>1, <1>3 DEF ReloadTypes, TabRecord
<1>5. BuilderFollowsLoop' /\ BuildsFollowEdits'
    BY <1>2 DEF BuilderFollowsLoop, BuildsFollowEdits
<1>6. ASSUME NEW u \in Tabs PROVE PagesFollowRequests!(u)'
    <2>1. CASE u # t
        BY <1>1, <1>3, <2>1 DEF PagesFollowRequests
    <2>2. CASE u = t
        <3>1. tab'[u] = new /\ tab[u] \in TabRecord
            BY <1>1, <1>3, <2>2
        <3>2. PagesFollowRequests!(u)
            BY DEF PagesFollowRequests
        <3> QED  BY <1>1, <1>3, <2>2, <3>1, <3>2 DEF Becomes, Waiting, TabRecord, BuildsFollowEdits
    <2> QED  BY <2>1, <2>2
<1> QED  BY <1>4, <1>5, <1>6 DEF PagesFollowRequests

\* The broadcast and the event streams touch no tab.
LEMMA StreamStepKeeps ==
    ASSUME PromiseInv,
           \/ Reloading!Broadcast
           \/ \E c \in 1 .. MaxStreams : Reloading!Handler(c),
           UNCHANGED vars
    PROVE  PromiseInv' /\ UNCHANGED tab
<1> USE DEF PromiseInv
<1>1. /\ UNCHANGED <<output, buildState, tab, pc, build, published, edits>>
      /\ builder' = builder \/ builder' = "idle"
    BY DEF Reloading!Broadcast, Reloading!Handler, Reloading!WriteHeaders, Reloading!TakeId,
           Reloading!Register, Reloading!ReceiveEvent, Reloading!WriteEvent,
           Reloading!KeepAlive, Reloading!RemoveClient, Reloading!Handle,
           Reloading!serverVars, vars, loopVars
<1>2. ReloadTypes' /\ BuilderFollowsLoop'
    BY <1>1 DEF ReloadTypes, BuilderFollowsLoop
<1>3. BuildsFollowEdits' /\ PagesFollowRequests'
    BY <1>1 DEF BuildsFollowEdits, PagesFollowRequests
<1> QED  BY <1>1, <1>2, <1>3

\* Every step of the server keeps the invariant.
LEMMA PromiseStep == WatchInv /\ PromiseInv /\ [DevNext]_devVars => PromiseInv'
<1> SUFFICES ASSUME WatchInv, PromiseInv, [DevNext]_devVars PROVE PromiseInv'
    OBVIOUS
<1>1. CASE WatchSteps
    BY <1>1, WatchStepsKeep
<1>2. CASE WriteStep
    BY <1>2, WriteStepKeeps
<1>3. CASE PublishStep
    BY <1>3, PublishStepKeeps
<1>4. CASE ReloadSteps
    <2>1. CASE \/ Reloading!Broadcast
               \/ \E c \in 1 .. MaxStreams : Reloading!Handler(c)
        BY <1>4, <2>1, StreamStepKeeps DEF ReloadSteps
    <2>2. ASSUME NEW t \in Tabs,
                 Reloading!Open(t) \/ Reloading!Browse(t) \/ Reloading!Close(t)
          PROVE  PromiseInv'
        <3>1. TabEffect(t) /\ UNCHANGED <<builder, output, buildState>>
            BY <2>2, TabStepEffect DEF PromiseInv
        <3> QED  BY <1>4, <3>1, TabKeeps DEF ReloadSteps
    <2> QED  BY <1>4, <2>1, <2>2 DEF ReloadSteps
<1>5. CASE UNCHANGED devVars
    <2>1. UNCHANGED <<pc, build, published, edits, builder, output, buildState, tab>>
        BY <1>5 DEF devVars, vars, loopVars, reloadVars
    <2> QED  BY <2>1 DEF PromiseInv, ReloadTypes, BuilderFollowsLoop, BuildsFollowEdits,
                         PagesFollowRequests
<1> QED  BY <1>1, <1>2, <1>3, <1>4, <1>5 DEF DevNext

-----------------------------------------------------------------------------
\* The refinement: every step of the server is one of the promise or leaves
\* what the promise speaks of alone.

LEMMA PromisedInit == DevInit => Promise!Init
BY DEF DevInit, Init, Reloading!Init, Promise!Init

\* A request is Ask, a page is Show, and everything else a tab does is hidden.
LEMMA PromisedTabStep ==
    ASSUME WatchInv, PromiseInv, NEW t \in Tabs, TabEffect(t),
           UNCHANGED <<edits, published, buildState>>
    PROVE  Promise!Ask(t) \/ Promise!Show(t) \/ UNCHANGED Promise!vars
<1> USE DEF PromiseInv
<1> DEFINE waiting == {u \in Tabs : tab[u].phase \in {"requested", "served"}}
           asked == [u \in Tabs |-> tab[u].asked]
           shown == [u \in Tabs |-> tab[u].shown]
<1>1. PICK new \in TabRecord : tab' = [tab EXCEPT ![t] = new] /\ Becomes(tab[t], new)
    BY DEF TabEffect
<1>2. /\ tab \in [Tabs -> TabRecord] /\ output \in Nat /\ edits \in Nat
      /\ buildState \in [version : Nat, ok : BOOLEAN, stamp : Nat]
    BY DEF ReloadTypes, TabRecord, WatchInv, TypeOK
<1>3. /\ asked' = [asked EXCEPT ![t] = new.asked]
      /\ shown' = [shown EXCEPT ![t] = new.shown]
      /\ waiting' = IF Waiting(new.phase) THEN waiting \cup {t} ELSE waiting \ {t}
      /\ t \in waiting <=> Waiting(tab[t].phase)
    BY <1>1, <1>2 DEF Waiting
<1>4. CASE ~Waiting(tab[t].phase) /\ new.phase = "requested"
           /\ new.asked = buildState.stamp /\ new.shown = tab[t].shown
    <2>1. /\ t \notin waiting /\ waiting' = waiting \cup {t}
          /\ asked' = [asked EXCEPT ![t] = published.build.at]
          /\ shown' = shown
        <3>1. t \notin waiting /\ waiting' = waiting \cup {t}
            BY <1>3, <1>4 DEF Waiting
        <3>2. new.asked = published.build.at
            BY <1>4 DEF BuildsFollowEdits
        <3>3. shown' = [shown EXCEPT ![t] = shown[t]]
            BY <1>3, <1>4
        <3>4. shown' = shown
            BY ONLY <3>3
        <3> HIDE DEF waiting, asked, shown
        <3> QED  BY <3>1, <3>2, <3>4, <1>3
    <2> QED  BY <2>1 DEF Promise!Ask
<1>5. CASE tab[t].phase = "served" /\ new.phase \in {"shown", "broken"}
           /\ new.shown = (IF tab[t].snapshot.ok THEN output ELSE tab[t].snapshot.stamp)
           /\ new.asked = tab[t].asked
    <2>1. new.shown \in tab[t].asked .. edits
        BY <1>2, <1>5 DEF PagesFollowRequests, BuildsFollowEdits, WatchInv, TypeOK, IsBuild, TabRecord
    <2>2. /\ t \in waiting /\ waiting' = waiting \ {t}
          /\ asked' = asked
          /\ shown' = [shown EXCEPT ![t] = new.shown]
          /\ new.shown \in asked[t] .. edits
        BY <1>2, <1>3, <1>5, <2>1 DEF Waiting
    <2> QED  BY <2>2 DEF Promise!Show
<1>6. CASE (Waiting(tab[t].phase) <=> Waiting(new.phase))
           /\ new.asked = tab[t].asked /\ new.shown = tab[t].shown
    <2>1. waiting' = waiting /\ asked' = asked /\ shown' = shown
        BY <1>2, <1>3, <1>6
    <2> QED  BY <2>1 DEF Promise!vars
<1> QED  BY <1>1, <1>4, <1>5, <1>6 DEF Becomes, Waiting

\* An edit is Edit, a publication is Build.
LEMMA PromisedStep ==
    WatchInv /\ PromiseInv /\ [DevNext]_devVars => [Promise!Next]_(Promise!vars)
<1> SUFFICES ASSUME WatchInv, PromiseInv, [DevNext]_devVars
             PROVE  [Promise!Next]_(Promise!vars)
    OBVIOUS
<1>1. CASE WatchSteps
    <2>1. UNCHANGED reloadVars /\ published' = published
          /\ (edits' = edits \/ edits' = edits + 1)
        BY <1>1, WatchStepsKeep
    <2>2. Promise!Edit \/ UNCHANGED Promise!vars
        BY <2>1 DEF reloadVars, Promise!Edit, Promise!vars
    <2> QED  BY <2>2 DEF Promise!Next
<1>2. CASE WriteStep
    BY <1>2, WriteStepKeeps DEF Promise!vars
<1>3. CASE PublishStep
    <2>1. UNCHANGED <<edits, tab>> /\ published'.build.at \in published.build.at .. edits
        BY <1>3, PublishStepKeeps
    <2>2. Promise!Build
        BY <2>1 DEF Promise!Build
    <2> QED  BY <2>2 DEF Promise!Next
<1>4. CASE ReloadSteps
    <2>0. UNCHANGED <<edits, published>>
        BY <1>4 DEF ReloadSteps, vars
    <2>1. CASE \/ Reloading!Broadcast
               \/ \E c \in 1 .. MaxStreams : Reloading!Handler(c)
        <3>1. UNCHANGED tab
            BY <1>4, <2>1, StreamStepKeeps DEF ReloadSteps
        <3> QED  BY <2>0, <3>1 DEF Promise!vars
    <2>2. ASSUME NEW t \in Tabs,
                 Reloading!Open(t) \/ Reloading!Browse(t) \/ Reloading!Close(t)
          PROVE  [Promise!Next]_(Promise!vars)
        <3>1. TabEffect(t) /\ UNCHANGED <<builder, output, buildState>>
            BY <2>2, TabStepEffect DEF PromiseInv
        <3>2. Promise!Ask(t) \/ Promise!Show(t) \/ UNCHANGED Promise!vars
            BY <2>0, <3>1, PromisedTabStep
        <3> QED  BY <3>2 DEF Promise!Next
    <2> QED  BY <1>4, <2>1, <2>2 DEF ReloadSteps
<1>5. CASE UNCHANGED devVars
    BY <1>5 DEF devVars, vars, reloadVars, Promise!vars
<1> QED  BY <1>1, <1>2, <1>3, <1>4, <1>5 DEF DevNext

-----------------------------------------------------------------------------
\* The invariant is inductive relative to that of the watch loop.
THEOREM PromiseInvariant == DevSpec => []PromiseInv
<1>1. DevSpec => []WatchInv
    BY DevServerImplementsWatchLoop, PTL
<1> QED  BY <1>1, PromiseInit, PromiseStep, PTL DEF DevSpec

\* The composed server implements the abstract promise of live reload: a page
\* shows no build older than the one published when it was asked for and none
\* of sources that are not saved yet, and the published build only moves
\* forward, whatever the loop, the streams and the tabs do meanwhile.
THEOREM DevServerImplementsLiveReload == DevSpec => ImplementsLiveReload
<1>1. DevSpec => [](WatchInv /\ PromiseInv)
    BY DevServerImplementsWatchLoop, PromiseInvariant, PTL
<1>2. DevSpec => Promise!Spec
    BY <1>1, PromisedInit, PromisedStep, PTL DEF DevSpec, Promise!Spec
<1> QED  BY <1>2 DEF ImplementsLiveReload
=============================================================================
