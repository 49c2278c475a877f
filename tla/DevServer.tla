----------------------------- MODULE DevServer -----------------------------
(***************************************************************************)
(* The dev server as a whole (server.rs, run_dev_server): the watch        *)
(* session and rebuild loop of WatchLoop, whose builds are the ones that   *)
(* ReloadStream writes, publishes and broadcasts to the browser's tabs.    *)
(* The two share run_single_build_cycle; the stamp of what a build makes   *)
(* is the number of edits it may have seen.                                *)
(***************************************************************************)
EXTENDS WatchLoop

CONSTANTS Tabs, MaxBuilds, MaxStreams, Stalls

VARIABLES builder, output, partial, buildState, clients, nextId, stream, tab,
          reloads

Reloading == INSTANCE ReloadStream

reloadVars == <<builder, output, partial, buildState, clients, nextId, stream,
                tab, reloads>>
devVars == <<vars, reloadVars>>

DevInit == Init /\ Reloading!Init

\* An edit, a step of the watcher, or one of the loop that does not touch what
\* browsers see.  The loop waits for run_single_build_cycle to return.
WatchSteps ==
    /\ \/ UserEdits
       \/ Watcher
       \/ ReadConfiguration
       \/ \E a \in Areas : builder = "idle" /\ ReadArea(a)
       \/ /\ builder # "broadcast"
          /\ \/ StartSession \/ LoadLastSeen \/ TestRevision \/ Receive
             \/ DebounceAgain \/ DebounceTimeout
             \/ BeginBuild \/ TestStable \/ Settle
    /\ UNCHANGED reloadVars

\* The build has read everything and writes its output.
WriteStep ==
    /\ pc = "compile" /\ DOMAIN build.read = build.areas
    /\ Reloading!WriteOutput(build.at) \/ Reloading!FillOutput
    /\ UNCHANGED vars

\* Success, and a report of the watch scope, need the output written.
PublishStep ==
    \E ok, scoped \in BOOLEAN :
        /\ scoped => builder = "written"
        /\ PublishBuild(ok, scoped)
        /\ Reloading!Publish(ok, build.at)

\* The broadcast, the connection threads and the browsers.
ReloadSteps ==
    /\ \/ Reloading!Broadcast
       \/ \E c \in 1 .. MaxStreams : Reloading!Handler(c)
       \/ \E t \in Tabs :
             Reloading!Open(t) \/ Reloading!Browse(t) \/ Reloading!Close(t)
    /\ UNCHANGED vars

DevNext == WatchSteps \/ WriteStep \/ PublishStep \/ ReloadSteps

DevSpec == DevInit /\ [][DevNext]_devVars

\* The threads of both parts, and every tab, go on.
DevFairness ==
    /\ WF_devVars(WatchSteps /\ Watcher)
    /\ WF_devVars(WriteStep \/ PublishStep \/ (WatchSteps /\ RebuildLoop))
    /\ WF_devVars(Reloading!Broadcast /\ UNCHANGED vars)
    /\ \A c \in 1 .. MaxStreams :
          WF_devVars(/\ Reloading!Handler(c) /\ ~Reloading!PeerStalls(c)
                     /\ UNCHANGED vars)
    /\ \A t \in Tabs : WF_devVars(Reloading!Browse(t) /\ UNCHANGED vars)

FairDevSpec == DevSpec /\ DevFairness
-----------------------------------------------------------------------------
\* The dev server implements the promise of LiveReload.
Promise ==
    INSTANCE LiveReload WITH
        source <- edits,
        built <- published.build.at,
        waiting <- {t \in Tabs : tab[t].phase \in {"requested", "served"}},
        asked <- [t \in Tabs |-> tab[t].asked],
        shown <- [t \in Tabs |-> tab[t].shown]

ImplementsLiveReload == Promise!Spec

\* From the keyboard to the browser: an edit the waiting loop can see reaches
\* every tab that shows a page and has a registered stream, as a whole page or
\* as the diagnostics of a build that read it or a later edit.  The exception
\* is a tab that is overtaken: it asked after that build was published, and got
\* what a later build had written of its files so far, which may lack the
\* script that would make it ask again.  No earlier reload may be on its way:
\* it would open the gap that SettledTabIsCurrent excepts.
SignalledEditIsShown ==
    \A n \in 1 .. MaxEdits, t \in Tabs :
        (/\ pc = "wait" /\ revision > lastSeen /\ edits = n
         /\ tab[t].phase = "shown" /\ tab[t].stream \in Reloading!Registered
         /\ ~Reloading!ReloadPending(tab[t].stream))
            ~> \/ tab[t].phase = "shown" /\ tab[t].shown >= n /\ ~tab[t].partial
               \/ tab[t].partial /\ tab[t].asked >= n
               \/ tab[t].phase = "gone"
=============================================================================
