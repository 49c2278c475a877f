---------------------------- MODULE ReloadStream ----------------------------
(***************************************************************************)
(* Serving pages and pushing reloads (state.rs, http.rs, sse.rs and the    *)
(* second half of build_loop.rs, run_single_build_cycle).                  *)
(*                                                                         *)
(* The builder writes output files, publishes the build state under one    *)
(* lock and broadcasts under another.  A thread per connection serves a    *)
(* page or keeps an event stream: it registers a channel of capacity one   *)
(* and forwards what the broadcast puts there.  Browser tabs load a page,  *)
(* then open a stream, and load the page again on any event.               *)
(*                                                                         *)
(* What a build made, an output file or an error page, is abstracted to a  *)
(* stamp that grows from build to build.  Files are not written in one     *)
(* step: a page may be read from one that is only partly there.            *)
(***************************************************************************)
EXTENDS Integers, FiniteSets

CONSTANTS
    Tabs,         \* the browser tabs
    MaxBuilds,    \* bound on the builds of a behaviour
    MaxStreams,   \* bound on the event streams opened in a behaviour
    Stalls        \* whether a live peer may exceed WRITE_TIMEOUT

ASSUME ReloadAssumption ==
    /\ MaxBuilds \in Nat /\ MaxStreams \in Nat /\ Stalls \in BOOLEAN

Streams == 1 .. MaxStreams
NoStream == 0

VARIABLES
    builder,      \* where run_single_build_cycle is
    output,       \* the stamp of the output files
    partial,      \* they hold only a part of what that build made
    buildState,   \* BuildState: version, success, and stamp of the last build
    clients,      \* the registry: pairs of client id and stream
    nextId,       \* next_client_id
    stream,       \* per event stream: its handler thread and its connection
    tab,          \* per tab: what the browser does and what it shows
    reloads       \* history: pages each tab loaded because of an event

serverVars == <<builder, output, partial, buildState>>
streamVars == <<clients, nextId, stream>>
vars == <<serverVars, streamVars, tab, reloads>>

UnusedStream ==
    [handler |-> "unused", id |-> 0, queued |-> FALSE, inbox |-> FALSE,
     closed |-> FALSE, reset |-> FALSE, since |-> 0]

Init ==
    /\ builder = "idle" /\ output = 0 /\ partial = FALSE
    /\ buildState = [version |-> 0, ok |-> FALSE, stamp |-> 0]
    /\ clients = {} /\ nextId = 1
    /\ stream = [c \in Streams |-> UnusedStream]
    /\ tab = [t \in Tabs |-> [phase |-> "blank", snapshot |-> buildState,
                              shown |-> 0, partial |-> FALSE, asked |-> 0,
                              stream |-> NoStream]]
    /\ reloads = [t \in Tabs |-> 0]

Registered == {client.stream : client \in clients}

\* The server listens once the initial build is over.
Listening ==
    /\ buildState.version > 0
    /\ buildState.version = 1 => builder # "broadcast"

-----------------------------------------------------------------------------
(* The builder.                                                            *)

\* A build that compiled writes its output files; fs::write truncates a file
WriteOutput(stamp) ==
    /\ builder = "idle" /\ buildState.version < MaxBuilds
    /\ output' = stamp /\ partial' = TRUE
    /\ builder' = "writing"
    /\ UNCHANGED <<buildState, streamVars, tab, reloads>>

\* and fills it.
FillOutput ==
    /\ builder = "writing"
    /\ partial' = FALSE
    /\ builder' = "written"
    /\ UNCHANGED <<output, buildState, streamVars, tab, reloads>>

\* A plausible bug: a build is published while its files are being written.
PublishUnfinished(ok, stamp) ==
    /\ builder \in {"idle", "writing", "written"} /\ buildState.version < MaxBuilds
    /\ ok => builder # "idle"
    /\ buildState' = [version |-> buildState.version + 1, ok |-> ok,
                      stamp |-> stamp]
    /\ builder' = "broadcast"
    /\ UNCHANGED <<output, partial, streamVars, tab, reloads>>

\* The update of BuildState; a build may fail before, while and after writing.
Publish(ok, stamp) ==
    /\ builder \in {"idle", "writing", "written"} /\ buildState.version < MaxBuilds
    /\ ok => builder = "written"
    /\ buildState' = [version |-> buildState.version + 1, ok |-> ok,
                      stamp |-> stamp]
    /\ builder' = "broadcast"
    /\ UNCHANGED <<output, partial, streamVars, tab, reloads>>

\* A plausible bug: nobody is told of a failed build.
BroadcastSuccess ==
    /\ builder = "broadcast"
    /\ stream' = IF buildState.ok
                 THEN [c \in Streams |->
                         [stream[c] EXCEPT !.queued = @ \/ c \in Registered]]
                 ELSE stream
    /\ builder' = "idle"
    /\ UNCHANGED <<output, partial, buildState, clients, nextId, tab, reloads>>

\* broadcast_reload: try_send to every client, a full channel being enough, and
\* pruning of the clients whose receiver is gone.
Broadcast ==
    /\ builder = "broadcast"
    /\ stream' = [c \in Streams |->
           [stream[c] EXCEPT !.queued = @ \/ (/\ c \in Registered
                                              /\ stream[c].handler # "done")]]
    /\ clients' = {client \in clients : stream[client.stream].handler # "done"}
    /\ builder' = "idle"
    /\ UNCHANGED <<output, partial, buildState, nextId, tab, reloads>>

-----------------------------------------------------------------------------
(* The handler thread of an event stream.                                  *)

\* A write to the stream of c succeeds or fails.  One write to a closed
\* connection may still succeed; a live peer that stalls makes one fail.
WriteSucceeds(c) == ~stream[c].reset
WriteFails(c) == stream[c].closed \/ Stalls

AfterWrite(c) == [stream[c] EXCEPT !.reset = stream[c].closed]

Handle(c, from, new) ==
    /\ stream[c].handler = from
    /\ stream' = [stream EXCEPT ![c] = new]
    /\ UNCHANGED <<serverVars, tab, reloads>>

\* A handler that ends drops its end of the connection.
Ended(c) == [stream[c] EXCEPT !.handler = "done", !.closed = TRUE,
                              !.queued = FALSE]

WriteHeaders(c) ==
    /\ \/ /\ WriteSucceeds(c)
          /\ Handle(c, "accepted", [AfterWrite(c) EXCEPT !.handler = "id"])
       \/ WriteFails(c) /\ Handle(c, "accepted", Ended(c))
    /\ UNCHANGED <<clients, nextId>>

\* register_client: the id is taken before the lock.
TakeId(c) ==
    /\ Handle(c, "id", [stream[c] EXCEPT !.handler = "register", !.id = nextId])
    /\ nextId' = nextId + 1
    /\ UNCHANGED clients

\* A plausible bug: a new client is greeted with an event.
RegisterAndSend(c) ==
    /\ Handle(c, "register", [stream[c] EXCEPT !.handler = "waiting",
                                               !.queued = TRUE,
                                               !.since = buildState.version])
    /\ clients' = clients \cup {[id |-> stream[c].id, stream |-> c]}
    /\ UNCHANGED nextId

\* Then the client is pushed under the lock.
Register(c) ==
    /\ Handle(c, "register", [stream[c] EXCEPT !.handler = "waiting",
                                               !.since = buildState.version])
    /\ clients' = clients \cup {[id |-> stream[c].id, stream |-> c]}
    /\ UNCHANGED nextId

ReceiveEvent(c) ==
    /\ stream[c].queued
    /\ Handle(c, "waiting", [stream[c] EXCEPT !.handler = "writing",
                                              !.queued = FALSE])
    /\ UNCHANGED <<clients, nextId>>

\* A plausible bug: the event of a write that timed out is forgotten.
WriteEventOnce(c) ==
    /\ \/ /\ WriteSucceeds(c)
          /\ Handle(c, "writing", [AfterWrite(c) EXCEPT !.handler = "waiting",
                                            !.inbox = @ \/ ~stream[c].closed])
       \/ /\ WriteFails(c)
          /\ Handle(c, "writing", [stream[c] EXCEPT !.handler = "waiting"])
    /\ UNCHANGED <<clients, nextId>>

\* Another: a failed write returns from the handler, as that of the headers does.
WriteEventReturning(c) ==
    /\ \/ /\ WriteSucceeds(c)
          /\ Handle(c, "writing", [AfterWrite(c) EXCEPT !.handler = "waiting",
                                            !.inbox = @ \/ ~stream[c].closed])
       \/ WriteFails(c) /\ Handle(c, "writing", Ended(c))
    /\ UNCHANGED <<clients, nextId>>

\* The event goes to the browser, or the handler leaves its loop.
WriteEvent(c) ==
    /\ \/ /\ WriteSucceeds(c)
          /\ Handle(c, "writing", [AfterWrite(c) EXCEPT !.handler = "waiting",
                                            !.inbox = @ \/ ~stream[c].closed])
       \/ /\ WriteFails(c)
          /\ Handle(c, "writing", [stream[c] EXCEPT !.handler = "leaving"])
    /\ UNCHANGED <<clients, nextId>>

\* A plausible bug: the result of a keep-alive write is ignored.
KeepAliveRegardless(c) ==
    /\ ~stream[c].queued
    /\ Handle(c, "waiting", AfterWrite(c))
    /\ UNCHANGED <<clients, nextId>>

\* recv_timeout ran out: a keep-alive comment, which a browser ignores.
KeepAlive(c) ==
    /\ ~stream[c].queued
    /\ \/ WriteSucceeds(c) /\ Handle(c, "waiting", AfterWrite(c))
       \/ /\ WriteFails(c)
          /\ Handle(c, "waiting", [stream[c] EXCEPT !.handler = "leaving"])
    /\ UNCHANGED <<clients, nextId>>

\* remove_client, and the end of the handler.
RemoveClient(c) ==
    /\ Handle(c, "leaving", Ended(c))
    /\ clients' = {client \in clients : client.id # stream[c].id}
    /\ UNCHANGED nextId

Handler(c) ==
    \/ WriteHeaders(c) \/ TakeId(c) \/ Register(c)
    \/ ReceiveEvent(c) \/ WriteEvent(c) \/ KeepAlive(c) \/ RemoveClient(c)

\* A step that gives up a live peer: WRITE_TIMEOUT ran out.
PeerStalls(c) ==
    /\ stream[c].handler \in {"accepted", "waiting", "writing"}
    /\ stream'[c].handler \in {"leaving", "done"}
    /\ ~stream[c].closed

-----------------------------------------------------------------------------
(* Browser tabs, and the threads that serve their pages.                   *)

\* The user opens the page.
Open(t) ==
    /\ Listening /\ tab[t].phase = "blank"
    /\ tab' = [tab EXCEPT ![t].phase = "requested",
                          ![t].asked = buildState.stamp]
    /\ UNCHANGED <<serverVars, streamVars, reloads>>

\* A plausible bug: a thread goes on with a good snapshot it already has.
TakeSnapshotOnce(t) ==
    /\ tab[t].phase = "requested"
    /\ tab' = [tab EXCEPT ![t].phase = "served",
                          ![t].snapshot = IF @.ok THEN @ ELSE buildState]
    /\ UNCHANGED <<serverVars, streamVars, reloads>>

\* handle_connection clones the build state under its lock,
TakeSnapshot(t) ==
    /\ tab[t].phase = "requested"
    /\ tab' = [tab EXCEPT ![t].phase = "served", ![t].snapshot = buildState]
    /\ UNCHANGED <<serverVars, streamVars, reloads>>

\* A plausible bug: the browser may answer from its cache.
ServePageFromCache(t) ==
    /\ tab[t].phase = "served"
    /\ tab' = [tab EXCEPT ![t].phase = "shown",
                          ![t].shown = IF @ > 0 THEN @ ELSE output]
    /\ UNCHANGED <<serverVars, streamVars, reloads>>

\* The page made from tab t's snapshot would be read from unfinished files.
ReadsPartial(t) == tab[t].snapshot.ok /\ partial

\* and then answers with the failed build's diagnostics or reads the file.  An
\* unfinished one may lack a working reload script: the text is cut off inside a
\* character, which is answered with a plain error, or inside a tag.
ServePage(t) ==
    /\ tab[t].phase = "served"
    /\ \E phase \in {"shown", "broken"} :
          /\ phase = "broken" => ReadsPartial(t)
          /\ tab' = [tab EXCEPT ![t].phase = phase,
                                ![t].shown = IF tab[t].snapshot.ok THEN output
                                             ELSE tab[t].snapshot.stamp,
                                ![t].partial = ReadsPartial(t)]
    /\ UNCHANGED <<serverVars, streamVars, reloads>>

\* The script of a page opens an EventSource, which reconnects by itself when
\* the server dropped the connection.
Connect(t) ==
    /\ tab[t].phase = "shown"
    /\ \A c \in Streams :
          tab[t].stream = c => stream[c].closed /\ ~stream[c].inbox
    /\ \E c \in Streams :
          /\ stream[c].handler = "unused"
          /\ \A d \in 1 .. c - 1 : stream[d].handler # "unused"
          /\ stream' = [stream EXCEPT ![c].handler = "accepted"]
          /\ tab' = [tab EXCEPT ![t].stream = c]
    /\ UNCHANGED <<serverVars, clients, nextId, reloads>>

Disconnect(t) ==
    IF tab[t].stream = NoStream THEN UNCHANGED stream
    ELSE stream' = [stream EXCEPT ![tab[t].stream].closed = TRUE,
                                  ![tab[t].stream].inbox = FALSE]

\* Any reload event makes the page load itself again.
Reload(t) ==
    /\ tab[t].phase = "shown" /\ tab[t].stream # NoStream
    /\ stream[tab[t].stream].inbox
    /\ Disconnect(t)
    /\ tab' = [tab EXCEPT ![t].phase = "requested", ![t].stream = NoStream,
                          ![t].asked = buildState.stamp]
    /\ reloads' = [reloads EXCEPT ![t] = @ + 1]
    /\ UNCHANGED <<serverVars, clients, nextId>>

\* The user closes the tab.
Close(t) ==
    /\ tab[t].phase \in {"shown", "broken"}
    /\ Disconnect(t)
    /\ tab' = [tab EXCEPT ![t].phase = "gone", ![t].stream = NoStream]
    /\ UNCHANGED <<serverVars, clients, nextId, reloads>>

Browse(t) == TakeSnapshot(t) \/ ServePage(t) \/ Connect(t) \/ Reload(t)

-----------------------------------------------------------------------------
NextStamp == buildState.version + 1

Next ==
    \/ WriteOutput(NextStamp) \/ FillOutput
    \/ \E ok \in BOOLEAN : Publish(ok, NextStamp)
    \/ Broadcast
    \/ \E c \in Streams : Handler(c)
    \/ \E t \in Tabs : Open(t) \/ Browse(t) \/ Close(t)

Spec == Init /\ [][Next]_vars

\* Every thread and every tab goes on; users and builds need not, and no live
\* peer has to stall, or a handler would be bound to leave its loop some day.
Fairness ==
    /\ WF_vars(Broadcast)
    /\ \A c \in Streams : WF_vars(Handler(c) /\ ~PeerStalls(c))
    /\ \A t \in Tabs : WF_vars(Browse(t))

FairSpec == Spec /\ Fairness
-----------------------------------------------------------------------------
TypeOK ==
    /\ builder \in {"idle", "writing", "written", "broadcast"}
    /\ output \in Nat /\ partial \in BOOLEAN
    /\ buildState \in [version : Nat, ok : BOOLEAN, stamp : Nat]
    /\ clients \subseteq [id : Nat, stream : Streams]
    /\ nextId \in Nat
    /\ stream \in [Streams ->
           [handler : {"unused", "accepted", "id", "register", "waiting",
                       "writing", "leaving", "done"},
            id : Nat, queued : BOOLEAN, inbox : BOOLEAN, closed : BOOLEAN,
            reset : BOOLEAN, since : Nat]]
    /\ tab \in [Tabs ->
           [phase : {"blank", "requested", "served", "shown", "broken", "gone"},
            snapshot : [version : Nat, ok : BOOLEAN, stamp : Nat],
            shown : Nat, partial : BOOLEAN, asked : Nat,
            stream : Streams \cup {NoStream}]]
    /\ reloads \in [Tabs -> Nat]

\* A stream that serves events is in the registry under its own id and no
\* other stream is removed with it: the ids, taken outside the registry's lock,
\* never collide, and no registration outlives its handler.
RegistryMatchesHandlers ==
    /\ Registered = {c \in Streams :
                        stream[c].handler \in {"waiting", "writing", "leaving"}}
    /\ \A client \in clients : client.id = stream[client.stream].id
    /\ \A x, y \in clients : x.id = y.id => x = y

\* A reload is on its way to the browser end of stream c.
ReloadPending(c) ==
    \/ stream[c].queued \/ stream[c].inbox \/ stream[c].handler = "writing"
    \/ builder = "broadcast"

\* A channel of capacity one is enough: a live registered stream never misses
\* a build published after its registration, also when try_send finds the
\* channel full.
NoReloadIsLost ==
    \A c \in Registered :
        /\ ~stream[c].closed /\ stream[c].handler # "leaving"
        /\ buildState.version > stream[c].since
        => ReloadPending(c)

\* What a request would be answered with now.
Current == IF buildState.ok THEN output ELSE buildState.stamp

\* A tab at rest shows the last build, and all of it, also when its page was
\* once read while the files were being written; unless a build was published
\* between the snapshot its page was made from and the registration of its
\* stream.
SettledTabIsCurrent ==
    \A t \in Tabs :
        LET c == tab[t].stream
        IN  /\ builder = "idle" /\ tab[t].phase = "shown" /\ c # NoStream
            /\ stream[c].handler = "waiting" /\ ~ReloadPending(c)
            /\ stream[c].since = tab[t].snapshot.version
            => tab[t].shown = Current /\ ~tab[t].partial

\* No reload loop: a tab reloads at most once per build, whatever it receives
\* and however often its stream breaks.
ReloadsBoundedByBuilds == \A t \in Tabs : reloads[t] <= buildState.version

\* A page is never older than the build that was published when the browser
\* asked for it, and never of a build still being made in memory.
PagesAreRecent ==
    \A t \in Tabs : tab[t].phase \in {"shown", "broken"} =>
        /\ tab[t].asked <= tab[t].shown
        /\ tab[t].shown <= buildState.stamp \/ tab[t].shown <= output

\* The registry does not leak: a stream whose browser end closed leaves it.
ClosedStreamsAreForgotten ==
    \A c \in Streams : stream[c].closed ~> c \notin Registered

\* A registered stream reloads its tab for a build published afterwards,
\* unless the tab is closed or a write to the stream failed.
BuildReachesTab ==
    \A t \in Tabs, c \in Streams, n \in 1 .. MaxBuilds :
        (/\ c \in Registered /\ tab[t].stream = c
         /\ buildState.version = n /\ stream[c].since < n)
            ~> \/ tab[t].snapshot.version >= n \/ tab[t].phase = "gone"
               \/ stream[c].handler \in {"leaving", "done"}
=============================================================================
