------------------------- MODULE ReloadStreamProofs -------------------------
(***************************************************************************)
(* Proofs about ReloadStream: its safety invariants hold for any number of *)
(* tabs, streams and builds, whether or not live peers stall.              *)
(***************************************************************************)
EXTENDS ReloadStream, TLAPS

\* The handlers a registry entry belongs to, and those that own an id.
Serving == {"waiting", "writing", "leaving"}
Numbered == Serving \cup {"register"}
Early == {"unused", "accepted", "id", "register"}

\* Ids are unique while they are in use, whether registered yet or not: this
\* is what keeps the registry right although they are taken outside its lock.
IdsAreUnique ==
    /\ \A c \in Streams : stream[c].handler \in Numbered => stream[c].id < nextId
    /\ \A c, d \in Streams :
          /\ stream[c].handler \in Numbered /\ stream[d].handler \in Numbered
          /\ stream[c].id = stream[d].id
          => c = d

\* What NoReloadIsLost asks of a stream whose record is s.
Unmissed(s, version, atBroadcast) ==
    /\ s.handler \in {"waiting", "writing"} /\ ~s.closed /\ version > s.since
    => s.queued \/ s.inbox \/ s.handler = "writing" \/ atBroadcast

\* No stream misses a build, gets an event before it is registered, or is
\* closed before it is opened.
StreamsAreQuiet ==
    \A c \in Streams :
        /\ Unmissed(stream[c], buildState.version, builder = "broadcast")
        /\ stream[c].handler \in Early => ~stream[c].queued /\ ~stream[c].inbox
        /\ stream[c].handler = "unused" => ~stream[c].closed

\* A tab holds a stream of its own, closed only when the handler gave it up.
TabsOwnStreams ==
    /\ \A t \in Tabs : tab[t].stream # NoStream =>
          LET s == stream[tab[t].stream]
          IN  s.handler # "unused" /\ (s.closed => s.handler = "done")
    /\ \A t, u \in Tabs :
          tab[t].stream = tab[u].stream => t = u \/ tab[t].stream = NoStream

\* An event stands in front of tab t.
EventAhead(t) ==
    /\ tab[t].stream # NoStream
    /\ LET s == stream[tab[t].stream]
       IN  s.queued \/ s.inbox \/ s.handler = "writing"

\* Every reload, and the event ahead, was broadcast by a build of its own.
ReloadsAreBroadcasts ==
    \A t \in Tabs :
        reloads[t] + (IF EventAhead(t) THEN 1 ELSE 0)
            <= buildState.version - (IF builder = "broadcast" THEN 1 ELSE 0)

\* The builder is busy with the output files, or done with them.
Writing == builder \in {"writing", "written"}

\* Stamps are versions, and the output is that of the build under way or of
\* the last one that succeeded, which is complete.
StampsAreVersions ==
    /\ buildState.stamp = buildState.version
    /\ output <= buildState.version + 1
    /\ Writing => output = buildState.version + 1
    /\ builder = "written" => ~partial
    /\ buildState.ok => buildState.version <= output
    /\ buildState.ok /\ ~Writing => output = buildState.version /\ ~partial

\* A page grows older in order: asked for, made from a snapshot, shown.
PagesFollowBuilds ==
    \A t \in Tabs :
        LET p == tab[t]
        IN  /\ p.snapshot.version <= buildState.version
            /\ p.asked <= buildState.stamp
            /\ p.phase \in {"served", "shown", "broken"} =>
                  /\ p.asked <= p.snapshot.stamp
                  /\ p.snapshot.ok => p.snapshot.stamp <= output
                  /\ p.snapshot.stamp <= buildState.stamp
                  /\ p.snapshot.version = buildState.version
                        => p.snapshot = buildState
            /\ p.phase \in {"shown", "broken"} =>
                  /\ p.asked <= p.shown
                  /\ p.shown <= buildState.stamp \/ p.shown <= output
                  /\ p.snapshot.version = buildState.version /\ ~Writing
                        => p.shown = Current /\ ~p.partial

ReloadInv ==
    /\ TypeOK /\ RegistryMatchesHandlers /\ IdsAreUnique
    /\ StreamsAreQuiet /\ TabsOwnStreams
    /\ ReloadsAreBroadcasts /\ StampsAreVersions /\ PagesFollowBuilds

-----------------------------------------------------------------------------
(* Types.                                                                  *)

StreamRecord ==
    [handler : {"unused", "accepted", "id", "register", "waiting", "writing",
                "leaving", "done"},
     id : Nat, queued : BOOLEAN, inbox : BOOLEAN, closed : BOOLEAN,
     reset : BOOLEAN, since : Nat]

TabRecord ==
    [phase : {"blank", "requested", "served", "shown", "broken", "gone"},
     snapshot : [version : Nat, ok : BOOLEAN, stamp : Nat],
     shown : Nat, partial : BOOLEAN, asked : Nat, stream : Streams \cup {NoStream}]

\* A step of the handler of c touches no other stream.
LEMMA HandlerIsLocal ==
    ASSUME TypeOK, NEW c \in Streams, Handler(c)
    PROVE  /\ UNCHANGED <<serverVars, tab, reloads>>
           /\ stream' = [stream EXCEPT ![c] = stream'[c]]
           /\ \A d \in Streams : d # c => stream'[d] = stream[d]
<1> USE DEF TypeOK, Handle
<1>1. CASE WriteHeaders(c)  BY <1>1 DEF WriteHeaders
<1>2. CASE TakeId(c)        BY <1>2 DEF TakeId
<1>3. CASE Register(c)      BY <1>3 DEF Register
<1>4. CASE ReceiveEvent(c)  BY <1>4 DEF ReceiveEvent
<1>5. CASE WriteEvent(c)    BY <1>5 DEF WriteEvent
<1>6. CASE KeepAlive(c)     BY <1>6 DEF KeepAlive
<1>7. CASE RemoveClient(c)  BY <1>7 DEF RemoveClient
<1> QED  BY <1>1, <1>2, <1>3, <1>4, <1>5, <1>6, <1>7 DEF Handler

\* What a step of the handler of c does: the record s of the stream becomes r,
\* and the registry and the ids change.
Registry == <<clients, nextId>>

Outcome(c, s, r) ==
    \/ /\ s.handler = "accepted"
       /\ r = [s EXCEPT !.handler = "id", !.reset = s.closed]
       /\ UNCHANGED Registry
    \/ /\ s.handler = "accepted"
       /\ r = [s EXCEPT !.handler = "done", !.closed = TRUE, !.queued = FALSE]
       /\ UNCHANGED Registry
    \/ /\ s.handler = "id"
       /\ r = [s EXCEPT !.handler = "register", !.id = nextId]
       /\ nextId' = nextId + 1 /\ UNCHANGED clients
    \/ /\ s.handler = "register"
       /\ r = [s EXCEPT !.handler = "waiting", !.since = buildState.version]
       /\ clients' = clients \cup {[id |-> s.id, stream |-> c]}
       /\ UNCHANGED nextId
    \/ /\ s.handler = "waiting" /\ s.queued
       /\ r = [s EXCEPT !.handler = "writing", !.queued = FALSE]
       /\ UNCHANGED Registry
    \/ /\ s.handler = "writing"
       /\ r = [s EXCEPT !.handler = "waiting", !.reset = s.closed,
                        !.inbox = s.inbox \/ ~s.closed]
       /\ UNCHANGED Registry
    \/ /\ s.handler \in {"waiting", "writing"}
       /\ r = [s EXCEPT !.handler = "leaving"]
       /\ UNCHANGED Registry
    \/ /\ s.handler = "waiting"
       /\ r = [s EXCEPT !.reset = s.closed]
       /\ UNCHANGED Registry
    \/ /\ s.handler = "leaving"
       /\ r = [s EXCEPT !.handler = "done", !.closed = TRUE, !.queued = FALSE]
       /\ clients' = {client \in clients : client.id # s.id}
       /\ UNCHANGED nextId

LEMMA HandlerSteps ==
    ASSUME TypeOK, NEW c \in Streams, Handler(c)
    PROVE  Outcome(c, stream[c], stream'[c])
<1>0. /\ stream \in [Streams -> StreamRecord]
      /\ c \in Streams
  BY DEF TypeOK, StreamRecord
<1> USE <1>0 DEF Handle, AfterWrite, StreamRecord, Registry, Outcome, Ended
<1>1. CASE WriteHeaders(c)
  <2>1. stream[c].handler = "accepted" /\ UNCHANGED Registry
    BY <1>1 DEF WriteHeaders
  <2>2. \/ stream'[c] = Ended(c)
        \/ stream'[c] = [AfterWrite(c) EXCEPT !.handler = "id"]
    BY <1>1 DEF WriteHeaders
  <2>3. [AfterWrite(c) EXCEPT !.handler = "id"]
        = [stream[c] EXCEPT !.handler = "id", !.reset = stream[c].closed]
    BY <2>1
  <2> QED  BY <2>1, <2>2, <2>3
<1>2. CASE TakeId(c)        BY <1>2 DEF TakeId
<1>3. CASE Register(c)      BY <1>3 DEF Register
<1>4. CASE ReceiveEvent(c)  BY <1>4 DEF ReceiveEvent
<1>5. CASE WriteEvent(c)
  <2>1. stream[c].handler = "writing" /\ UNCHANGED <<clients, nextId>>
    BY <1>5 DEF WriteEvent
  <2>2. \/ stream'[c] = [stream[c] EXCEPT !.handler = "leaving"]
        \/ stream'[c] = [AfterWrite(c) EXCEPT !.handler = "waiting",
                 !.inbox = AfterWrite(c).inbox \/ ~stream[c].closed]
    BY <1>5 DEF WriteEvent
  <2>3. [AfterWrite(c) EXCEPT !.handler = "waiting",
             !.inbox = AfterWrite(c).inbox \/ ~stream[c].closed]
        = [stream[c] EXCEPT !.handler = "waiting", !.reset = stream[c].closed,
             !.inbox = stream[c].inbox \/ ~stream[c].closed]
    <3> DEFINE s == stream[c]
    <3>1. s \in StreamRecord  OBVIOUS
    <3> HIDE DEF s
    <3>2. [[s EXCEPT !.reset = s.closed] EXCEPT !.handler = "waiting",
             !.inbox = [s EXCEPT !.reset = s.closed].inbox \/ ~s.closed]
          = [s EXCEPT !.handler = "waiting", !.reset = s.closed,
             !.inbox = s.inbox \/ ~s.closed]
      BY <3>1
    <3> QED  BY <3>2 DEF s
  <2> QED  BY <2>1, <2>2, <2>3
<1>6. CASE KeepAlive(c)     BY <1>6 DEF KeepAlive
<1>7. CASE RemoveClient(c)  BY <1>7 DEF RemoveClient
<1> QED  BY <1>1, <1>2, <1>3, <1>4, <1>5, <1>6, <1>7 DEF Handler

LEMMA HandlerKeepsTypes ==
    ASSUME TypeOK, NEW c \in Streams, Handler(c)
    PROVE  TypeOK'
<1>1. /\ UNCHANGED <<serverVars, tab, reloads>>
      /\ stream' = [stream EXCEPT ![c] = stream'[c]]
  BY HandlerIsLocal
<1>2. /\ stream[c] \in StreamRecord /\ buildState.version \in Nat
      /\ nextId \in Nat /\ clients \subseteq [id : Nat, stream : Streams]
  BY DEF TypeOK, StreamRecord
<1>3. Outcome(c, stream[c], stream'[c])
  BY HandlerSteps
<1> DEFINE s == stream[c]  r == stream'[c]
<1> HIDE DEF s, r
<1>4. s \in StreamRecord /\ Outcome(c, s, r)
  BY <1>2, <1>3 DEF s, r
<1>5. r \in StreamRecord
  BY <1>2, <1>4 DEF Outcome, StreamRecord
<1>6. nextId' \in Nat
  BY <1>2, <1>4 DEF Outcome, Registry
<1>7. clients' \subseteq [id : Nat, stream : Streams]
  BY <1>2, <1>4 DEF Outcome, Registry, StreamRecord
<1> QED  BY <1>1, <1>5, <1>6, <1>7 DEF TypeOK, StreamRecord, serverVars, r
\* A tab that leaves its page closes its end of its own stream only.
LEMMA DisconnectEffect ==
    ASSUME TypeOK, NEW t \in Tabs, Disconnect(t)
    PROVE  /\ stream' \in [Streams -> StreamRecord]
           /\ \A d \in Streams :
                 stream'[d] = IF d = tab[t].stream
                              THEN [stream[d] EXCEPT !.closed = TRUE,
                                                     !.inbox = FALSE]
                              ELSE stream[d]
<1>1. stream \in [Streams -> StreamRecord] /\ tab[t].stream \in Streams \cup {NoStream}
  BY DEF TypeOK, StreamRecord
<1>2. NoStream \notin Streams
  BY DEF NoStream, Streams
<1>3. CASE tab[t].stream = NoStream
  BY <1>1, <1>2, <1>3 DEF Disconnect
<1>4. ASSUME NEW k \in Streams, k = tab[t].stream
      PROVE  /\ stream' \in [Streams -> StreamRecord]
             /\ \A d \in Streams :
                   stream'[d] = IF d = k THEN [stream[d] EXCEPT !.closed = TRUE,
                                                               !.inbox = FALSE]
                                ELSE stream[d]
  <2> DEFINE cut == [stream[k] EXCEPT !.closed = TRUE, !.inbox = FALSE]
  <2>1. [stream EXCEPT ![k].closed = TRUE, ![k].inbox = FALSE]
        = [stream EXCEPT ![k] = cut]
    BY <1>1
  <2>2. stream' = [stream EXCEPT ![k] = cut]
    BY <1>2, <1>4, <2>1 DEF Disconnect
  <2>3. cut \in StreamRecord
    BY <1>1 DEF StreamRecord
  <2>4. \A d \in Streams : stream'[d] = IF d = k THEN cut ELSE stream[d]
    <3> HIDE DEF cut
    <3> QED  BY <1>1, <2>2
  <2>5. stream' \in [Streams -> StreamRecord]
    <3> HIDE DEF cut
    <3> QED  BY <1>1, <2>2, <2>3
  <2> QED  BY <2>4, <2>5
<1> QED  BY <1>1, <1>3, <1>4

\* The broadcast leaves an event with every registered stream.
LEMMA BroadcastEffect ==
    ASSUME TypeOK, Broadcast, NEW c \in Streams
    PROVE  \E told \in BOOLEAN :
              /\ told <=> stream[c].queued \/ (/\ c \in Registered
                                              /\ stream[c].handler # "done")
              /\ stream'[c] = [stream[c] EXCEPT !.queued = told]
<1> DEFINE told == stream[c].queued \/ (/\ c \in Registered
                                       /\ stream[c].handler # "done")
<1>1. stream'[c] = [stream[c] EXCEPT !.queued = told]
  BY DEF Broadcast
<1>2. told \in BOOLEAN  OBVIOUS
<1> QED  BY <1>1, <1>2

\* A tab connects to a stream that was not in use.
ConnectTo(t, c) ==
    /\ tab[t].phase = "shown"
    /\ stream[c].handler = "unused"
    /\ tab[t].stream # NoStream => stream[tab[t].stream].closed
    /\ stream' = [stream EXCEPT ![c].handler = "accepted"]
    /\ tab' = [tab EXCEPT ![t].stream = c]
    /\ UNCHANGED <<serverVars, clients, nextId, reloads>>

LEMMA ConnectEffect ==
    ASSUME TypeOK, NEW t \in Tabs, Connect(t)
    PROVE  \E c \in Streams : ConnectTo(t, c)
BY DEF Connect, ConnectTo, TypeOK

LEMMA TypesStep ==
    ASSUME ReloadAssumption, TypeOK, Next
    PROVE  TypeOK'
<1>1. ASSUME NEW stamp \in Nat, WriteOutput(stamp)
      PROVE  TypeOK'
  BY <1>1 DEF WriteOutput, TypeOK, streamVars
<1>9. CASE FillOutput
  BY <1>9 DEF FillOutput, TypeOK, streamVars
<1>2. ASSUME NEW ok \in BOOLEAN, NEW stamp \in Nat, Publish(ok, stamp)
      PROVE  TypeOK'
  <2>1. buildState' \in [version : Nat, ok : BOOLEAN, stamp : Nat]
    BY <1>2 DEF Publish, TypeOK
  <2> QED  BY <1>2, <2>1 DEF Publish, TypeOK, streamVars
<1>3. CASE Broadcast
  <2> DEFINE told(c) == /\ c \in Registered
                        /\ stream[c].handler # "done"
  <2>1. stream' \in [Streams -> StreamRecord]
    <3>1. ASSUME NEW c \in Streams
          PROVE  [stream[c] EXCEPT !.queued = stream[c].queued \/ told(c)]
                     \in StreamRecord
      <4>1. stream[c] \in StreamRecord  BY DEF TypeOK, StreamRecord
      <4>2. (stream[c].queued \/ told(c)) \in BOOLEAN  OBVIOUS
      <4> HIDE DEF told
      <4> QED  BY <4>1, <4>2 DEF StreamRecord
    <3>2. stream' = [c \in Streams |->
             [stream[c] EXCEPT !.queued = stream[c].queued \/ told(c)]]
      BY <1>3 DEF Broadcast
    <3> HIDE DEF told
    <3> QED  BY <3>1, <3>2
  <2>2. clients' \subseteq clients /\ builder' = "idle"
        /\ UNCHANGED <<output, partial, buildState, nextId, tab, reloads>>
    BY <1>3 DEF Broadcast
  <2> QED  BY <2>1, <2>2 DEF TypeOK, StreamRecord
<1>4. ASSUME NEW c \in Streams, Handler(c)
      PROVE  TypeOK'
  BY <1>4, HandlerKeepsTypes
<1>5. ASSUME NEW t \in Tabs, Open(t) \/ TakeSnapshot(t) \/ ServePage(t)
      PROVE  TypeOK'
  <2>1. /\ tab[t] \in TabRecord /\ output \in Nat /\ partial \in BOOLEAN
        /\ buildState \in [version : Nat, ok : BOOLEAN, stamp : Nat]
        /\ tab \in [Tabs -> TabRecord]
    BY DEF TypeOK, TabRecord
  <2>2. UNCHANGED <<serverVars, streamVars, reloads>>
    BY <1>5 DEF Open, TakeSnapshot, ServePage
  <2>3. tab' \in [Tabs -> TabRecord]
    <3>1. CASE Open(t)          BY <2>1, <3>1 DEF Open, TabRecord
    <3>2. CASE TakeSnapshot(t)  BY <2>1, <3>2 DEF TakeSnapshot, TabRecord
    <3>3. CASE ServePage(t)
      <4>1. PICK phase \in {"shown", "broken"} :
               tab' = [tab EXCEPT ![t].phase = phase,
                                  ![t].shown = IF tab[t].snapshot.ok THEN output
                                               ELSE tab[t].snapshot.stamp,
                                  ![t].partial = ReadsPartial(t)]
        BY <3>3 DEF ServePage
      <4>2. ReadsPartial(t) \in BOOLEAN
        BY <2>1 DEF ReadsPartial, TabRecord
      <4> QED  BY <2>1, <4>1, <4>2 DEF TabRecord
    <3> QED  BY <1>5, <3>1, <3>2, <3>3
  <2> QED  BY <2>2, <2>3 DEF TypeOK, TabRecord, serverVars, streamVars
<1>6. ASSUME NEW t \in Tabs, Connect(t)
      PROVE  TypeOK'
  <2>1. PICK c \in Streams : ConnectTo(t, c)
    BY <1>6, ConnectEffect
  <2>2. /\ stream[c] \in StreamRecord /\ stream \in [Streams -> StreamRecord]
        /\ tab[t] \in TabRecord /\ tab \in [Tabs -> TabRecord]
    BY DEF TypeOK, StreamRecord, TabRecord
  <2>3. stream' \in [Streams -> StreamRecord]
    BY <2>1, <2>2 DEF ConnectTo, StreamRecord
  <2>4. tab' \in [Tabs -> TabRecord]
    BY <2>1, <2>2 DEF ConnectTo, TabRecord
  <2> QED  BY <2>1, <2>3, <2>4 DEF ConnectTo, TypeOK, serverVars, StreamRecord, TabRecord
<1>7. ASSUME NEW t \in Tabs, Reload(t) \/ Close(t)
      PROVE  TypeOK'
  <2>1. Disconnect(t)
    BY <1>7 DEF Reload, Close
  <2>2. stream' \in [Streams -> StreamRecord]
    BY <2>1, DisconnectEffect
  <2>3. UNCHANGED <<serverVars, clients, nextId>>
    BY <1>7 DEF Reload, Close
  <2>4. reloads' \in [Tabs -> Nat]
    BY <1>7 DEF Reload, Close, TypeOK
  <2>5. tab' \in [Tabs -> TabRecord]
    <3>1. /\ tab \in [Tabs -> TabRecord] /\ tab[t] \in TabRecord
          /\ buildState.stamp \in Nat
      BY DEF TypeOK, TabRecord
    <3>2. CASE Reload(t)  BY <3>1, <3>2 DEF Reload, TabRecord
    <3>3. CASE Close(t)   BY <3>1, <3>3 DEF Close, TabRecord
    <3> QED  BY <1>7, <3>2, <3>3
  <2> QED  BY <2>2, <2>3, <2>4, <2>5 DEF TypeOK, StreamRecord, TabRecord, serverVars
<1>8. NextStamp \in Nat
  BY DEF NextStamp, TypeOK
<1> QED  BY <1>1, <1>2, <1>3, <1>4, <1>5, <1>6, <1>7, <1>8, <1>9 DEF Next, Browse
-----------------------------------------------------------------------------
(* The registry.                                                           *)

\* A registry entry names a stream being served, and every such stream has one.
LEMMA EntriesAreServed ==
    ASSUME TypeOK, RegistryMatchesHandlers
    PROVE  /\ \A client \in clients :
                 /\ client.stream \in Streams /\ client.id \in Nat
                 /\ client = [id |-> client.id, stream |-> client.stream]
                 /\ stream[client.stream].handler \in Serving
                 /\ client.id = stream[client.stream].id
           /\ \A c \in Streams : stream[c].handler \in Serving =>
                 [id |-> stream[c].id, stream |-> c] \in clients
<1>1. \A client \in clients :
         /\ client.stream \in Streams /\ client.id \in Nat
         /\ client = [id |-> client.id, stream |-> client.stream]
  BY DEF TypeOK
<1>2. \A client \in clients : stream[client.stream].handler \in Serving
                              /\ client.id = stream[client.stream].id
  BY DEF RegistryMatchesHandlers, Registered, Serving
<1>3. ASSUME NEW c \in Streams, stream[c].handler \in Serving
      PROVE  [id |-> stream[c].id, stream |-> c] \in clients
  <2>1. PICK client \in clients : client.stream = c
    BY <1>3 DEF RegistryMatchesHandlers, Registered, Serving
  <2> QED  BY <1>1, <1>2, <2>1
<1> QED  BY <1>1, <1>2, <1>3

\* A step makes the registry right when it leaves exactly the pairs of the
\* streams served.
LEMMA RegistryFromEntries ==
    ASSUME clients' = {[id |-> stream'[c].id, stream |-> c] :
                          c \in {d \in Streams : stream'[d].handler \in Serving}},
           \A c, d \in Streams :
              /\ stream'[c].handler \in Serving /\ stream'[d].handler \in Serving
              /\ stream'[c].id = stream'[d].id
              => c = d
    PROVE  RegistryMatchesHandlers'
<1> DEFINE served == {d \in Streams : stream'[d].handler \in Serving}
<1>1. {client.stream : client \in clients'} = served
  <2>1. ASSUME NEW c \in served
        PROVE  c \in {client.stream : client \in clients'}
    <3>1. [id |-> stream'[c].id, stream |-> c] \in clients'
      BY <2>1
    <3>2. [id |-> stream'[c].id, stream |-> c].stream = c
      OBVIOUS
    <3> QED  BY <3>1, <3>2
  <2>2. ASSUME NEW client \in clients'
        PROVE  client.stream \in served
    OBVIOUS
  <2> QED  BY <2>1, <2>2
<1>2. \A client \in clients' : client.id = stream'[client.stream].id
  OBVIOUS
<1>3. \A x, y \in clients' : x.id = y.id => x = y
  OBVIOUS
<1> QED  BY <1>1, <1>2, <1>3 DEF RegistryMatchesHandlers, Registered, Serving

LEMMA EntriesFromRegistry ==
    ASSUME TypeOK, RegistryMatchesHandlers
    PROVE  clients = {[id |-> stream[c].id, stream |-> c] :
                         c \in {d \in Streams : stream[d].handler \in Serving}}
BY EntriesAreServed

\* Steps that leave ids alone and neither begin nor end serving a stream.
LEMMA RegistryFrame ==
    ASSUME TypeOK, RegistryMatchesHandlers, IdsAreUnique,
           clients' = clients, nextId' = nextId,
           \A d \in Streams :
               /\ stream'[d].id = stream[d].id
               /\ \/ stream'[d].handler = stream[d].handler
                  \/ /\ stream[d].handler \in Serving
                     /\ stream'[d].handler \in Serving
                  \/ /\ stream[d].handler \notin Numbered
                     /\ stream'[d].handler \notin Numbered
    PROVE  RegistryMatchesHandlers' /\ IdsAreUnique'
<1>1. IdsAreUnique'
  BY DEF IdsAreUnique, Numbered
<1>2. \A d \in Streams :
         stream'[d].handler \in Serving <=> stream[d].handler \in Serving
  BY DEF Numbered
<1>3. clients' = {[id |-> stream'[c].id, stream |-> c] :
                     c \in {d \in Streams : stream'[d].handler \in Serving}}
  BY <1>2, EntriesFromRegistry
<1>4. RegistryMatchesHandlers'
  BY <1>1, <1>3, RegistryFromEntries DEF IdsAreUnique, Numbered
<1> QED  BY <1>1, <1>4
\* Each step of a handler keeps the registry right: registration adds the pair
\* of a stream whose id nobody else holds, and removal takes just its own.
LEMMA RegistryHandlerStep ==
    ASSUME TypeOK, RegistryMatchesHandlers, IdsAreUnique,
           NEW c \in Streams, Handler(c)
    PROVE  RegistryMatchesHandlers' /\ IdsAreUnique'
<1> DEFINE s == stream[c]  r == stream'[c]
<1>1. \A d \in Streams : d # c => stream'[d] = stream[d]
  BY HandlerIsLocal
<1>2. s \in StreamRecord /\ nextId \in Nat /\ Outcome(c, s, r)
  BY HandlerSteps DEF TypeOK, StreamRecord
<1>3. clients = {[id |-> stream[d].id, stream |-> d] :
                    d \in {e \in Streams : stream[e].handler \in Serving}}
  BY EntriesFromRegistry
<1>4. \A d, e \in Streams : /\ stream[d].handler \in Numbered
                            /\ stream[e].handler \in Numbered
                            /\ stream[d].id = stream[e].id
                            => d = e
  BY DEF IdsAreUnique
<1>5. \A d \in Streams : stream[d].handler \in Numbered => stream[d].id < nextId
  BY DEF IdsAreUnique
<1>6. \A d \in Streams : stream[d].id \in Nat
  BY DEF TypeOK
<1>7. CASE s.handler = "id" /\ r = [s EXCEPT !.handler = "register", !.id = nextId]
           /\ nextId' = nextId + 1 /\ UNCHANGED clients
  <2>1. r.handler = "register" /\ r.id = nextId
    BY <1>2, <1>7 DEF StreamRecord
  <2>2. IdsAreUnique'
    <3>1. ASSUME NEW d \in Streams, stream'[d].handler \in Numbered
          PROVE  stream'[d].id < nextId'
      <4>0. nextId \in Nat /\ nextId' = nextId + 1
        BY <1>2, <1>7
      <4>1. CASE d = c  BY <2>1, <4>0, <4>1
      <4>2. CASE d # c
        <5>1. stream'[d].id < nextId /\ stream'[d].id \in Nat
          BY <1>1, <1>5, <1>6, <3>1, <4>2
        <5> QED  BY <4>0, <5>1
      <4> QED  BY <4>1, <4>2
    <3>2. ASSUME NEW d \in Streams, NEW e \in Streams,
                 stream'[d].handler \in Numbered, stream'[e].handler \in Numbered,
                 stream'[d].id = stream'[e].id
          PROVE  d = e
      <4>1. d # c => stream'[d].id < nextId
        BY <1>1, <1>5, <3>2
      <4>2. e # c => stream'[e].id < nextId
        BY <1>1, <1>5, <3>2
      <4> QED  BY <1>1, <1>2, <1>4, <2>1, <3>2, <4>1, <4>2
    <3> QED  BY <3>1, <3>2 DEF IdsAreUnique
  <2>3. \A d \in Streams : stream'[d].handler \in Serving
            <=> stream[d].handler \in Serving
    BY <1>1, <1>7, <2>1 DEF Serving
  <2>4. \A d \in Streams : stream[d].handler \in Serving => stream'[d] = stream[d]
    BY <1>1, <1>7 DEF Serving
  <2>5. clients' = {[id |-> stream'[d].id, stream |-> d] :
                       d \in {e \in Streams : stream'[e].handler \in Serving}}
    BY <1>3, <1>7, <2>3, <2>4
  <2> QED  BY <2>2, <2>5, RegistryFromEntries DEF IdsAreUnique, Numbered
<1>8. CASE /\ s.handler = "register"
           /\ r = [s EXCEPT !.handler = "waiting", !.since = buildState.version]
           /\ clients' = clients \cup {[id |-> s.id, stream |-> c]}
           /\ UNCHANGED nextId
  <2>1. r.handler = "waiting" /\ r.id = s.id
    BY <1>2, <1>8 DEF StreamRecord
  <2>2. \A d \in Streams : stream'[d].id = stream[d].id
            /\ (stream'[d].handler \in Numbered <=> stream[d].handler \in Numbered)
    BY <1>1, <1>8, <2>1 DEF Numbered, Serving
  <2>3. IdsAreUnique'
    BY <1>4, <1>5, <1>8, <2>2 DEF IdsAreUnique
  <2>4. \A d \in Streams : stream'[d].handler \in Serving
            <=> d = c \/ stream[d].handler \in Serving
    BY <1>1, <2>1 DEF Serving
  <2>5. clients' = {[id |-> stream'[d].id, stream |-> d] :
                       d \in {e \in Streams : stream'[e].handler \in Serving}}
    BY <1>3, <1>8, <2>2, <2>4
  <2> QED  BY <2>3, <2>5, RegistryFromEntries DEF IdsAreUnique, Numbered
<1>9. CASE /\ s.handler = "leaving"
           /\ r = [s EXCEPT !.handler = "done", !.closed = TRUE, !.queued = FALSE]
           /\ clients' = {client \in clients : client.id # s.id}
           /\ UNCHANGED nextId
  <2>1. r.handler = "done"
    BY <1>2, <1>9 DEF StreamRecord
  <2>2. \A d \in Streams : stream'[d].handler \in Numbered
            <=> d # c /\ stream[d].handler \in Numbered
    BY <1>1, <2>1 DEF Numbered, Serving
  <2>3. IdsAreUnique'
    BY <1>1, <1>4, <1>5, <1>9, <2>2 DEF IdsAreUnique
  <2>4. \A d \in Streams : stream'[d].handler \in Serving
            <=> d # c /\ stream[d].handler \in Serving
    BY <1>1, <2>1 DEF Serving
  <2>5. \A d \in Streams : stream[d].handler \in Serving =>
            (stream[d].id # s.id <=> d # c)
    BY <1>4, <1>9 DEF Numbered, Serving
  <2>6. clients' = {[id |-> stream[d].id, stream |-> d] :
                       d \in {e \in Streams : e # c /\ stream[e].handler \in Serving}}
    BY <1>3, <1>9, <2>5
  <2>7. clients' = {[id |-> stream'[d].id, stream |-> d] :
                       d \in {e \in Streams : stream'[e].handler \in Serving}}
    BY <1>1, <2>4, <2>6
  <2> QED  BY <2>3, <2>7, RegistryFromEntries DEF IdsAreUnique, Numbered
<1>10. CASE /\ UNCHANGED Registry /\ r.id = s.id
            /\ \/ s.handler \in Serving /\ r.handler \in Serving
               \/ s.handler \notin Numbered /\ r.handler \notin Numbered
  BY <1>1, <1>10, RegistryFrame DEF Registry
<1> HIDE DEF s, r
<1> QED
  BY <1>2, <1>7, <1>8, <1>9, <1>10 DEF Outcome, StreamRecord, Serving, Numbered

LEMMA RegistryStep ==
    ASSUME ReloadAssumption, TypeOK, RegistryMatchesHandlers, IdsAreUnique, Next
    PROVE  RegistryMatchesHandlers' /\ IdsAreUnique'
<1>1. CASE FillOutput \/ \E stamp : WriteOutput(stamp) \/ \E ok : Publish(ok, stamp)
  BY <1>1, RegistryFrame DEF WriteOutput, FillOutput, Publish, streamVars
<1>2. CASE Broadcast
  <2>1. clients' = clients
    BY <1>2, EntriesAreServed DEF Broadcast, Serving
  <2>2. ASSUME NEW d \in Streams
        PROVE  /\ stream'[d].id = stream[d].id
               /\ stream'[d].handler = stream[d].handler
    <3>1. stream[d] \in StreamRecord  BY DEF TypeOK, StreamRecord
    <3>2. PICK told \in BOOLEAN : stream'[d] = [stream[d] EXCEPT !.queued = told]
      BY <1>2, BroadcastEffect
    <3> QED  BY <3>1, <3>2 DEF StreamRecord
  <2> QED  BY <1>2, <2>1, <2>2, RegistryFrame DEF Broadcast
<1>3. ASSUME NEW c \in Streams, Handler(c)
      PROVE  RegistryMatchesHandlers' /\ IdsAreUnique'
  BY <1>3, RegistryHandlerStep
<1>4. ASSUME NEW t \in Tabs, Open(t) \/ TakeSnapshot(t) \/ ServePage(t)
      PROVE  RegistryMatchesHandlers' /\ IdsAreUnique'
  BY <1>4, RegistryFrame DEF Open, TakeSnapshot, ServePage, streamVars
<1>5. ASSUME NEW t \in Tabs, Connect(t)
      PROVE  RegistryMatchesHandlers' /\ IdsAreUnique'
  <2>1. PICK c \in Streams : ConnectTo(t, c)
    BY <1>5, ConnectEffect
  <2>2. \A d \in Streams :
           /\ stream'[d].id = stream[d].id
           /\ \/ stream'[d].handler = stream[d].handler
              \/ stream[d].handler \notin Numbered /\ stream'[d].handler \notin Numbered
    BY <2>1 DEF ConnectTo, TypeOK, Numbered, Serving
  <2> QED  BY <2>1, <2>2, RegistryFrame DEF ConnectTo
<1>6. ASSUME NEW t \in Tabs, Reload(t) \/ Close(t)
      PROVE  RegistryMatchesHandlers' /\ IdsAreUnique'
  <2>1. Disconnect(t) /\ UNCHANGED <<clients, nextId>>
    BY <1>6 DEF Reload, Close
  <2>2. ASSUME NEW d \in Streams
        PROVE  /\ stream'[d].id = stream[d].id
               /\ stream'[d].handler = stream[d].handler
    <3>1. stream[d] \in StreamRecord  BY DEF TypeOK, StreamRecord
    <3>2. \/ stream'[d] = stream[d]
          \/ stream'[d] = [stream[d] EXCEPT !.closed = TRUE, !.inbox = FALSE]
      BY <2>1, DisconnectEffect
    <3> QED  BY <3>1, <3>2 DEF StreamRecord
  <2> QED  BY <2>1, <2>2, RegistryFrame
<1> QED  BY <1>1, <1>2, <1>3, <1>4, <1>5, <1>6 DEF Next, Browse
-----------------------------------------------------------------------------
(* Events and the tabs they reach.                                         *)

LEMMA UnmissedStreams ==
    ASSUME RegistryMatchesHandlers, NoReloadIsLost
    PROVE  \A c \in Streams :
               Unmissed(stream[c], buildState.version, builder = "broadcast")
BY DEF RegistryMatchesHandlers, NoReloadIsLost, ReloadPending, Unmissed

LEMMA NothingMissed ==
    ASSUME RegistryMatchesHandlers',
           \A c \in Streams :
               Unmissed(stream'[c], buildState'.version, builder' = "broadcast")
    PROVE  NoReloadIsLost'
BY DEF RegistryMatchesHandlers, NoReloadIsLost, ReloadPending, Unmissed

\* What a step of a handler means for the events and the connection.
LEMMA HandlerDelivers ==
    ASSUME NEW c, NEW s \in StreamRecord, NEW r \in StreamRecord, Outcome(c, s, r),
           NEW v \in Nat, v = buildState.version, NEW b \in BOOLEAN,
           Unmissed(s, v, b),
           s.handler \in Early => ~s.queued /\ ~s.inbox
    PROVE  /\ Unmissed(r, v, b)
           /\ r.handler \in Early => ~r.queued /\ ~r.inbox
           /\ s.handler # "unused" /\ r.handler # "unused" /\ s.handler # "done"
           /\ r.closed => s.closed \/ r.handler = "done"
           /\ r.queued \/ r.inbox \/ r.handler = "writing"
              => s.queued \/ s.inbox \/ s.handler = "writing"
<1> USE DEF Outcome, StreamRecord, Early, Unmissed
<1>1. /\ s.handler # "unused" /\ r.handler # "unused" /\ s.handler # "done"
  OBVIOUS
<1>2. r.closed => s.closed \/ r.handler = "done"
  OBVIOUS
<1>3. r.queued \/ r.inbox \/ r.handler = "writing"
      => s.queued \/ s.inbox \/ s.handler = "writing"
  OBVIOUS
<1>4. r.handler \in Early => ~r.queued /\ ~r.inbox
  <2>1. r.handler \in Early =>
           s.handler \in Early /\ r.queued = s.queued /\ r.inbox = s.inbox
    <3>1. ASSUME r.handler \in Early
          PROVE  /\ s.handler \in {"accepted", "id"}
                 /\ \/ r = [s EXCEPT !.handler = "id", !.reset = s.closed]
                    \/ r = [s EXCEPT !.handler = "register", !.id = nextId]
      BY <3>1
    <3> QED  BY <3>1
  <2> QED  BY <2>1
<1>5. Unmissed(r, v, b)
  <2>1. SUFFICES ASSUME r.handler \in {"waiting", "writing"}, ~r.closed, v > r.since,
                        r.handler # "writing"
                 PROVE  r.queued \/ r.inbox \/ b
    OBVIOUS
  <2>2. r.handler = "waiting"
    BY <2>1
  <2>3. \/ s.handler = "register" /\ r.since = v
        \/ s.handler = "writing" /\ ~s.closed /\ r.inbox
        \/ /\ s.handler = "waiting" /\ r.closed = s.closed
           /\ r.since = s.since /\ r.queued = s.queued /\ r.inbox = s.inbox
    BY <2>1, <2>2
  <2> QED  BY <2>1, <2>3
<1> QED  BY <1>1, <1>2, <1>3, <1>4, <1>5
\* The same, of a stream of the state.
LEMMA HandlerStepDelivers ==
    ASSUME TypeOK, StreamsAreQuiet, NEW c \in Streams, Handler(c)
    PROVE  /\ Unmissed(stream'[c], buildState.version, builder = "broadcast")
           /\ stream'[c].handler \in Early
              => ~stream'[c].queued /\ ~stream'[c].inbox
           /\ stream[c].handler # "done" /\ stream'[c].handler # "unused"
           /\ stream'[c].closed => stream[c].closed \/ stream'[c].handler = "done"
           /\ stream'[c].queued \/ stream'[c].inbox \/ stream'[c].handler = "writing"
              => stream[c].queued \/ stream[c].inbox \/ stream[c].handler = "writing"
<1> DEFINE s == stream[c]  r == stream'[c]
           v == buildState.version  b == builder = "broadcast"
<1>1. s \in StreamRecord /\ r \in StreamRecord
  BY HandlerKeepsTypes DEF TypeOK, StreamRecord
<1>2. v \in Nat /\ b \in BOOLEAN
  BY DEF TypeOK
<1>3. Outcome(c, s, r)
  BY HandlerSteps
<1>4. Unmissed(s, v, b) /\ (s.handler \in Early => ~s.queued /\ ~s.inbox)
  BY DEF StreamsAreQuiet
<1>5. v = buildState.version
  OBVIOUS
<1>6. /\ Unmissed(r, v, b)
      /\ r.handler \in Early => ~r.queued /\ ~r.inbox
      /\ s.handler # "unused" /\ r.handler # "unused" /\ s.handler # "done"
      /\ r.closed => s.closed \/ r.handler = "done"
      /\ r.queued \/ r.inbox \/ r.handler = "writing"
         => s.queued \/ s.inbox \/ s.handler = "writing"
  <2> HIDE DEF s, r, v, b
  <2> QED  BY <1>1, <1>2, <1>3, <1>4, <1>5, HandlerDelivers
<1> QED  BY <1>6

LEMMA StreamsStep ==
    ASSUME ReloadAssumption, TypeOK, RegistryMatchesHandlers, StreamsAreQuiet,
           TabsOwnStreams, Next
    PROVE  StreamsAreQuiet'
<1> USE DEF StreamsAreQuiet
<1>0. /\ stream \in [Streams -> StreamRecord]
      /\ buildState.version \in Nat
  BY DEF TypeOK, StreamRecord
<1>1. CASE FillOutput \/ \E stamp : WriteOutput(stamp)
  BY <1>1 DEF WriteOutput, FillOutput, streamVars, Unmissed
<1>2. CASE \E ok, stamp : Publish(ok, stamp)
  BY <1>2 DEF Publish, streamVars, Unmissed
<1>3. CASE Broadcast
  <2>1. SUFFICES ASSUME NEW c \in Streams
                 PROVE  StreamsAreQuiet!(c)'
    OBVIOUS
  <2>2. UNCHANGED buildState
    BY <1>3 DEF Broadcast
  <2>3. PICK told \in BOOLEAN :
           /\ told <=> stream[c].queued \/ (/\ c \in Registered
                                           /\ stream[c].handler # "done")
           /\ stream'[c] = [stream[c] EXCEPT !.queued = told]
    BY <1>3, BroadcastEffect
  <2>4. c \in Registered <=> stream[c].handler \in Serving
    BY DEF RegistryMatchesHandlers, Serving
  <2>5. /\ stream'[c].handler = stream[c].handler
        /\ stream'[c].inbox = stream[c].inbox
        /\ stream'[c].closed = stream[c].closed
        /\ stream'[c].since = stream[c].since
        /\ stream'[c].queued = told
    BY <1>0, <2>3 DEF StreamRecord
  <2>6. stream[c].handler \in {"waiting", "writing"} => told
    BY <2>3, <2>4 DEF Serving
  <2>7. stream[c].handler \in Early => ~told
    BY <2>3, <2>4 DEF Serving, Early
  <2> QED  BY <2>2, <2>5, <2>6, <2>7 DEF Unmissed
<1>4. ASSUME NEW c \in Streams, Handler(c)
      PROVE  StreamsAreQuiet'
  <2>1. /\ UNCHANGED serverVars
        /\ \A d \in Streams : d # c => stream'[d] = stream[d]
    BY <1>4, HandlerIsLocal
  <2>2. /\ Unmissed(stream'[c], buildState.version, builder = "broadcast")
        /\ stream'[c].handler \in Early
           => ~stream'[c].queued /\ ~stream'[c].inbox
        /\ stream'[c].handler # "unused"
    BY <1>4, HandlerStepDelivers
  <2> QED  BY <2>1, <2>2 DEF serverVars
<1>5. ASSUME NEW t \in Tabs, Open(t) \/ TakeSnapshot(t) \/ ServePage(t)
      PROVE  StreamsAreQuiet'
  BY <1>5 DEF Open, TakeSnapshot, ServePage, streamVars, serverVars
<1>6. ASSUME NEW t \in Tabs, Connect(t)
      PROVE  StreamsAreQuiet'
  <2>1. PICK c \in Streams : ConnectTo(t, c)
    BY <1>6, ConnectEffect
  <2>2. /\ stream'[c].handler = "accepted"
        /\ stream'[c].queued = stream[c].queued
        /\ stream'[c].inbox = stream[c].inbox
        /\ \A d \in Streams : d # c => stream'[d] = stream[d]
        /\ stream[c].handler = "unused" /\ UNCHANGED serverVars
    BY <1>0, <2>1 DEF ConnectTo, StreamRecord
  <2> QED  BY <2>2 DEF Unmissed, Early, serverVars
<1>7. ASSUME NEW t \in Tabs, Reload(t) \/ Close(t)
      PROVE  StreamsAreQuiet'
  <2>1. Disconnect(t) /\ UNCHANGED serverVars
    BY <1>7 DEF Reload, Close
  <2>2. ASSUME NEW d \in Streams
        PROVE  \/ stream'[d] = stream[d]
               \/ stream'[d] = [stream[d] EXCEPT !.closed = TRUE, !.inbox = FALSE]
    BY <2>1, DisconnectEffect
  <2>3. ASSUME NEW d \in Streams, d # tab[t].stream
        PROVE  StreamsAreQuiet!(d)'
    <3>1. stream'[d] = stream[d]
      BY <2>1, <2>3, DisconnectEffect
    <3> QED  BY <2>1, <3>1 DEF serverVars
  <2>4. ASSUME NEW d \in Streams, d = tab[t].stream
        PROVE  StreamsAreQuiet!(d)'
    <3>1. stream[d].handler # "unused"
      BY <2>4 DEF TabsOwnStreams, Streams, NoStream
    <3>2. stream'[d] = [stream[d] EXCEPT !.closed = TRUE, !.inbox = FALSE]
      BY <2>1, <2>4, DisconnectEffect
    <3>3. /\ stream'[d].handler = stream[d].handler /\ stream'[d].closed
          /\ stream'[d].queued = stream[d].queued /\ ~stream'[d].inbox
      BY <1>0, <3>2 DEF StreamRecord
    <3> QED  BY <3>1, <3>3 DEF Unmissed
  <2> QED  BY <2>3, <2>4
<1> QED  BY <1>1, <1>2, <1>3, <1>4, <1>5, <1>6, <1>7 DEF Next, Browse
LEMMA TabsStep ==
    ASSUME ReloadAssumption, TypeOK, RegistryMatchesHandlers, StreamsAreQuiet,
           TabsOwnStreams, ReloadsAreBroadcasts, Next
    PROVE  TabsOwnStreams' /\ ReloadsAreBroadcasts'
<1>0. /\ stream \in [Streams -> StreamRecord] /\ tab \in [Tabs -> TabRecord]
      /\ buildState.version \in Nat /\ reloads \in [Tabs -> Nat]
      /\ NoStream \notin Streams
      /\ \A t \in Tabs : tab[t].stream # NoStream => tab[t].stream \in Streams
  BY DEF TypeOK, StreamRecord, TabRecord, Streams, NoStream
<1>1. CASE FillOutput \/ \E stamp : WriteOutput(stamp)
  BY <1>1 DEF WriteOutput, FillOutput, streamVars, TabsOwnStreams, ReloadsAreBroadcasts, EventAhead
<1>2. CASE \E ok, stamp : Publish(ok, stamp)
  <2>1. /\ buildState'.version = buildState.version + 1 /\ builder' = "broadcast"
        /\ builder # "broadcast" /\ UNCHANGED <<streamVars, tab, reloads>>
    BY <1>2 DEF Publish
  <2>2. \A t \in Tabs : EventAhead(t)' <=> EventAhead(t)
    BY <2>1 DEF EventAhead, streamVars
  <2>3. ReloadsAreBroadcasts'
    BY <1>0, <2>1, <2>2 DEF ReloadsAreBroadcasts
  <2> QED  BY <2>1, <2>3 DEF TabsOwnStreams, streamVars
<1>3. CASE Broadcast
  <2>1. builder = "broadcast" /\ builder' = "idle" /\ UNCHANGED <<buildState, tab, reloads>>
    BY <1>3 DEF Broadcast
  <2>2. ASSUME NEW c \in Streams
        PROVE  /\ stream'[c].handler = stream[c].handler
               /\ stream'[c].closed = stream[c].closed
    <3>1. PICK told \in BOOLEAN : stream'[c] = [stream[c] EXCEPT !.queued = told]
      BY <1>3, BroadcastEffect
    <3> QED  BY <1>0, <3>1 DEF StreamRecord
  <2>3. TabsOwnStreams'
    BY <1>0, <2>1, <2>2 DEF TabsOwnStreams
  <2>4. ASSUME NEW t \in Tabs
        PROVE  reloads[t] + 1 <= buildState.version
    BY <1>0, <2>1 DEF ReloadsAreBroadcasts
  <2>5. ReloadsAreBroadcasts'
    BY <1>0, <2>1, <2>4 DEF ReloadsAreBroadcasts
  <2> QED  BY <2>3, <2>5
<1>4. ASSUME NEW c \in Streams, Handler(c)
      PROVE  TabsOwnStreams' /\ ReloadsAreBroadcasts'
  <2>1. /\ UNCHANGED <<serverVars, tab, reloads>>
        /\ \A d \in Streams : d # c => stream'[d] = stream[d]
    BY <1>4, HandlerIsLocal
  <2>2. /\ stream[c].handler # "done" /\ stream'[c].handler # "unused"
        /\ stream'[c].closed => stream[c].closed \/ stream'[c].handler = "done"
        /\ stream'[c].queued \/ stream'[c].inbox \/ stream'[c].handler = "writing"
           => stream[c].queued \/ stream[c].inbox \/ stream[c].handler = "writing"
    BY <1>4, HandlerStepDelivers
  <2>3. TabsOwnStreams'
    BY <1>0, <2>1, <2>2 DEF TabsOwnStreams
  <2>4. \A t \in Tabs : EventAhead(t)' => EventAhead(t)
    BY <1>0, <2>1, <2>2 DEF EventAhead
  <2>5. ReloadsAreBroadcasts'
    BY <1>0, <2>1, <2>4 DEF ReloadsAreBroadcasts, serverVars
  <2> QED  BY <2>3, <2>5
<1>5. ASSUME NEW t \in Tabs, Open(t) \/ TakeSnapshot(t) \/ ServePage(t)
      PROVE  TabsOwnStreams' /\ ReloadsAreBroadcasts'
  <2>1. UNCHANGED <<serverVars, streamVars, reloads>>
    BY <1>5 DEF Open, TakeSnapshot, ServePage
  <2>2. \A u \in Tabs : tab'[u].stream = tab[u].stream
    <3>1. CASE Open(t)          BY <1>0, <3>1 DEF Open, TabRecord
    <3>2. CASE TakeSnapshot(t)  BY <1>0, <3>2 DEF TakeSnapshot, TabRecord
    <3>3. CASE ServePage(t)     BY <1>0, <3>3 DEF ServePage, ReadsPartial, TabRecord
    <3> QED  BY <1>5, <3>1, <3>2, <3>3
  <2> QED  BY <2>1, <2>2 DEF TabsOwnStreams, ReloadsAreBroadcasts, EventAhead,
                              serverVars, streamVars
<1>6. ASSUME NEW t \in Tabs, Connect(t)
      PROVE  TabsOwnStreams' /\ ReloadsAreBroadcasts'
  <2>1. PICK c \in Streams : ConnectTo(t, c)
    BY <1>6, ConnectEffect
  <2>2. /\ stream'[c].handler = "accepted"
        /\ stream'[c].queued = stream[c].queued
        /\ stream'[c].inbox = stream[c].inbox
        /\ stream'[c].closed = stream[c].closed
        /\ \A d \in Streams : d # c => stream'[d] = stream[d]
        /\ stream[c].handler = "unused" /\ UNCHANGED <<serverVars, reloads>>
    BY <1>0, <2>1 DEF ConnectTo, StreamRecord
  <2>3. /\ \A u \in Tabs : u # t => tab'[u] = tab[u]
        /\ tab'[t].stream = c
    BY <1>0, <2>1 DEF ConnectTo, TabRecord
  <2>4. ~stream[c].closed /\ ~stream[c].queued /\ ~stream[c].inbox
    BY <2>2 DEF StreamsAreQuiet, Early
  <2>5. \A u \in Tabs : tab[u].stream # c
    BY <1>0, <2>2 DEF TabsOwnStreams
  <2>6. TabsOwnStreams'
    BY <1>0, <2>2, <2>3, <2>4, <2>5 DEF TabsOwnStreams
  <2>7. \A u \in Tabs : EventAhead(u)' => EventAhead(u)
    BY <1>0, <2>2, <2>3, <2>4, <2>5 DEF EventAhead
  <2>8. ReloadsAreBroadcasts'
    BY <1>0, <2>2, <2>7 DEF ReloadsAreBroadcasts, serverVars
  <2> QED  BY <2>6, <2>8
<1>7. ASSUME NEW t \in Tabs, Reload(t) \/ Close(t)
      PROVE  TabsOwnStreams' /\ ReloadsAreBroadcasts'
  <2>1. Disconnect(t) /\ UNCHANGED serverVars
    BY <1>7 DEF Reload, Close
  <2>2. \A d \in Streams : d # tab[t].stream => stream'[d] = stream[d]
    BY <2>1, DisconnectEffect
  <2>3. /\ \A u \in Tabs : u # t => tab'[u] = tab[u]
        /\ tab'[t].stream = NoStream
    BY <1>0, <1>7 DEF Reload, Close, TabRecord
  <2>4. TabsOwnStreams'
    BY <1>0, <2>2, <2>3 DEF TabsOwnStreams
  <2>5. ASSUME NEW u \in Tabs, u # t
        PROVE  (EventAhead(u)' <=> EventAhead(u)) /\ reloads'[u] = reloads[u]
    <3>1. tab[u].stream # NoStream => stream'[tab[u].stream] = stream[tab[u].stream]
      BY <1>0, <2>2, <2>5 DEF TabsOwnStreams
    <3>2. reloads'[u] = reloads[u]
      BY <1>0, <1>7, <2>5 DEF Reload, Close
    <3> QED  BY <2>3, <2>5, <3>1, <3>2 DEF EventAhead
  <2>6. ~EventAhead(t)'
    BY <2>3 DEF EventAhead
  <2>7. \/ reloads'[t] = reloads[t]
        \/ EventAhead(t) /\ reloads'[t] = reloads[t] + 1
    BY <1>0, <1>7 DEF Reload, Close, EventAhead
  <2>8. ASSUME NEW u \in Tabs
        PROVE  reloads'[u] + (IF EventAhead(u)' THEN 1 ELSE 0)
                 <= reloads[u] + (IF EventAhead(u) THEN 1 ELSE 0)
    BY <1>0, <2>5, <2>6, <2>7
  <2>9. \A u \in Tabs : reloads'[u] \in Nat
    BY <1>0, <2>5, <2>7
  <2>10. ReloadsAreBroadcasts'
    BY <1>0, <2>1, <2>8, <2>9 DEF ReloadsAreBroadcasts, serverVars
  <2> QED  BY <2>4, <2>10
<1> QED  BY <1>1, <1>2, <1>3, <1>4, <1>5, <1>6, <1>7 DEF Next, Browse
-----------------------------------------------------------------------------
(* Pages.                                                                  *)

\* What PagesFollowBuilds asks of a tab p when out is the output and b the
\* build state; writing says that the builder has begun to write its output.
PageInOrder(p, out, b, writing) ==
    /\ p.snapshot.version <= b.version
    /\ p.asked <= b.stamp
    /\ p.phase \in {"served", "shown", "broken"} =>
          /\ p.asked <= p.snapshot.stamp
          /\ p.snapshot.ok => p.snapshot.stamp <= out
          /\ p.snapshot.stamp <= b.stamp
          /\ p.snapshot.version = b.version => p.snapshot = b
    /\ p.phase \in {"shown", "broken"} =>
          /\ p.asked <= p.shown
          /\ p.shown <= b.stamp \/ p.shown <= out
          /\ p.snapshot.version = b.version /\ ~writing
                => p.shown = (IF b.ok THEN out ELSE b.stamp) /\ ~p.partial

BuildRecord == [version : Nat, ok : BOOLEAN, stamp : Nat]

LEMMA PagesInOrder ==
    PagesFollowBuilds
      <=> \A t \in Tabs : PageInOrder(tab[t], output, buildState, Writing)
BY DEF PagesFollowBuilds, PageInOrder, Current

LEMMA StampsStep ==
    ASSUME ReloadAssumption, TypeOK, StampsAreVersions, Next
    PROVE  /\ StampsAreVersions'
           /\ output <= output'
           /\ \/ buildState' = buildState /\ Writing'
              \/ /\ buildState' = buildState /\ output' = output
                 /\ Writing' = Writing
              \/ /\ buildState'.version = buildState.version + 1
                 /\ buildState.stamp <= buildState'.stamp
<1>0. buildState \in BuildRecord /\ output \in Nat
  BY DEF TypeOK, BuildRecord
<1> USE DEF Writing
<1>1. CASE WriteOutput(NextStamp)
  BY <1>0, <1>1 DEF WriteOutput, NextStamp, StampsAreVersions, BuildRecord
<1>7. CASE FillOutput
  BY <1>0, <1>7 DEF FillOutput, StampsAreVersions, BuildRecord
<1>2. ASSUME NEW ok \in BOOLEAN, Publish(ok, NextStamp)
      PROVE  /\ StampsAreVersions' /\ output' = output
             /\ buildState'.version = buildState.version + 1
             /\ buildState.stamp <= buildState'.stamp
  <2>1. /\ buildState'.version = buildState.version + 1
        /\ buildState'.stamp = buildState.version + 1
        /\ buildState'.ok = ok /\ builder' = "broadcast" /\ output' = output
        /\ partial' = partial /\ (ok => builder = "written")
    BY <1>2 DEF Publish, NextStamp
  <2> QED  BY <1>0, <2>1 DEF StampsAreVersions, BuildRecord
<1>3. CASE Broadcast
  BY <1>0, <1>3 DEF Broadcast, StampsAreVersions, BuildRecord
<1>4. CASE UNCHANGED serverVars
  BY <1>0, <1>4 DEF serverVars, StampsAreVersions, BuildRecord
<1>5. ASSUME NEW c \in Streams, Handler(c)
      PROVE  UNCHANGED serverVars
  BY <1>5, HandlerIsLocal
<1>6. ASSUME NEW t \in Tabs, Open(t) \/ Browse(t) \/ Close(t)
      PROVE  UNCHANGED serverVars
  BY <1>6 DEF Open, Browse, TakeSnapshot, ServePage, Connect, Reload, Close
<1> QED  BY <1>0, <1>1, <1>2, <1>3, <1>4, <1>5, <1>6, <1>7 DEF Next, BuildRecord

LEMMA PagesStep ==
    ASSUME ReloadAssumption, TypeOK, StampsAreVersions, PagesFollowBuilds, Next
    PROVE  PagesFollowBuilds'
<1> DEFINE InOrder(p) == PageInOrder(p, output, buildState, Writing)
           InOrderNext(p) == PageInOrder(p, output', buildState', Writing')
<1>0. /\ tab \in [Tabs -> TabRecord] /\ tab' \in [Tabs -> TabRecord]
      /\ output \in Nat /\ output' \in Nat
      /\ buildState \in BuildRecord /\ buildState' \in BuildRecord
  BY TypesStep DEF TypeOK, TabRecord, BuildRecord
<1>1. \A t \in Tabs : InOrder(tab[t])
  BY PagesInOrder
<1>2. \A t \in Tabs : InOrderNext(tab[t])
  <2>1. Writing \in BOOLEAN /\ Writing' \in BOOLEAN
    BY DEF Writing
  <2>2. /\ output <= output'
        /\ \/ buildState' = buildState /\ Writing' = TRUE
           \/ buildState' = buildState /\ output' = output /\ Writing' = Writing
           \/ /\ buildState'.version = buildState.version + 1
              /\ buildState.stamp <= buildState'.stamp
    BY <2>1, StampsStep
  <2>3. ASSUME NEW t \in Tabs  PROVE InOrderNext(tab[t])
    <3>1. tab[t] \in TabRecord /\ PageInOrder(tab[t], output, buildState, Writing)
      BY <1>0, <1>1
    <3> DEFINE w == Writing  v == Writing'
    <3>2. w \in BOOLEAN /\ v \in BOOLEAN
      BY <2>1
    <3> HIDE DEF w, v
    <3>3. PageInOrder(tab[t], output, buildState, w)
      BY <3>1 DEF w
    <3>4. \/ buildState' = buildState /\ v = TRUE
          \/ buildState' = buildState /\ output' = output /\ v = w
          \/ /\ buildState'.version = buildState.version + 1
             /\ buildState.stamp <= buildState'.stamp
      BY <2>2 DEF v, w
    <3>5. PageInOrder(tab[t], output', buildState', v)
      BY <1>0, <2>2, <3>1, <3>2, <3>3, <3>4 DEF PageInOrder, TabRecord, BuildRecord
    <3> QED  BY <3>5 DEF v
  <2> QED  BY <2>3
<1>3. SUFFICES \A t \in Tabs : InOrderNext(tab'[t])
  BY DEF PagesFollowBuilds, PageInOrder, Current
<1>4. CASE UNCHANGED tab
  BY <1>2, <1>4
<1>5. ASSUME NEW t \in Tabs, UNCHANGED serverVars,
             \A u \in Tabs : u # t => tab'[u] = tab[u],
             InOrder(tab'[t])
      PROVE  \A u \in Tabs : InOrderNext(tab'[u])
  BY <1>1, <1>5 DEF serverVars, Writing
<1>6. ASSUME NEW t \in Tabs, Open(t) \/ Browse(t) \/ Close(t)
      PROVE  \A u \in Tabs : InOrderNext(tab'[u])
  <2>1. UNCHANGED serverVars
    BY <1>6 DEF Open, Browse, TakeSnapshot, ServePage, Connect, Reload, Close
  <2>2. \A u \in Tabs : u # t => tab'[u] = tab[u]
    BY <1>0, <1>6 DEF Open, Browse, TakeSnapshot, ServePage, Connect, Reload, Close
  <2> DEFINE p == tab[t]  q == tab'[t]
  <2>3. p \in TabRecord /\ q \in TabRecord /\ InOrder(p)
    BY <1>0, <1>1
  <2>4. \/ /\ p.phase \in {"blank", "shown"} /\ q.phase = "requested"
           /\ q.asked = buildState.stamp /\ q.snapshot = p.snapshot
        \/ /\ p.phase = "requested" /\ q.phase = "served"
           /\ q.asked = p.asked /\ q.snapshot = buildState
        \/ /\ p.phase = "served" /\ q.phase \in {"shown", "broken"}
           /\ q.asked = p.asked /\ q.snapshot = p.snapshot
           /\ q.shown = IF p.snapshot.ok THEN output ELSE p.snapshot.stamp
           /\ q.partial = (p.snapshot.ok /\ partial)
        \/ /\ p.phase \in {"shown", "broken"} /\ q.phase \in {p.phase, "gone"}
           /\ q.asked = p.asked /\ q.snapshot = p.snapshot /\ q.shown = p.shown
           /\ q.partial = p.partial
    <3>1. CASE Open(t)          BY <1>0, <3>1 DEF Open, TabRecord
    <3>2. CASE TakeSnapshot(t)  BY <1>0, <3>2 DEF TakeSnapshot, TabRecord
    <3>3. CASE ServePage(t)     BY <1>0, <3>3 DEF ServePage, ReadsPartial, TabRecord
    <3>4. CASE Connect(t)       BY <1>0, <3>4 DEF Connect, TabRecord
    <3>5. CASE Reload(t)        BY <1>0, <3>5 DEF Reload, TabRecord
    <3>6. CASE Close(t)         BY <1>0, <3>6 DEF Close, TabRecord
    <3> QED  BY <1>6, <3>1, <3>2, <3>3, <3>4, <3>5, <3>6 DEF Browse
  <2>5. InOrder(q)
    <3> HIDE DEF p, q
    <3> QED  BY <1>0, <2>3, <2>4 DEF PageInOrder, TabRecord, BuildRecord, StampsAreVersions
  <2> QED  BY <1>5, <2>1, <2>2, <2>5
<1>7. ASSUME NEW c \in Streams, Handler(c)
      PROVE  UNCHANGED tab
  BY <1>7, HandlerIsLocal
<1>8. CASE \/ WriteOutput(NextStamp) \/ FillOutput \/ Broadcast
           \/ \E ok \in BOOLEAN : Publish(ok, NextStamp)
  BY <1>4, <1>8 DEF WriteOutput, FillOutput, Broadcast, Publish
<1> QED  BY <1>4, <1>6, <1>7, <1>8 DEF Next
-----------------------------------------------------------------------------
(* The theorems.                                                           *)

LEMMA ReloadInit == ReloadAssumption /\ Init => ReloadInv
<1> SUFFICES ASSUME ReloadAssumption, Init  PROVE ReloadInv
  OBVIOUS
<1>1. TypeOK
  BY DEF Init, TypeOK, UnusedStream
<1>2. \A c \in Streams : stream[c] = UnusedStream
  BY DEF Init
<1>3. \A t \in Tabs : tab[t] = [phase |-> "blank", snapshot |-> buildState,
                                shown |-> 0, partial |-> FALSE, asked |-> 0,
                                stream |-> NoStream]
  BY DEF Init
<1>4. RegistryMatchesHandlers /\ IdsAreUnique
  BY <1>2 DEF Init, RegistryMatchesHandlers, Registered, IdsAreUnique,
              UnusedStream, Numbered, Serving
<1>5. StreamsAreQuiet
  BY <1>2 DEF StreamsAreQuiet, Unmissed, UnusedStream
<1>6. TabsOwnStreams /\ ReloadsAreBroadcasts
  BY <1>3 DEF Init, TabsOwnStreams, ReloadsAreBroadcasts, EventAhead
<1>7. StampsAreVersions /\ PagesFollowBuilds
  BY <1>3 DEF Init, Writing, StampsAreVersions, PagesFollowBuilds
<1> QED  BY <1>1, <1>4, <1>5, <1>6, <1>7 DEF ReloadInv

LEMMA ReloadStep == ReloadAssumption /\ ReloadInv /\ [Next]_vars => ReloadInv'
<1>1. ASSUME ReloadAssumption, ReloadInv, Next
      PROVE  ReloadInv'
  BY <1>1, TypesStep, RegistryStep, StreamsStep, TabsStep, StampsStep, PagesStep
     DEF ReloadInv
<1>2. ASSUME ReloadInv, UNCHANGED vars
      PROVE  ReloadInv'
  BY <1>2 DEF ReloadInv, vars, serverVars, streamVars, TypeOK,
     RegistryMatchesHandlers, Registered, IdsAreUnique, StreamsAreQuiet,
     TabsOwnStreams, ReloadsAreBroadcasts, EventAhead, StampsAreVersions,
     Writing, PagesFollowBuilds, Current
<1> QED  BY <1>1, <1>2

\* The inductive invariant of the server, its streams and the browser tabs
\* (state.rs, sse.rs, http.rs and the publication in build_loop.rs).
THEOREM ReloadInvariant == Spec => []ReloadInv
<1>1. Init => ReloadInv
  BY ReloadInit, ReloadAssumption
<1>2. ReloadInv /\ [Next]_vars => ReloadInv'
  BY ReloadStep, ReloadAssumption
<1> QED  BY <1>1, <1>2, PTL DEF Spec

\* However many tabs connect and leave in whatever order, the registry holds
\* exactly the streams being served, each under an id of its own, although ids
\* are taken outside its lock (register_client and remove_client).
THEOREM RegistryMatchesHandlersHolds == Spec => []RegistryMatchesHandlers
<1>1. ReloadInv => RegistryMatchesHandlers
  BY DEF ReloadInv
<1> QED  BY <1>1, ReloadInvariant, PTL

\* A channel of capacity one loses no reload (broadcast_reload's try_send).
THEOREM NoReloadIsLostHolds == Spec => []NoReloadIsLost
<1>1. ReloadInv => NoReloadIsLost
  BY DEF ReloadInv, StreamsAreQuiet, RegistryMatchesHandlers, NoReloadIsLost,
         ReloadPending, Unmissed
<1> QED  BY <1>1, ReloadInvariant, PTL

\* No reload loop: a tab reloads at most once per build, however often its
\* stream breaks and reconnects (handle_sse_connection, dev_client.rs).
THEOREM ReloadsBoundedByBuildsHolds == Spec => []ReloadsBoundedByBuilds
<1>1. ReloadInv => ReloadsBoundedByBuilds
  BY DEF ReloadInv, ReloadsAreBroadcasts, ReloadsBoundedByBuilds, TypeOK
<1> QED  BY <1>1, ReloadInvariant, PTL

\* A page is never older than the build published when the browser asked for
\* it (handle_connection's snapshot and the file it reads later).
THEOREM PagesAreRecentHolds == Spec => []PagesAreRecent
<1>1. ReloadInv => PagesAreRecent
  BY DEF ReloadInv, PagesFollowBuilds, PagesAreRecent
<1> QED  BY <1>1, ReloadInvariant, PTL

\* A tab at rest shows the last build, unless one was published between the
\* snapshot of its page and the registration of its stream.
THEOREM SettledTabIsCurrentHolds == Spec => []SettledTabIsCurrent
<1>1. ReloadInv => SettledTabIsCurrent
  <2>1. SUFFICES ASSUME ReloadInv, NEW t \in Tabs, NEW c, c = tab[t].stream,
                        builder = "idle", tab[t].phase = "shown", c # NoStream,
                        stream[c].handler = "waiting", ~ReloadPending(c),
                        stream[c].since = tab[t].snapshot.version
                 PROVE  tab[t].shown = Current /\ ~tab[t].partial
    BY DEF SettledTabIsCurrent
  <2>2. c \in Streams /\ buildState.version \in Nat /\ stream[c].since \in Nat
    BY <2>1 DEF ReloadInv, TypeOK, Streams, NoStream
  <2>3. ~stream[c].closed
    BY <2>1 DEF ReloadInv, TabsOwnStreams
  <2>4. ~(buildState.version > stream[c].since)
    BY <2>1, <2>2, <2>3 DEF ReloadInv, StreamsAreQuiet, Unmissed, ReloadPending
  <2>5. tab[t].snapshot.version = buildState.version
    BY <2>1, <2>2, <2>4 DEF ReloadInv, PagesFollowBuilds
  <2> QED  BY <2>1, <2>5 DEF ReloadInv, Writing, PagesFollowBuilds
<1> QED  BY <1>1, ReloadInvariant, PTL
=============================================================================
