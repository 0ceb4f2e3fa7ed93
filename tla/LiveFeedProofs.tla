-------------------------- MODULE LiveFeedProofs --------------------------
(***************************************************************************)
(* Proofs about LiveFeed, for every number of builds, page assets, breaks  *)
(* of the stream and events under way: it is well typed, a reload finds    *)
(* the new data, and every step of it is one that LiveView allows.         *)
(***************************************************************************)
EXTENDS LiveFeed, TLAPS

\* How far the builder is determines the stamp and the build of the data.
Numbering ==
    /\ dataJs.build <= builds
    /\ stamp <= dataJs.build * ReloadFiles
    /\ poll.pc \in {"idle", "refresh", "query", "write"}
          => dataJs.build = builds /\ stamp = builds * ReloadFiles
    /\ poll.pc \in {"build", "data", "fill"}
          => builds > 0 /\ stamp + ReloadFiles = builds * ReloadFiles
    /\ poll.pc \in {"fill", "status"} => poll.left = ReloadFiles
    /\ poll.pc \in {"status", "assets"}
          => /\ dataJs.build = builds
             /\ poll.left > 0 /\ stamp + poll.left = builds * ReloadFiles

\* Every picture of the store, on whatever way it is, was taken from the store.
Honest ==
    /\ dataJs.live => db.live
    /\ status.live => db.live
    /\ poll.read.live => db.live
    /\ mqtt.read.live => db.live
    /\ fetch.status.live => db.live
    /\ page.live => db.live
    /\ \A i \in DOMAIN events :
          events[i].type = "live-status" => (events[i].status.live => db.live)

IInv == TypeOK /\ Numbering /\ ReloadFindsNewData /\ Honest

-----------------------------------------------------------------------------
(* Lemmas.                                                                 *)

\* A further build writes as many assets as every other one.
LEMMA NextBuild ==
    ASSUME NEW n \in Nat
    PROVE  (n + 1) * ReloadFiles = n * ReloadFiles + ReloadFiles
BY FeedAssumption

\* The stamps are bounded as the builds are.
LEMMA StampBound ==
    ASSUME NEW n \in 0..MaxRebuilds, NEW s \in Nat, s <= n * ReloadFiles
    PROVE  s \in Stamps
<1>1. n * ReloadFiles <= MaxRebuilds * ReloadFiles
  BY FeedAssumption
<1>2. n * ReloadFiles \in Nat /\ MaxRebuilds * ReloadFiles \in Nat
  BY FeedAssumption
<1> QED BY <1>1, <1>2 DEF Stamps

\* What is in a queue to which an element is added, or whose head is removed.
LEMMA Appended ==
    ASSUME NEW S, NEW q \in Seq(S), NEW e \in S
    PROVE  /\ Append(q, e) \in Seq(S) /\ Len(Append(q, e)) = Len(q) + 1
           /\ \A i \in DOMAIN Append(q, e) :
                 \/ i \in DOMAIN q /\ Append(q, e)[i] = q[i]
                 \/ Append(q, e)[i] = e
OBVIOUS

LEMMA Removed ==
    ASSUME NEW S, NEW q \in Seq(S), q # <<>>
    PROVE  /\ Head(q) \in S /\ Tail(q) \in Seq(S) /\ Len(Tail(q)) = Len(q) - 1
           /\ 1 \in DOMAIN q /\ Head(q) = q[1]
           /\ \A i \in DOMAIN Tail(q) : i + 1 \in DOMAIN q /\ Tail(q)[i] = q[i + 1]
OBVIOUS

LEMMA InitIInv == Init => IInv
<1> SUFFICES ASSUME Init PROVE IInv
  OBVIOUS
<1> USE FeedAssumption DEF Init
<1>1. 0 * ReloadFiles = 0 /\ 0 \in Stamps /\ 0 \in Layouts
  BY DEF Stamps, Layouts
<1>2. Empty \in Snapshot
  BY <1>1 DEF Empty, Snapshot
<1>3. TypeOK
  <2>1. db \in Snapshot /\ status \in Snapshot /\ builds \in 0..MaxRebuilds /\ stamp \in Stamps
    BY <1>1, <1>2
  <2>2. dataJs \in Data /\ poll \in Poller /\ mqtt \in Listener
    BY <1>1, <1>2 DEF Data, Poller, Listener
  <2>3. conn \in Connection
    BY DEF Connection, ClosedConn, NewConn
  <2>5. events \in Seq(Event) /\ Len(events) <= MaxEvents
    OBVIOUS
  <2>4. fetch \in Fetch /\ page \in PageState /\ drops \in 0..MaxDrops
    BY <1>1, <1>2 DEF Fetch, NoFetch, PageState
  <2> QED BY <2>1, <2>2, <2>3, <2>4, <2>5 DEF TypeOK
<1>4. Numbering
  BY <1>1 DEF Numbering
<1>5. Honest /\ ReloadFindsNewData
  BY DEF Honest, ReloadFindsNewData, Empty, NoFetch
<1> QED BY <1>3, <1>4, <1>5 DEF IInv

-----------------------------------------------------------------------------
(* Type correctness.                                                       *)

\* The components of the records, spelled out once.
LEMMA Fields ==
    ASSUME TypeOK
    PROVE  /\ db.layout \in Layouts /\ db.live \in BOOLEAN
           /\ status.layout \in Layouts /\ status.live \in BOOLEAN
           /\ poll.read \in Snapshot /\ poll.left \in 0..ReloadFiles
           /\ poll.read.layout \in Layouts /\ poll.read.live \in BOOLEAN
           /\ mqtt.read \in Snapshot
           /\ dataJs.build \in 0..MaxRebuilds /\ dataJs.layout \in Layouts
           /\ dataJs.live \in BOOLEAN
           /\ fetch.status \in Snapshot
           /\ Empty \in Snapshot
BY FeedAssumption, SMTT(30) DEF TypeOK, Snapshot, Poller, Listener, Data, Fetch, Empty, Layouts

LEMMA ConnTypes ==
    /\ NewConn \in Connection /\ ClosedConn \in Connection
    /\ \A c \in Connection : Touched(c) \in Connection
<1>1. NewConn \in Connection /\ ClosedConn \in Connection
  BY DEF NewConn, ClosedConn, Connection
<1>2. ASSUME NEW c \in Connection PROVE Touched(c) \in Connection
  BY DEF Touched, Connection
<1> QED BY <1>1, <1>2

\* A status applied to a page changes nothing but its picture or its reload.
LEMMA ApplyStatusType ==
    ASSUME NEW p \in PageState, NEW s \in Snapshot
    PROVE  ApplyStatus(p, s) \in PageState
BY DEF ApplyStatus, PageState, Snapshot

LEMMA PollTypes == TypeOK /\ (PollIngest \/ PollRefresh \/ PollDies) => TypeOK'
<1> SUFFICES ASSUME TypeOK, PollIngest \/ PollRefresh \/ PollDies PROVE TypeOK'
  OBVIOUS
<1> USE FeedAssumption, Fields
<1>1. CASE PollIngest
  <2>1. db' \in Snapshot /\ builds' \in 0..MaxRebuilds
    <3>1. PICK live \in {db.live, TRUE} :
            \/ db' = [db EXCEPT !.live = live] /\ builds' = builds
            \/ /\ builds < MaxRebuilds /\ builds' = builds + 1
               /\ \E layout \in {builds + 1, db.layout} :
                     db' = [layout |-> layout, live |-> live]
      BY <1>1 DEF PollIngest
    <3>2. live \in BOOLEAN /\ builds \in 0..MaxRebuilds /\ MaxRebuilds \in Nat
      BY DEF TypeOK
    <3>3. [db EXCEPT !.live = live] \in Snapshot
      BY <3>2 DEF Snapshot, TypeOK
    <3>4. ASSUME builds < MaxRebuilds, NEW layout \in {builds + 1, db.layout}
          PROVE  [layout |-> layout, live |-> live] \in Snapshot
      BY <3>2, <3>4 DEF Snapshot, Layouts
    <3>5. builds < MaxRebuilds => builds + 1 \in 0..MaxRebuilds
      BY <3>2
    <3> QED BY <3>1, <3>2, <3>3, <3>4, <3>5
  <2>2. poll' \in Poller
    BY <1>1 DEF PollIngest, Poller, TypeOK
  <2> QED BY <1>1, <2>1, <2>2 DEF PollIngest, files, browser, TypeOK
<1>2. CASE PollRefresh
  <2>1. poll' \in Poller
    <3>1. ReadData(poll) \in Poller /\ ReadStore(poll) \in Poller
      BY DEF ReadData, ReadStore, TypeOK, Poller, Snapshot
    <3>2. [poll EXCEPT !.pc = "idle", !.read = Empty] \in Poller
      BY DEF TypeOK, Poller
    <3> QED BY <1>2, <3>1, <3>2 DEF PollRefresh
  <2>2. status' \in Snapshot /\ conn' \in Connection
    BY <1>2, ConnTypes DEF PollRefresh, TypeOK
  <2> QED BY <1>2, <2>1, <2>2 DEF PollRefresh, browser, TypeOK
<1>3. CASE PollDies
  <2>1. poll' \in Poller
    BY <1>3 DEF PollDies, Poller
  <2> QED BY <1>3, <2>1 DEF PollDies, files, browser, TypeOK
<1> QED BY <1>1, <1>2, <1>3

LEMMA ListenerTypes == TypeOK /\ (MqttIngest \/ MqttRefresh \/ MqttRefreshFails) => TypeOK'
<1> SUFFICES ASSUME TypeOK, MqttIngest \/ MqttRefresh \/ MqttRefreshFails PROVE TypeOK'
  OBVIOUS
<1> USE FeedAssumption, Fields
<1>1. CASE MqttIngest
  <2>1. db' \in Snapshot /\ mqtt' \in Listener
    BY <1>1 DEF MqttIngest, Snapshot, Listener, TypeOK
  <2> QED BY <1>1, <2>1 DEF MqttIngest, files, browser, TypeOK
<1>2. CASE MqttRefresh
  <2>1. mqtt' \in Listener
    <3>1. ReadData(mqtt) \in Listener /\ ReadStore(mqtt) \in Listener
      BY DEF ReadData, ReadStore, TypeOK, Listener, Snapshot
    <3>2. [mqtt EXCEPT !.pc = "idle", !.read = Empty] \in Listener
      BY DEF TypeOK, Listener
    <3> QED BY <1>2, <3>1, <3>2 DEF MqttRefresh
  <2>2. status' \in Snapshot /\ conn' \in Connection
    BY <1>2, ConnTypes DEF MqttRefresh, TypeOK
  <2> QED BY <1>2, <2>1, <2>2 DEF MqttRefresh, browser, TypeOK
<1>3. CASE MqttRefreshFails
  <2>1. mqtt' \in Listener
    BY <1>3 DEF MqttRefreshFails, Listener, TypeOK
  <2> QED BY <1>3, <2>1 DEF MqttRefreshFails, files, browser, TypeOK
<1> QED BY <1>1, <1>2, <1>3

LEMMA BuildTypes == TypeOK /\ Numbering /\ Build => TypeOK'
<1> SUFFICES ASSUME TypeOK, Numbering, Build PROVE TypeOK'
  OBVIOUS
<1> USE FeedAssumption, Fields
<1>1. CASE BuildRead
  <2>1. poll' \in Poller
    BY <1>1 DEF BuildRead, Poller, TypeOK
  <2> QED BY <1>1, <2>1 DEF BuildRead, files, browser, TypeOK
<1>2. CASE BuildBegin
  <2>1. poll' \in Poller
    <3>1. ReloadFiles \in 0..ReloadFiles
      OBVIOUS
    <3>2. poll' = [poll EXCEPT !.pc = "fill", !.left = ReloadFiles] /\ poll \in Poller
      BY <1>2 DEF BuildBegin, TypeOK
    <3> QED BY <3>1, <3>2 DEF Poller
  <2>2. dataJs' \in Data
    BY <1>2 DEF BuildBegin, Data, TypeOK
  <2> QED BY <1>2, <2>1, <2>2 DEF BuildBegin, browser, TypeOK
<1>3. CASE BuildData
  <2>1. poll' \in Poller /\ dataJs' \in Data
    BY <1>3 DEF BuildData, Poller, Data, TypeOK
  <2> QED BY <1>3, <2>1 DEF BuildData, browser, TypeOK
<1>4. CASE BuildStatus
  <2>1. poll' \in Poller /\ status' \in Snapshot /\ conn' \in Connection
    BY <1>4, ConnTypes DEF BuildStatus, Poller, TypeOK
  <2> QED BY <1>4, <2>1 DEF BuildStatus, browser, TypeOK
<1>5. CASE BuildAsset
  <2>1. poll' \in Poller
    BY <1>5 DEF BuildAsset, Poller, TypeOK
  <2>2. stamp' \in Stamps
    <3>1. stamp' = stamp + 1 /\ stamp \in Nat /\ builds \in 0..MaxRebuilds
      BY <1>5 DEF BuildAsset, TypeOK, Stamps
    <3>2. stamp' <= builds * ReloadFiles
      BY <1>5, <3>1 DEF BuildAsset, Numbering
    <3> QED BY <3>1, <3>2, StampBound
  <2> QED BY <1>5, <2>1, <2>2 DEF BuildAsset, browser, TypeOK
<1> QED BY <1>1, <1>2, <1>3, <1>4, <1>5 DEF Build

LEMMA ServerTypes == TypeOK /\ (Server \/ ServeFetch) => TypeOK'
<1> SUFFICES ASSUME TypeOK, Server \/ ServeFetch PROVE TypeOK'
  OBVIOUS
<1> USE FeedAssumption, Fields
<1>1. CASE ServerLook
  <2>1. conn' \in Connection
    BY <1>1 DEF ServerLook, Connection, TypeOK
  <2>2. events' \in Seq(Event) /\ Len(events') <= MaxEvents
    <3> DEFINE e == [type |-> "viewer-update", stamp |-> stamp]
    <3>1. e \in Event
      BY DEF Event, TypeOK
    <3>2. \/ events' = events
          \/ events' = Append(events, e) /\ Len(events) < MaxEvents
      BY <1>1 DEF ServerLook
    <3> HIDE DEF e
    <3>3. CASE events' = events
      BY <3>3 DEF TypeOK
    <3>4. CASE events' = Append(events, e) /\ Len(events) < MaxEvents
      BY <3>1, <3>4, Appended DEF TypeOK
    <3> QED BY <3>2, <3>3, <3>4
  <2> QED BY <1>1, <2>1, <2>2 DEF ServerLook, files, writers, TypeOK
<1>2. CASE ServerSend
  <2>1. conn' \in Connection
    BY <1>2 DEF ServerSend, Connection, TypeOK
  <2>2. events' \in Seq(Event) /\ Len(events') <= MaxEvents
    <3> DEFINE e == [type |-> "live-status", status |-> status]
    <3>1. e \in Event
      BY DEF Event, TypeOK
    <3>2. events' = Append(events, e) /\ Len(events) < MaxEvents
      BY <1>2 DEF ServerSend
    <3> HIDE DEF e
    <3> QED BY <3>1, <3>2, Appended DEF TypeOK
  <2> QED BY <1>2, <2>1, <2>2 DEF ServerSend, files, writers, TypeOK
<1>3. CASE ServeFetch
  <2>1. fetch' \in Fetch
    BY <1>3 DEF ServeFetch, Fetch, TypeOK
  <2> QED BY <1>3, <2>1 DEF ServeFetch, files, writers, TypeOK
<1> QED BY <1>1, <1>2, <1>3 DEF Server

LEMMA PageTypes == TypeOK /\ (Page \/ FetchFails \/ StreamError) => TypeOK'
<1> SUFFICES ASSUME TypeOK, Page \/ FetchFails \/ StreamError PROVE TypeOK'
  OBVIOUS
<1> USE FeedAssumption, Fields
<1>1. <<>> \in Seq(Event) /\ Len(<<>>) <= MaxEvents
  OBVIOUS
<1>2. Asked \in Fetch /\ NoFetch \in Fetch
  BY DEF Asked, NoFetch, Fetch
<1>3. CASE LoadPage
  <2>1. page' \in PageState
    <3>1. CASE dataJs.whole
      <4>1. page' = [pc |-> "shown", build |-> dataJs.build,
                     layout |-> dataJs.layout, live |-> dataJs.live,
                     baseline |-> None, reload |-> FALSE]
        BY <1>3, <3>1 DEF LoadPage
      <4>2. /\ dataJs.build \in 0..MaxRebuilds /\ dataJs.layout \in Layouts
            /\ dataJs.live \in BOOLEAN /\ None \in Stamps \cup {None}
        OBVIOUS
      <4> QED BY ONLY <4>1, <4>2 DEF PageState
    <3>2. CASE ~dataJs.whole
      BY <1>3, <3>2 DEF LoadPage, PageState, TypeOK
    <3> QED BY <3>1, <3>2
  <2>2. conn' \in Connection /\ fetch' \in Fetch /\ events' = <<>>
    BY <1>2, <1>3, ConnTypes DEF LoadPage
  <2> QED BY <1>1, <1>3, <2>1, <2>2 DEF LoadPage, files, writers, TypeOK
<1>4. ASSUME events # <<>> PROVE Tail(events) \in Seq(Event) /\ Len(Tail(events)) <= MaxEvents
                                 /\ Head(events) \in Event
  BY <1>4, Removed DEF TypeOK
<1>5. CASE OnViewerUpdate
  <2>1. page' \in PageState
    <3>1. Head(events).stamp \in Stamps
      BY <1>4, <1>5 DEF OnViewerUpdate, Event
    <3> QED BY <1>5, <3>1 DEF OnViewerUpdate, PageState, TypeOK
  <2>2. conn' \in Connection
    BY <1>5, ConnTypes DEF OnViewerUpdate, TypeOK
  <2>3. events' \in Seq(Event) /\ Len(events') <= MaxEvents
    BY <1>1, <1>4, <1>5 DEF OnViewerUpdate
  <2> QED BY <1>5, <2>1, <2>2, <2>3 DEF OnViewerUpdate, files, writers, TypeOK
<1>6. CASE OnLiveStatus
  <2>1. Head(events).status \in Snapshot
    BY <1>4, <1>6 DEF OnLiveStatus, Event
  <2>2. page' \in PageState
    BY <1>6, <2>1, ApplyStatusType DEF OnLiveStatus, TypeOK
  <2> QED BY <1>4, <1>6, <2>2 DEF OnLiveStatus, files, writers, TypeOK
<1>7. CASE OnFetch
  <2>1. page' \in PageState
    BY <1>7, ApplyStatusType DEF OnFetch, TypeOK
  <2> QED BY <1>2, <1>7, <2>1 DEF OnFetch, files, writers, TypeOK
<1>8. CASE FetchFails
  BY <1>2, <1>8 DEF FetchFails, files, writers, TypeOK
<1>9. CASE StreamError
  <2>1. drops' \in 0..MaxDrops
    BY <1>9 DEF StreamError, TypeOK
  <2> QED BY <1>1, <1>2, <1>9, <2>1, ConnTypes DEF StreamError, files, writers, TypeOK
<1> QED BY <1>3, <1>5, <1>6, <1>7, <1>8, <1>9 DEF Page

LEMMA TypeStep == TypeOK /\ Numbering /\ [Next]_vars => TypeOK'
<1>1. TypeOK /\ UNCHANGED vars => TypeOK'
  BY DEF TypeOK, vars
<1> QED
  BY <1>1, PollTypes, ListenerTypes, BuildTypes, ServerTypes, PageTypes DEF Next, PollStep

-----------------------------------------------------------------------------
(* The numbering of builds and assets.                                     *)

\* What the numbering is about is changed by the poller and its builder only.
LEMMA OthersKeepFiles ==
    ASSUME \/ MqttIngest \/ MqttRefresh \/ MqttRefreshFails
           \/ Server \/ ServeFetch \/ Page \/ FetchFails \/ StreamError
           \/ UNCHANGED vars
    PROVE  UNCHANGED <<builds, dataJs, stamp, poll>>
BY DEF MqttIngest, MqttRefresh, MqttRefreshFails, Server, ServerLook, ServerSend,
    ServeFetch, Page, LoadPage, OnViewerUpdate, OnLiveStatus, OnFetch, FetchFails,
    StreamError, files, writers, vars

\* A build's data are in place before the first of its assets is written.
LEMMA NumberingStep == TypeOK /\ Numbering /\ [Next]_vars => Numbering'
<1> SUFFICES ASSUME TypeOK, Numbering, [Next]_vars PROVE Numbering'
  OBVIOUS
<1>0. /\ builds \in Nat /\ dataJs.build \in Nat /\ stamp \in Nat /\ ReloadFiles \in Nat
      /\ ReloadFiles > 0 /\ poll.left \in Nat
  BY FeedAssumption, Fields DEF TypeOK, Stamps
<1>1. (builds + 1) * ReloadFiles = builds * ReloadFiles + ReloadFiles
  BY <1>0, NextBuild
<1>2. CASE PollIngest
  <2>1. /\ poll.pc = "idle" /\ UNCHANGED <<dataJs, stamp>>
        /\ \/ poll' = [poll EXCEPT !.pc = "refresh"] /\ builds' = builds
           \/ poll' = [poll EXCEPT !.pc = "build"] /\ builds' = builds + 1
    BY <1>2 DEF PollIngest, files
  <2>2. poll' = [poll EXCEPT !.pc = "refresh"] => poll'.pc = "refresh"
    BY DEF TypeOK, Poller
  <2>3. poll' = [poll EXCEPT !.pc = "build"] => poll'.pc = "build"
    BY DEF TypeOK, Poller
  <2> QED BY <1>0, <1>1, <2>1, <2>2, <2>3 DEF Numbering
<1>3. CASE PollRefresh
  <2>1. /\ poll.pc \in {"refresh", "query", "write"} /\ UNCHANGED <<builds, dataJs, stamp>>
        /\ poll'.pc \in {"query", "write", "idle"}
    BY <1>3 DEF PollRefresh, ReadData, ReadStore, TypeOK, Poller
  <2> QED BY <2>1 DEF Numbering
<1>4. CASE PollDies
  <2>1. UNCHANGED <<builds, dataJs, stamp>> /\ poll'.pc = "dead"
    BY <1>4 DEF PollDies, files
  <2> QED BY <2>1 DEF Numbering
<1>5. CASE BuildRead
  <2>1. poll.pc = "build" /\ poll'.pc = "data" /\ UNCHANGED <<builds, dataJs, stamp>>
    BY <1>5 DEF BuildRead, TypeOK, Poller, files
  <2> QED BY <2>1 DEF Numbering
<1>6. CASE BuildBegin
  <2>1. /\ poll.pc = "data" /\ poll'.pc = "fill" /\ poll'.left = ReloadFiles
        /\ UNCHANGED <<builds, stamp>> /\ dataJs'.build = dataJs.build
    BY <1>6 DEF BuildBegin, TypeOK, Poller, Data
  <2> QED BY <2>1 DEF Numbering
<1>7. CASE BuildData
  <2>1. /\ poll.pc = "fill" /\ poll'.pc = "status" /\ poll'.left = poll.left
        /\ UNCHANGED <<builds, stamp>> /\ dataJs'.build = builds
    BY <1>7 DEF BuildData, TypeOK, Poller
  <2> QED BY <1>0, <2>1 DEF Numbering
<1>8. CASE BuildStatus
  <2>1. /\ poll.pc = "status" /\ poll'.pc = "assets" /\ poll'.left = poll.left
        /\ UNCHANGED <<builds, stamp, dataJs>>
    BY <1>8 DEF BuildStatus, TypeOK, Poller
  <2> QED BY <2>1 DEF Numbering
<1>9. CASE BuildAsset
  <2>1. poll.pc = "assets" /\ UNCHANGED <<builds, dataJs>> /\ stamp' = stamp + 1
    BY <1>9 DEF BuildAsset
  <2>2. \/ poll.left > 1 /\ poll'.pc = "assets" /\ poll'.left = poll.left - 1
        \/ ~(poll.left > 1) /\ poll'.pc = "idle"
    BY <1>9 DEF BuildAsset, TypeOK, Poller
  <2> QED BY <1>0, <2>1, <2>2 DEF Numbering
<1>10. ASSUME UNCHANGED <<builds, dataJs, stamp, poll>> PROVE Numbering'
  BY <1>10 DEF Numbering
<1> QED
  BY <1>2, <1>3, <1>4, <1>5, <1>6, <1>7, <1>8, <1>9, <1>10, OthersKeepFiles
  DEF Next, PollStep, Build

\* What was sent of assets stays covered by the data, which only gets newer.
LEMMA ReloadStep ==
    TypeOK /\ Numbering /\ ReloadFindsNewData /\ [Next]_vars => ReloadFindsNewData'
<1> SUFFICES ASSUME TypeOK, Numbering, ReloadFindsNewData, [Next]_vars
             PROVE  ReloadFindsNewData'
  OBVIOUS
<1>0. /\ builds \in Nat /\ dataJs.build \in Nat /\ stamp \in Nat /\ ReloadFiles \in Nat
      /\ dataJs.build <= builds
  BY FeedAssumption, Fields DEF TypeOK, Stamps, Numbering
<1>1. ASSUME NEW i \in DOMAIN events, events[i].type = "viewer-update"
      PROVE  events[i].stamp \in Nat /\ events[i].stamp <= dataJs.build * ReloadFiles
  <2>1. events[i] \in Event
    BY DEF TypeOK
  <2>2. events[i].stamp \in Nat
    BY <1>1, <2>1 DEF Event, Stamps
  <2> QED BY <1>1, <2>2 DEF ReloadFindsNewData
<1>2. ASSUME events' = events, dataJs'.build = dataJs.build PROVE ReloadFindsNewData'
  BY <1>1, <1>2 DEF ReloadFindsNewData
<1>3. ASSUME events' = <<>> PROVE ReloadFindsNewData'
  BY <1>3 DEF ReloadFindsNewData
<1>4. ASSUME NEW e \in Event, events' = Append(events, e), dataJs' = dataJs,
             e.type = "viewer-update" => e.stamp <= dataJs.build * ReloadFiles
      PROVE  ReloadFindsNewData'
  <2>1. ASSUME NEW i \in DOMAIN events', events'[i].type = "viewer-update"
        PROVE  events'[i].stamp <= dataJs'.build * ReloadFiles
    <3>1. (i \in DOMAIN events /\ events'[i] = events[i]) \/ events'[i] = e
      BY <1>4, Appended DEF TypeOK
    <3> QED BY <1>1, <1>4, <2>1, <3>1
  <2> QED BY <2>1 DEF ReloadFindsNewData
<1>5. ASSUME events # <<>>, events' = Tail(events), dataJs' = dataJs
      PROVE  ReloadFindsNewData'
  <2>1. \A i \in DOMAIN events' : i + 1 \in DOMAIN events /\ events'[i] = events[i + 1]
    BY <1>5, Removed DEF TypeOK
  <2> QED BY <1>1, <1>5, <2>1 DEF ReloadFindsNewData
<1>6. CASE BuildData
  <2>1. events' = events /\ dataJs'.build = builds
    BY <1>6 DEF BuildData, browser
  <2>2. dataJs.build * ReloadFiles <= builds * ReloadFiles
    BY <1>0
  <2>3. dataJs.build * ReloadFiles \in Int /\ builds * ReloadFiles \in Int
    BY <1>0
  <2>4. ASSUME NEW i \in DOMAIN events, events[i].type = "viewer-update"
        PROVE  events[i].stamp <= builds * ReloadFiles
    BY <1>1, <2>2, <2>3, <2>4
  <2> QED BY <2>1, <2>4 DEF ReloadFindsNewData
<1>7. CASE BuildBegin
  <2>1. events' = events /\ dataJs'.build = dataJs.build
    BY <1>7 DEF BuildBegin, browser, TypeOK, Data
  <2> QED BY <1>2, <2>1
<1>8. CASE (PollStep /\ ~BuildData /\ ~BuildBegin) \/ PollDies
  <2>1. events' = events /\ dataJs' = dataJs
    BY <1>8 DEF PollStep, PollIngest, PollRefresh, Build, BuildRead, BuildStatus,
                BuildAsset, PollDies, files, browser
  <2> QED BY <1>2, <2>1
<1>9. CASE MqttIngest \/ MqttRefresh \/ MqttRefreshFails \/ ServeFetch \/ OnFetch \/ FetchFails
           \/ UNCHANGED vars
  <2>1. events' = events /\ dataJs' = dataJs
    BY <1>9 DEF MqttIngest, MqttRefresh, MqttRefreshFails, ServeFetch, OnFetch,
                FetchFails, files, browser, vars
  <2> QED BY <1>2, <2>1
<1>10. CASE ServerLook
  <2> DEFINE e == [type |-> "viewer-update", stamp |-> stamp]
  <2>1. /\ dataJs' = dataJs
        /\ events' = events \/ events' = Append(events, e)
    BY <1>10 DEF ServerLook, files
  <2>2. e \in Event /\ (e.type = "viewer-update" => e.stamp <= dataJs.build * ReloadFiles)
    BY DEF Event, Numbering, TypeOK
  <2> HIDE DEF e
  <2> QED BY <1>2, <1>4, <2>1, <2>2
<1>11. CASE ServerSend
  <2> DEFINE e == [type |-> "live-status", status |-> status]
  <2>1. dataJs' = dataJs /\ events' = Append(events, e)
    BY <1>11 DEF ServerSend, files
  <2>2. e \in Event /\ e.type # "viewer-update"
    BY DEF Event, TypeOK
  <2> HIDE DEF e
  <2> QED BY <1>4, <2>1, <2>2
<1>12. CASE LoadPage \/ StreamError
  <2>1. events' = <<>>
    BY <1>12 DEF LoadPage, StreamError
  <2> QED BY <1>3, <2>1
<1>13. CASE OnViewerUpdate \/ OnLiveStatus
  <2>1. events # <<>> /\ dataJs' = dataJs /\ (events' = <<>> \/ events' = Tail(events))
    BY <1>13 DEF OnViewerUpdate, OnLiveStatus, files
  <2> QED BY <1>3, <1>5, <2>1
<1> QED
  BY <1>6, <1>7, <1>8, <1>9, <1>10, <1>11, <1>12, <1>13 DEF Next, Server, Page

-----------------------------------------------------------------------------
(* Pictures are of what is stored.                                         *)

\* A change stays stored, and only the poller and the listener store one.
LEMMA StoreStep ==
    ASSUME TypeOK, [Next]_vars
    PROVE  /\ db.live => db'.live
           /\ ~(PollIngest \/ MqttIngest) => db' = db
<1>1. CASE PollIngest
  <2>1. PICK live \in {db.live, TRUE} :
          \/ db' = [db EXCEPT !.live = live]
          \/ \E layout \in {builds + 1, db.layout} : db' = [layout |-> layout, live |-> live]
    BY <1>1 DEF PollIngest
  <2>2. db \in Snapshot
    BY DEF TypeOK
  <2>3. [db EXCEPT !.live = live].live = live
    BY <2>2 DEF Snapshot
  <2>4. db'.live = live
    <3>1. CASE db' = [db EXCEPT !.live = live]
      BY <3>1, <2>3
    <3>2. CASE \E layout \in {builds + 1, db.layout} : db' = [layout |-> layout, live |-> live]
      BY <3>2
    <3> QED BY <2>1, <3>1, <3>2
  <2> QED BY <1>1, <2>4
<1>2. CASE MqttIngest
  BY <1>2 DEF MqttIngest, TypeOK, Snapshot
<1>3. CASE ~(PollIngest \/ MqttIngest)
  <2>1. db' = db
    BY <1>3 DEF Next, vars, PollStep, PollRefresh, Build, BuildRead, BuildBegin, BuildData,
                BuildStatus, BuildAsset, PollDies, MqttRefresh, MqttRefreshFails, Server,
                ServerLook, ServerSend, ServeFetch, Page, LoadPage, OnViewerUpdate,
                OnLiveStatus, OnFetch, FetchFails, StreamError
  <2> QED BY <1>3, <2>1
<1> QED BY <1>1, <1>2, <1>3

\* Of the two reads of a writer only the one of the store takes a picture.
LEMMA Reads ==
    ASSUME NEW w \in Poller \cup Listener
    PROVE  ReadData(w).read.live = w.read.live /\ ReadStore(w).read.live = db.live
<1>1. CASE w \in Poller
  BY <1>1 DEF ReadData, ReadStore, Poller, Snapshot
<1>2. CASE w \in Listener
  BY <1>2 DEF ReadData, ReadStore, Listener, Snapshot
<1> QED BY <1>1, <1>2

\* The pictures in files and in the writers' hands.
LEMMA HonestWriters ==
    ASSUME TypeOK, Honest, [Next]_vars
    PROVE  /\ dataJs'.live => db'.live
           /\ status'.live => db'.live
           /\ poll'.read.live => db'.live
           /\ mqtt'.read.live => db'.live
<1> USE Fields
<1>0. /\ db.live => db'.live
      /\ dataJs.live => db.live
      /\ status.live => db.live
      /\ poll.read.live => db.live
      /\ mqtt.read.live => db.live
      /\ ~Empty.live
  BY StoreStep DEF Honest, Empty
<1>1. CASE PollIngest
  <2>1. UNCHANGED <<dataJs, status, mqtt>> /\ poll'.read = poll.read
    BY <1>1 DEF PollIngest, files, TypeOK, Poller
  <2> QED BY <1>0, <2>1
<1>2. CASE PollRefresh
  <2>1. UNCHANGED <<dataJs, mqtt>>
    BY <1>2 DEF PollRefresh
  <2>2. \/ UNCHANGED status /\ poll'.read.live \in {poll.read.live, db.live}
        \/ status' = poll.read /\ poll'.read = Empty
    <3>1. /\ ReadData(poll).read.live = poll.read.live
          /\ ReadStore(poll).read.live = db.live
      BY Reads DEF TypeOK
    <3>2. [poll EXCEPT !.pc = "idle", !.read = Empty].read = Empty
      BY DEF TypeOK, Poller
    <3> QED BY <1>2, <3>1, <3>2 DEF PollRefresh
  <2> QED BY <1>0, <2>1, <2>2
<1>3. CASE Build
  <2>1. UNCHANGED mqtt
    BY <1>3 DEF Build, BuildRead, BuildBegin, BuildData, BuildStatus, BuildAsset
  <2>2. dataJs'.live \in {dataJs.live, poll.read.live}
    BY <1>3 DEF Build, BuildRead, BuildBegin, BuildData, BuildStatus, BuildAsset, files,
                TypeOK, Data
  <2>3. status' \in {status, poll.read}
    BY <1>3 DEF Build, BuildRead, BuildBegin, BuildData, BuildStatus, BuildAsset, files
  <2>4. poll'.read \in {poll.read, db, Empty}
    <3>1. CASE BuildRead
      BY <3>1 DEF BuildRead, TypeOK, Poller
    <3>2. CASE BuildBegin
      BY <3>2 DEF BuildBegin, TypeOK, Poller
    <3>3. CASE BuildData
      BY <3>3 DEF BuildData, TypeOK, Poller
    <3>4. CASE BuildStatus
      BY <3>4 DEF BuildStatus, TypeOK, Poller
    <3>5. CASE BuildAsset
      BY <3>5 DEF BuildAsset, TypeOK, Poller
    <3> QED BY <1>3, <3>1, <3>2, <3>3, <3>4, <3>5 DEF Build
  <2>5. db' = db
    BY <1>3 DEF Build, BuildRead, BuildBegin, BuildData, BuildStatus, BuildAsset
  <2>6. poll'.read.live \in {poll.read.live, db.live, Empty.live}
    BY <2>4
  <2>7. status'.live \in {status.live, poll.read.live}
    BY <2>3
  <2> QED BY <1>0, <2>1, <2>2, <2>5, <2>6, <2>7
<1>4. CASE PollDies
  <2>1. UNCHANGED <<dataJs, status, mqtt>> /\ poll'.read = Empty
    BY <1>4 DEF PollDies, files
  <2> QED BY <1>0, <2>1
<1>5. CASE MqttIngest \/ MqttRefreshFails
  <2>1. UNCHANGED <<dataJs, status, poll>> /\ mqtt'.read = mqtt.read
    BY <1>5 DEF MqttIngest, MqttRefreshFails, files, TypeOK, Listener
  <2> QED BY <1>0, <2>1
<1>6. CASE MqttRefresh
  <2>1. UNCHANGED <<dataJs, poll>>
    BY <1>6 DEF MqttRefresh
  <2>2. \/ UNCHANGED status /\ mqtt'.read.live \in {mqtt.read.live, db.live}
        \/ status' = mqtt.read /\ mqtt'.read = Empty
    <3>1. /\ ReadData(mqtt).read.live = mqtt.read.live
          /\ ReadStore(mqtt).read.live = db.live
      BY Reads DEF TypeOK
    <3>2. [mqtt EXCEPT !.pc = "idle", !.read = Empty].read = Empty
      BY DEF TypeOK, Listener
    <3> QED BY <1>6, <3>1, <3>2 DEF MqttRefresh
  <2> QED BY <1>0, <2>1, <2>2
<1>7. CASE Server \/ ServeFetch \/ Page \/ FetchFails \/ StreamError \/ UNCHANGED vars
  <2>1. UNCHANGED <<dataJs, status, poll, mqtt>>
    BY <1>7 DEF Server, ServerLook, ServerSend, ServeFetch, Page, LoadPage, OnViewerUpdate,
                OnLiveStatus, OnFetch, FetchFails, StreamError, files, writers, vars
  <2> QED BY <1>0, <2>1
<1> QED BY <1>1, <1>2, <1>3, <1>4, <1>5, <1>6, <1>7 DEF Next, PollStep

\* The pictures on their way to the page and on it.
LEMMA HonestBrowser ==
    ASSUME TypeOK, Honest, [Next]_vars
    PROVE  /\ fetch'.status.live => db'.live
           /\ page'.live => db'.live
           /\ \A i \in DOMAIN events' : events'[i].type = "live-status"
                                          => (events'[i].status.live => db'.live)
<1> USE Fields
<1> DEFINE Sent == \A i \in DOMAIN events' : events'[i].type = "live-status"
                                                => (events'[i].status.live => db'.live)
<1>0. /\ db.live => db'.live
      /\ dataJs.live => db.live
      /\ status.live => db.live
      /\ fetch.status.live => db.live
      /\ page.live => db.live
      /\ \A i \in DOMAIN events : events[i].type = "live-status"
                                    => (events[i].status.live => db.live)
  BY StoreStep DEF Honest
<1>1. ASSUME events' = events \/ events' = <<>> PROVE Sent
  BY <1>0, <1>1
<1>2. ASSUME NEW e \in Event, events' = Append(events, e),
             e.type = "live-status" => (e.status.live => db.live)
      PROVE  Sent
  <2>1. \A i \in DOMAIN events' : (i \in DOMAIN events /\ events'[i] = events[i]) \/ events'[i] = e
    BY <1>2, Appended DEF TypeOK
  <2> QED BY <1>0, <1>2, <2>1
<1>3. ASSUME events # <<>>, events' = Tail(events) PROVE Sent
  <2>1. \A i \in DOMAIN events' : i + 1 \in DOMAIN events /\ events'[i] = events[i + 1]
    BY <1>3, Removed DEF TypeOK
  <2> QED BY <1>0, <2>1
<1>4. ~NoFetch.status.live /\ ~Asked.status.live
  BY DEF NoFetch, Asked, Empty
<1>5. ASSUME NEW s \in Snapshot, s.live => db.live, page' = ApplyStatus(page, s)
      PROVE  page'.live => db'.live
  BY <1>0, <1>5 DEF ApplyStatus, TypeOK, PageState
<1> HIDE DEF Sent
<1>6. CASE PollStep \/ PollDies \/ MqttIngest \/ MqttRefresh \/ MqttRefreshFails \/ UNCHANGED vars
  <2>1. UNCHANGED <<fetch, page, events>>
    BY <1>6 DEF PollStep, PollIngest, PollRefresh, Build, BuildRead, BuildBegin, BuildData,
                BuildStatus, BuildAsset, PollDies, MqttIngest, MqttRefresh, MqttRefreshFails,
                browser, vars
  <2> QED BY <1>0, <1>1, <2>1 DEF Sent
<1>7. CASE ServerLook
  <2> DEFINE e == [type |-> "viewer-update", stamp |-> stamp]
  <2>1. UNCHANGED <<fetch, page>> /\ (events' = events \/ events' = Append(events, e))
    BY <1>7 DEF ServerLook
  <2>2. e \in Event /\ e.type # "live-status"
    BY DEF Event, TypeOK
  <2> HIDE DEF e
  <2>3. Sent
    BY <1>1, <1>2, <2>1, <2>2
  <2> QED BY <1>0, <2>1, <2>3 DEF Sent
<1>8. CASE ServerSend
  <2> DEFINE e == [type |-> "live-status", status |-> status]
  <2>1. UNCHANGED <<fetch, page>> /\ events' = Append(events, e)
    BY <1>8 DEF ServerSend
  <2>2. e \in Event /\ (e.type = "live-status" => (e.status.live => db.live))
    BY <1>0 DEF Event, TypeOK
  <2> HIDE DEF e
  <2>3. Sent
    BY <1>2, <2>1, <2>2
  <2> QED BY <1>0, <2>1, <2>3 DEF Sent
<1>9. CASE ServeFetch
  <2>1. UNCHANGED <<events, page>> /\ fetch'.status = status
    BY <1>9 DEF ServeFetch
  <2> QED BY <1>0, <1>1, <2>1 DEF Sent
<1>10. CASE LoadPage
  <2>1. events' = <<>> /\ fetch' \in {Asked, NoFetch}
    BY <1>10 DEF LoadPage
  <2>2. page'.live => dataJs.live
    <3>1. CASE dataJs.whole
      BY <1>10, <3>1 DEF LoadPage
    <3>2. CASE ~dataJs.whole
      BY <1>10, <3>2 DEF LoadPage, TypeOK, PageState
    <3> QED BY <3>1, <3>2
  <2> QED BY <1>0, <1>1, <1>4, <2>1, <2>2 DEF Sent
<1>11. CASE OnViewerUpdate
  <2>1. fetch' = fetch /\ page'.live = page.live
    BY <1>11 DEF OnViewerUpdate, TypeOK, PageState
  <2>2. events # <<>> /\ (events' = <<>> \/ events' = Tail(events))
    BY <1>11 DEF OnViewerUpdate
  <2>3. Sent
    BY <1>1, <1>3, <2>2
  <2> QED BY <1>0, <2>1, <2>3 DEF Sent
<1>12. CASE OnLiveStatus
  <2> DEFINE s == Head(events).status
  <2>1. /\ events # <<>> /\ events' = Tail(events) /\ fetch' = fetch
        /\ page' = ApplyStatus(page, s) /\ Head(events).type = "live-status"
    BY <1>12 DEF OnLiveStatus
  <2>2. Head(events) \in Event /\ 1 \in DOMAIN events /\ Head(events) = events[1]
    BY <2>1, Removed DEF TypeOK
  <2>3. s \in Snapshot /\ (s.live => db.live)
    BY <1>0, <2>1, <2>2 DEF Event
  <2>4. Sent
    BY <1>3, <2>1
  <2> HIDE DEF s
  <2>5. page'.live => db'.live
    BY <1>5, <2>1, <2>3
  <2> QED BY <1>0, <2>1, <2>4, <2>5 DEF Sent
<1>13. CASE OnFetch
  <2>1. events' = events /\ fetch' = NoFetch /\ page' = ApplyStatus(page, fetch.status)
    BY <1>13 DEF OnFetch
  <2>2. page'.live => db'.live
    BY <1>0, <1>5, <2>1
  <2> QED BY <1>1, <1>4, <2>1, <2>2 DEF Sent
<1>14. CASE FetchFails
  <2>1. UNCHANGED <<events, page>> /\ fetch' = NoFetch
    BY <1>14 DEF FetchFails
  <2> QED BY <1>0, <1>1, <1>4, <2>1 DEF Sent
<1>15. CASE StreamError
  <2>1. events' = <<>> /\ fetch' = Asked /\ page' = page
    BY <1>15 DEF StreamError
  <2> QED BY <1>0, <1>1, <1>4, <2>1 DEF Sent
<1> QED
  BY <1>6, <1>7, <1>8, <1>9, <1>10, <1>11, <1>12, <1>13, <1>14, <1>15 DEF Next, Server, Page

LEMMA HonestStep == TypeOK /\ Honest /\ [Next]_vars => Honest'
<1> SUFFICES ASSUME TypeOK, Honest, [Next]_vars PROVE Honest'
  OBVIOUS
<1> QED BY HonestWriters, HonestBrowser DEF Honest

-----------------------------------------------------------------------------
(* Theorems.                                                               *)

\* The inductive invariant holds of every behaviour of the feed.
THEOREM Inductive == Spec => []IInv
<1>1. IInv /\ [Next]_vars => IInv'
  BY TypeStep, NumberingStep, ReloadStep, HonestStep DEF IInv
<1> QED BY InitIInv, <1>1, PTL DEF Spec

\* Every state the feed reaches has the types its processes rely on; for the
\* stamps that means that no build writes more asset versions than it has files.
THEOREM TypeCorrect == Spec => []TypeOK
<1>1. IInv => TypeOK
  BY DEF IInv
<1> QED BY Inductive, <1>1, PTL

\* An event that announces an asset of build n is never under way before the
\* viewer data of build n are in place (write_viewer's order of writes).
THEOREM NewDataOnReload == Spec => []ReloadFindsNewData
<1>1. IInv => ReloadFindsNewData
  BY DEF IInv
<1> QED BY Inductive, <1>1, PTL

-----------------------------------------------------------------------------
(* The feed implements the safety part of LiveView.                        *)

\* What the page displays of the followed change.
Shown == page.pc = "shown" /\ page.live

\* The feed ends for good, in a step that neither stores nor shows anything.
LEMMA StoppedStep ==
    ASSUME TypeOK, [Next]_vars
    PROVE  /\ Stopped => Stopped'
           /\ Stopped' => Stopped \/ (db' = db /\ (Shown' => Shown))
<1>1. CASE PollIngest \/ PollRefresh \/ Build
  <2>1. page' = page /\ poll.pc # "dead"
    BY <1>1 DEF PollIngest, PollRefresh, Build, BuildRead, BuildBegin, BuildData,
                BuildStatus, BuildAsset, browser
  <2>2. poll'.pc # "dead"
    <3>1. CASE PollIngest
      BY <3>1 DEF PollIngest, TypeOK, Poller
    <3>2. CASE PollRefresh
      BY <3>2 DEF PollRefresh, ReadData, ReadStore, TypeOK, Poller
    <3>3. CASE BuildRead \/ BuildBegin \/ BuildData \/ BuildStatus
      BY <3>3 DEF BuildRead, BuildBegin, BuildData, BuildStatus, TypeOK, Poller
    <3>4. CASE BuildAsset
      BY <3>4 DEF BuildAsset, TypeOK, Poller
    <3> QED BY <1>1, <3>1, <3>2, <3>3, <3>4 DEF Build
  <2> QED BY <2>1, <2>2 DEF Stopped
<1>2. CASE PollDies
  BY <1>2 DEF PollDies, browser, Stopped, Shown
<1>3. CASE MqttIngest \/ MqttRefresh \/ MqttRefreshFails \/ Server \/ ServeFetch
           \/ FetchFails \/ StreamError \/ UNCHANGED vars
  <2>1. UNCHANGED <<page, poll>>
    BY <1>3 DEF MqttIngest, MqttRefresh, MqttRefreshFails, Server, ServerLook, ServerSend,
                ServeFetch, FetchFails, StreamError, browser, writers, vars
  <2> QED BY <2>1 DEF Stopped
<1>4. CASE LoadPage
  <2>1. page.pc # "broken" /\ UNCHANGED <<db, poll>>
    BY <1>4 DEF LoadPage, writers
  <2>2. page'.pc = "shown" \/ page'.pc = "broken"
    <3>1. CASE dataJs.whole
      BY <1>4, <3>1 DEF LoadPage
    <3>2. CASE ~dataJs.whole
      BY <1>4, <3>2 DEF LoadPage, TypeOK, PageState
    <3> QED BY <3>1, <3>2
  <2> QED BY <2>1, <2>2 DEF Stopped, Shown
<1>5. CASE OnViewerUpdate \/ OnLiveStatus \/ OnFetch
  <2>1. page'.pc = page.pc /\ poll' = poll
    BY <1>5 DEF OnViewerUpdate, OnLiveStatus, OnFetch, ApplyStatus, writers, TypeOK, PageState
  <2> QED BY <2>1 DEF Stopped
<1> QED BY <1>1, <1>2, <1>3, <1>4, <1>5 DEF Next, PollStep, Page

\* A step that stores is none of the page's and does not end the feed.
LEMMA StoresOnly ==
    ASSUME TypeOK, [Next]_vars, db' # db
    PROVE  (Shown' <=> Shown) /\ (Stopped' <=> Stopped)
<1>1. PollIngest \/ MqttIngest
  BY StoreStep
<1>2. page' = page /\ (poll'.pc = "dead" <=> poll.pc = "dead")
  BY <1>1 DEF PollIngest, MqttIngest, browser, TypeOK, Poller
<1> QED BY <1>2 DEF Shown, Stopped

\* Every step of the feed is a step of LiveView or leaves its state alone: the
\* change is stored once, is on the page only when it is stored, and nothing
\* revives a feed that has ended.
THEOREM StepsOfTheView == Spec => View!Init /\ [][View!Next]_(View!vars)
<1>1. Init => View!Init
  BY DEF Init, View!Init, Empty, Stopped
<1>2. IInv /\ [Next]_vars /\ IInv' => [View!Next]_(View!vars)
  <2> SUFFICES ASSUME IInv, [Next]_vars, IInv' PROVE [View!Next]_(View!vars)
    OBVIOUS
  <2>1. TypeOK /\ (Shown' => db'.live) /\ db.live \in BOOLEAN /\ db'.live \in BOOLEAN
    BY DEF IInv, Honest, Shown, TypeOK, Snapshot
  <2>2. CASE db'.live # db.live
    <3>1. ~db.live /\ db'.live
      BY <2>1, <2>2, StoreStep
    <3>2. (Shown' <=> Shown) /\ (Stopped' <=> Stopped)
      BY <2>1, <2>2, StoresOnly
    <3>3. (page'.pc = "shown" /\ page'.live) = (page.pc = "shown" /\ page.live)
      BY <3>2 DEF Shown
    <3>4. View!Store
      BY <3>1, <3>2, <3>3 DEF View!Store, Stopped
    <3> QED BY <3>4 DEF View!Next
  <2>3. CASE db'.live = db.live /\ ~(Stopped' <=> Stopped)
    <3>1. ~Stopped /\ Stopped' /\ (Shown' => Shown)
      BY <2>1, <2>3, StoppedStep
    <3>2. View!End
      BY <2>3, <3>1 DEF View!End, Shown
    <3> QED BY <3>2 DEF View!Next
  <2>4. CASE db'.live = db.live /\ (Stopped' <=> Stopped) /\ ~(Shown' <=> Shown)
    <3>1. (page'.pc = "shown" /\ page'.live) # (page.pc = "shown" /\ page.live)
      BY <2>4 DEF Shown
    <3>2. View!Display
      BY <2>1, <2>4, <3>1 DEF View!Display, Shown, Stopped
    <3> QED BY <3>2 DEF View!Next
  <2>5. CASE db'.live = db.live /\ (Stopped' <=> Stopped) /\ (Shown' <=> Shown)
    <3>1. UNCHANGED View!vars
      BY <2>5 DEF View!vars, Shown, Stopped
    <3> QED BY <3>1
  <2> QED BY <2>2, <2>3, <2>4, <2>5
<1> QED BY <1>1, <1>2, Inductive, PTL DEF Spec
=============================================================================
