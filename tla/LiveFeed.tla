------------------------------ MODULE LiveFeed ------------------------------
(***************************************************************************)
(* How a change in the local store reaches the browser:                    *)
(*                                                                         *)
(*   poll, MQTT listener -> SQLite -> navimow-live-status.json  \          *)
(*   poll -> viewer builder -> navimow-map-data.js, page assets  > server  *)
(*   server -> server-sent events, HTTP responses -> page                  *)
(*                                                                         *)
(* The writers are processes of their own; each reads the layout from the  *)
(* viewer data, then the store, and replaces the status file (which is     *)
(* atomic; writing the viewer data is not).  The server compares file      *)
(* versions in a loop per connection.  The page applies what events and    *)
(* fetch responses carry, in the order they arrive.                        *)
(*                                                                         *)
(* Of the store's rows one arbitrary change is followed: `live` says of a  *)
(* snapshot whether it was taken after that change was committed.          *)
(***************************************************************************)
EXTENDS Integers, Sequences

CONSTANTS
    MaxRebuilds,    \* bound: structural changes, hence viewer builds
    ReloadFiles,    \* how many page assets a build writes, one at a time
    MaxDrops,       \* bound: how often the event stream breaks
    MaxTroubles,    \* bound: builds and breaks of the stream together
    MaxEvents,      \* bound: events on their way to the page
    LayoutMayStay,  \* whether a build may leave the layout version as it was
    PollKeepsGoing  \* whether the poller is assumed to store rows for ever

ASSUME FeedAssumption ==
    /\ {MaxRebuilds, ReloadFiles, MaxDrops, MaxTroubles, MaxEvents} \subseteq Nat
    /\ MaxEvents > 0 /\ ReloadFiles > 0
    /\ {LayoutMayStay, PollKeepsGoing} \subseteq BOOLEAN

VARIABLES
    db,         \* the store: the followed change, the layout its maps give
    builds,     \* how many builds have begun
    dataJs,     \* navimow-map-data.js: the build, its layout, its snapshot
    stamp,      \* the reload version: how often an asset file was written
    status,     \* navimow-live-status.json
    poll,       \* the poller: where it is, what it has read
    mqtt,       \* the MQTT listener, likewise
    conn,       \* the server's loop for the page's event stream
    events,     \* events sent and not yet handled
    fetch,      \* the page's status request
    page,       \* the page
    drops       \* how often the stream broke

vars == <<db, builds, dataJs, stamp, status, poll, mqtt, conn, events, fetch,
          page, drops>>

files   == <<dataJs, stamp, status>>
writers == <<poll, mqtt>>
browser == <<events, fetch, page, drops>>

None     == -1
Layouts  == 0..MaxRebuilds
Stamps   == 0..(MaxRebuilds * ReloadFiles)
Snapshot == [layout : Layouts, live : BOOLEAN]

\* A reader that has read nothing.
Empty == [layout |-> 0, live |-> FALSE]

Data       == [build : 0..MaxRebuilds, layout : Layouts, live : BOOLEAN,
               whole : BOOLEAN]
Poller     == [pc : {"idle", "refresh", "query", "write", "build", "data",
                     "fill", "status", "assets", "dead"},
               read : Snapshot, left : 0..ReloadFiles]
Listener   == [pc : {"idle", "refresh", "query", "write"}, read : Snapshot]
Connection == [pc : {"closed", "look", "send"}, stamp : Stamps \cup {None},
               layout : Layouts \cup {None}, fresh : BOOLEAN]
Event      == [type : {"viewer-update"}, stamp : Stamps]
                 \cup [type : {"live-status"}, status : Snapshot]
Fetch      == [pc : {"none", "asked", "answered"}, status : Snapshot]
PageState  == [pc : {"loading", "shown", "broken"}, build : 0..MaxRebuilds,
               layout : Layouts, live : BOOLEAN,
               baseline : Stamps \cup {None}, reload : BOOLEAN]

TypeOK ==
    /\ db \in Snapshot
    /\ builds \in 0..MaxRebuilds
    /\ dataJs \in Data
    /\ stamp \in Stamps
    /\ status \in Snapshot
    /\ poll \in Poller
    /\ mqtt \in Listener
    /\ conn \in Connection
    /\ events \in Seq(Event) /\ Len(events) <= MaxEvents
    /\ fetch \in Fetch
    /\ page \in PageState
    /\ drops \in 0..MaxDrops

\* A connection the server has just accepted: every previous version is None.
NewConn    == [pc |-> "look", stamp |-> None, layout |-> None, fresh |-> TRUE]
ClosedConn == [NewConn EXCEPT !.pc = "closed"]

NoFetch == [pc |-> "none", status |-> Empty]
Asked   == [pc |-> "asked", status |-> Empty]

\* A status write changes the file's version for an open connection.
Touched(c) == [c EXCEPT !.fresh = TRUE]

\* The viewer was built once and the page is about to be opened.
Init ==
    /\ db = Empty /\ builds = 0
    /\ dataJs = [build |-> 0, layout |-> 0, live |-> FALSE, whole |-> TRUE]
    /\ stamp = 0 /\ status = Empty
    /\ poll = [pc |-> "idle", read |-> Empty, left |-> 0]
    /\ mqtt = [pc |-> "idle", read |-> Empty]
    /\ conn = ClosedConn /\ events = <<>> /\ fetch = NoFetch
    /\ page = [pc |-> "loading", build |-> 0, layout |-> 0, live |-> FALSE,
               baseline |-> None, reload |-> FALSE]
    /\ drops = 0

-----------------------------------------------------------------------------
(* The writers.                                                            *)

\* A pass of the poller commits rows.  Structural counts lead to a build, all
\* others to a status refresh (auto_viewer_refresh_action); a pass that stores
\* no new row does neither, and is no step here.
PollIngest ==
    /\ poll.pc = "idle"
    /\ \E live \in {db.live, TRUE} :
          \/ /\ db' = [db EXCEPT !.live = live]
             /\ poll' = [poll EXCEPT !.pc = "refresh"]
             /\ UNCHANGED builds
          \/ /\ builds < MaxRebuilds /\ builds + drops < MaxTroubles
             /\ builds' = builds + 1
             /\ \E layout \in {builds + 1, db.layout} :
                /\ layout = db.layout => LayoutMayStay
                /\ db' = [layout |-> layout, live |-> live]
             /\ poll' = [poll EXCEPT !.pc = "build"]
    /\ UNCHANGED <<files, mqtt, conn, browser>>

\* A message is committed before the listener refreshes the status.
MqttIngest ==
    /\ mqtt.pc = "idle"
    /\ \E live \in {db.live, TRUE} : db' = [db EXCEPT !.live = live]
    /\ mqtt' = [mqtt EXCEPT !.pc = "refresh"]
    /\ UNCHANGED <<builds, files, poll, conn, browser>>

\* refresh_live_status_file: the layout comes from the viewer data ...
ReadData(w) == [w EXCEPT !.pc = "query", !.read.layout = dataJs.layout]

\* ... the status from the store ...
ReadStore(w) == [w EXCEPT !.pc = "write", !.read.live = db.live]

\* ... and the file is replaced by a rename, unless a message is lost to the
\* listener because it read half-written viewer data.
PollRefresh ==
    /\ \/ poll.pc = "refresh" /\ poll' = ReadData(poll) /\ UNCHANGED <<status, conn>>
       \/ poll.pc = "query" /\ poll' = ReadStore(poll) /\ UNCHANGED <<status, conn>>
       \/ /\ poll.pc = "write"
          /\ status' = poll.read
          /\ conn' = Touched(conn)
          /\ poll' = [poll EXCEPT !.pc = "idle", !.read = Empty]
    /\ UNCHANGED <<db, builds, dataJs, stamp, mqtt, browser>>

MqttRefresh ==
    /\ \/ mqtt.pc = "refresh" /\ dataJs.whole
          /\ mqtt' = ReadData(mqtt) /\ UNCHANGED <<status, conn>>
       \/ mqtt.pc = "query" /\ mqtt' = ReadStore(mqtt) /\ UNCHANGED <<status, conn>>
       \/ /\ mqtt.pc = "write"
          /\ status' = mqtt.read
          /\ conn' = Touched(conn)
          /\ mqtt' = [mqtt EXCEPT !.pc = "idle", !.read = Empty]
    /\ UNCHANGED <<db, builds, dataJs, stamp, poll, browser>>

\* Half-written viewer data does not parse; the listener reports the error.
MqttRefreshFails ==
    /\ mqtt.pc = "refresh" /\ ~dataJs.whole
    /\ mqtt' = [mqtt EXCEPT !.pc = "idle"]
    /\ UNCHANGED <<db, builds, files, poll, conn, browser>>

\* build_data: the builder reads the store.
BuildRead ==
    /\ poll.pc = "build"
    /\ poll' = [poll EXCEPT !.pc = "data", !.read = db]
    /\ UNCHANGED <<db, builds, files, mqtt, conn, browser>>

\* Mutant of BuildBegin: an asset is written before the data.
BuildBeginWithAsset ==
    /\ poll.pc = "data"
    /\ stamp' = stamp + 1
    /\ poll' = [poll EXCEPT !.pc = "fill", !.left = ReloadFiles]
    /\ dataJs' = [dataJs EXCEPT !.whole = FALSE]
    /\ UNCHANGED <<db, builds, status, mqtt, conn, browser>>

\* write_viewer: data, status, then the assets whose change reloads the page.
\* The data file is truncated before it is filled.
BuildBegin ==
    /\ poll.pc = "data"
    /\ poll' = [poll EXCEPT !.pc = "fill", !.left = ReloadFiles]
    /\ dataJs' = [dataJs EXCEPT !.whole = FALSE]
    /\ UNCHANGED <<db, builds, stamp, status, mqtt, conn, browser>>

BuildData ==
    /\ poll.pc = "fill"
    /\ poll' = [poll EXCEPT !.pc = "status"]
    /\ dataJs' = [build |-> builds, layout |-> poll.read.layout,
                  live |-> poll.read.live, whole |-> TRUE]
    /\ UNCHANGED <<db, builds, stamp, status, mqtt, conn, browser>>

BuildStatus ==
    /\ poll.pc = "status"
    /\ poll' = [poll EXCEPT !.pc = "assets"]
    /\ status' = poll.read
    /\ conn' = Touched(conn)
    /\ UNCHANGED <<db, builds, dataJs, stamp, mqtt, browser>>

\* Mutant of BuildAsset: one asset too many.
BuildAssetTwice ==
    /\ poll.pc = "assets"
    /\ stamp' = stamp + 2
    /\ poll' = IF poll.left > 1
                 THEN [poll EXCEPT !.left = @ - 1]
                 ELSE [pc |-> "idle", read |-> Empty, left |-> 0]
    /\ UNCHANGED <<db, builds, dataJs, status, mqtt, conn, browser>>

BuildAsset ==
    /\ poll.pc = "assets"
    /\ stamp' = stamp + 1
    /\ poll' = IF poll.left > 1
                 THEN [poll EXCEPT !.left = @ - 1]
                 ELSE [pc |-> "idle", read |-> Empty, left |-> 0]
    /\ UNCHANGED <<db, builds, dataJs, status, mqtt, conn, browser>>

Build == BuildRead \/ BuildBegin \/ BuildData \/ BuildStatus \/ BuildAsset

\* Whatever fails in the poller or its builder ends the poller.
PollDies ==
    /\ poll.pc \notin {"idle", "dead"}
    /\ poll' = [pc |-> "dead", read |-> Empty, left |-> 0]
    /\ UNCHANGED <<db, builds, files, mqtt, conn, browser>>

-----------------------------------------------------------------------------
(* The server: write_events for one connection.                            *)

\* viewer_status, and the viewer-update event when an asset's version or the
\* layout version in the status file is not the previous one.  The previous
\* status version is advanced before the status event is composed.
ServerLook ==
    /\ conn.pc = "look"
    /\ LET changed == stamp # conn.stamp \/ status.layout # conn.layout
       IN /\ changed \/ conn.fresh
          /\ changed => Len(events) < MaxEvents
          /\ events' = IF changed
                         THEN Append(events, [type |-> "viewer-update", stamp |-> stamp])
                         ELSE events
    /\ conn' = [pc |-> IF conn.fresh THEN "send" ELSE "look",
                stamp |-> stamp, layout |-> status.layout, fresh |-> FALSE]
    /\ UNCHANGED <<db, builds, files, writers, fetch, page, drops>>

\* The status event carries the file as it is read now.
ServerSend ==
    /\ conn.pc = "send"
    /\ Len(events) < MaxEvents
    /\ events' = Append(events, [type |-> "live-status", status |-> status])
    /\ conn' = [conn EXCEPT !.pc = "look"]
    /\ UNCHANGED <<db, builds, files, writers, fetch, page, drops>>

\* /__navimow/live-status reads the file when the request is served.
ServeFetch ==
    /\ fetch.pc = "asked"
    /\ fetch' = [pc |-> "answered", status |-> status]
    /\ UNCHANGED <<db, builds, files, writers, conn, events, page, drops>>

-----------------------------------------------------------------------------
(* The page.                                                               *)

\* Loading reads the viewer data; half-written data is a script error and the
\* page never gets as far as opening its event stream.
LoadPage ==
    /\ page.pc = "loading" \/ (page.pc = "shown" /\ page.reload)
    /\ IF dataJs.whole
         THEN /\ page' = [pc |-> "shown", build |-> dataJs.build,
                          layout |-> dataJs.layout, live |-> dataJs.live,
                          baseline |-> None, reload |-> FALSE]
              /\ conn' = NewConn /\ fetch' = Asked
         ELSE /\ page' = [page EXCEPT !.pc = "broken", !.live = FALSE, !.reload = FALSE]
              /\ conn' = ClosedConn /\ fetch' = NoFetch
    /\ events' = <<>>
    /\ UNCHANGED <<db, builds, files, writers, drops>>

\* Mutant of ApplyStatus: what the page has is merged over what the status says.
ApplyStatusUnder(p, s) ==
    IF s.layout # p.layout THEN [p EXCEPT !.reload = TRUE] ELSE p

\* Mutant of ApplyStatus: the layout version is not compared.
ApplyStatusOfAnyLayout(p, s) == [p EXCEPT !.live = s.live]

\* applyLiveStatus: a status of another layout asks for a reload, one of this
\* layout is merged into the page.
ApplyStatus(p, s) ==
    IF s.layout # p.layout THEN [p EXCEPT !.reload = TRUE]
                           ELSE [p EXCEPT !.live = s.live]

\* viewer-update: the first version of a page is its baseline, another one
\* closes the stream and asks for a reload.
OnViewerUpdate ==
    /\ page.pc = "shown" /\ events # <<>>
    /\ Head(events).type = "viewer-update"
    /\ LET version == Head(events).stamp
       IN IF page.baseline = None
            THEN /\ page' = [page EXCEPT !.baseline = version]
                 /\ events' = Tail(events) /\ UNCHANGED conn
            ELSE IF version = page.baseline
            THEN /\ events' = Tail(events) /\ UNCHANGED <<page, conn>>
            ELSE /\ page' = [page EXCEPT !.reload = TRUE]
                 /\ events' = <<>> /\ conn' = ClosedConn
    /\ UNCHANGED <<db, builds, files, writers, fetch, drops>>

OnLiveStatus ==
    /\ page.pc = "shown" /\ events # <<>>
    /\ Head(events).type = "live-status"
    /\ page' = ApplyStatus(page, Head(events).status)
    /\ events' = Tail(events)
    /\ UNCHANGED <<db, builds, files, writers, conn, fetch, drops>>

\* The response of a fetch, which nothing orders with the events.
OnFetch ==
    /\ page.pc = "shown" /\ fetch.pc = "answered"
    /\ page' = ApplyStatus(page, fetch.status)
    /\ fetch' = NoFetch
    /\ UNCHANGED <<db, builds, files, writers, conn, events, drops>>

\* A fetch that fails is ignored.
FetchFails ==
    /\ fetch.pc # "none"
    /\ fetch' = NoFetch
    /\ UNCHANGED <<db, builds, files, writers, conn, events, page, drops>>

\* The stream breaks: what was under way is lost, the page fetches the status
\* (the bound is one fetch at a time),
\* and the browser reconnects to a loop that knows no previous versions.
StreamError ==
    /\ page.pc = "shown" /\ conn.pc # "closed"
    /\ fetch.pc = "none" /\ drops < MaxDrops /\ builds + drops < MaxTroubles
    /\ drops' = drops + 1
    /\ conn' = NewConn /\ events' = <<>> /\ fetch' = Asked
    /\ UNCHANGED <<db, builds, files, writers, page>>

-----------------------------------------------------------------------------
PollStep == PollIngest \/ PollRefresh \/ Build
Server   == ServerLook \/ ServerSend
Page     == LoadPage \/ OnViewerUpdate \/ OnLiveStatus \/ OnFetch

Next ==
    \/ PollStep \/ PollDies
    \/ MqttIngest \/ MqttRefresh \/ MqttRefreshFails
    \/ Server \/ ServeFetch
    \/ Page \/ FetchFails \/ StreamError

Spec == Init /\ [][Next]_vars

\* The server's loop and the page's event handling go on; a poller that polls
\* completes its iterations and, if it keeps going, begins new ones.  Nothing
\* is assumed of the MQTT listener, of fetches, or of the stream breaking.
Fairness ==
    /\ WF_vars(PollRefresh \/ Build)
    /\ PollKeepsGoing => WF_vars(PollIngest)
    /\ WF_vars(Server)
    /\ WF_vars(LoadPage) /\ WF_vars(OnViewerUpdate \/ OnLiveStatus)

FairSpec == Spec /\ Fairness

-----------------------------------------------------------------------------
(* Properties.                                                             *)

Stopped == poll.pc = "dead" \/ page.pc = "broken"

\* The feed implements LiveView: no picture shows a change that is not stored,
\* and, although a slow listener may put an older status over a newer one and
\* a late response may undo an event, polling on brings every page to show
\* the change for good.
View == INSTANCE LiveView WITH
            stored <- db.live,
            shown  <- page.pc = "shown" /\ page.live,
            gone   <- Stopped
ViewImplemented == View!Spec

\* docs/live-operations-runbook.md:370 "reloads the page when viewer assets or
\* the map layout version change": the page ends up on the built layout and
\* is not for ever reloaded by a status file that names the previous one.
LayoutSettles ==
    <>Stopped \/ <>[](page.pc = "shown" /\ ~page.reload /\ page.layout = dataJs.layout)

\* The build writes its files in an order that never lets the page be told of
\* an asset's new version before the data it will load is that build's: build n
\* writes the assets up to stamp n * ReloadFiles.
ReloadFindsNewData ==
    \A i \in DOMAIN events :
       events[i].type = "viewer-update"
          => events[i].stamp <= dataJs.build * ReloadFiles

\* README.md:49 "the browser consumes full sanitized SSE payloads for in-place
\* updates with the live-status HTTP endpoint as fallback": once nothing is
\* written any more, the page shows what the status file says.
SettlesOnStatusFile ==
    <>Stopped \/ <>[](page.pc = "shown" /\ ~page.reload /\ page.live = status.live)

\* docs/live-operations-runbook.md:370 "reloads the page when viewer assets or
\* the map layout version change": the page does not stay on an old build.
BuildSettles ==
    <>Stopped \/ <>[](page.pc = "shown" /\ page.build = dataJs.build)
=============================================================================
