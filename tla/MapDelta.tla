------------------------------ MODULE MapDelta ------------------------------
(***************************************************************************)
(* Fetching the mower's map: sync-once --map-delta and --routes            *)
(* get-iot-file of tools/navimow_live_sync.py, and download-maps of        *)
(* tools/navimow_state_store.py.  A command asks the plan which routes are *)
(* needed, stores their answers, and downloads the map behind every signed *)
(* URL it finds in the database; the URLs must not outlive the download.   *)
(*                                                                         *)
(* The commands share one SQLite file, of which one writes at a time, and  *)
(* one directory of maps.  They may overlap, be killed between any two     *)
(* steps, and lose their map files to the user.  A map never changes under *)
(* its version, so the content of a file is whole, or a part.              *)
(***************************************************************************)
EXTENDS Integers, Sequences

CONSTANTS
    Runs,         \* commands that may overlap, each started again and again
    Commands,     \* the commands each of them may be
    MaxVersion,   \* bound: how many map versions the service publishes
    Broken,       \* versions whose map inspect_artifact cannot read
    Wishes,       \* what the plan may want for another mower of the database
    MaxEvents     \* bound: how many failures, kills, deletions and logs there are

Versions == 1..MaxVersion
None     == "none"
Left     == "left"
Content  == {"part", "whole"}
AllCommands == {"delta", "delta-only", "artifacts", "download-maps"}
Routes   == {"index2", "map-list", "map-detail", "get-iot-file"}

ASSUME MapDeltaAssumption ==
    /\ None \notin Runs /\ Left \notin Runs
    /\ Commands \in [Runs -> SUBSET AllCommands]
    /\ MaxVersion \in Nat \ {0} /\ MaxEvents \in Nat
    /\ Broken \subseteq Versions
    /\ Wishes \subseteq SUBSET {"detail", "artifact"}

VARIABLES
    published, \* the map version the service answers with (0: it has none)
    elsewhere, \* what the plan wants for the other mower
    \* The database.
    latest,    \* the newest map_resource_events row: its version (0: no row),
               \* and whether it is marked as not current
    urls,      \* <<version, owner>>, map_resource_events rows with a signed URL
    artifacts, \* map_artifacts, the contents recorded for a version
    newest,    \* the content of its row with the highest id
    detailed,  \* whether map_detail_snapshots has a row
    writer,    \* who holds the write lock
    \* The directory of maps.
    file,      \* resource.bin of a version
    tmp,       \* resource.tmp of a version
    \* The commands.
    pc, command,
    todo,      \* the routes still to run
    planned,   \* whether the plan was made
    downloads, \* whether a download follows the routes
    answer,    \* the version in the answer it holds
    rows,      \* the versions whose URLs it has read and not dealt with
    at,        \* the version it is dealing with
    inode,     \* where the file it writes is now: tmp, file, or nowhere
    draft,     \* uncommitted artifact rows: the content of each
    cleared,   \* versions of which it has discarded the URLs, uncommitted
    \* The environment and the history.
    events,
    clashed    \* versions that two commands downloaded at once

world   == <<published, elsewhere>>
records == <<artifacts, newest>>
db      == <<latest, urls, records, detailed, writer>>
maps    == <<file, tmp>>
job     == <<command, todo, planned, downloads>>
loop    == <<rows, at, inode, draft, cleared>>
vars    == <<world, db, maps, pc, job, answer, loop, events, clashed>>

Loop   == {"next", "fetch", "write", "replace", "inspect"}
Window == {"select", "discard"} \cup Loop
PCs    == {"idle", "request", "ingest", "plan"} \cup Window

TypeOK ==
    /\ published \in 0..MaxVersion /\ elsewhere \in Wishes
    /\ latest \in [version : 0..MaxVersion, behind : BOOLEAN]
    /\ urls \subseteq Versions \X (Runs \cup {Left})
    /\ artifacts \in [Versions -> SUBSET Content]
    /\ newest \in [Versions -> Content \cup {None}]
    /\ \A v \in Versions : newest[v] # None <=> newest[v] \in artifacts[v]
    /\ detailed \in BOOLEAN
    /\ writer \in Runs \cup {None}
    /\ file \in [Versions -> Content \cup {None}]
    /\ tmp \in [Versions -> Content \cup {None}]
    /\ pc \in [Runs -> PCs]
    /\ command \in [Runs -> AllCommands \cup {None}]
    /\ todo \in [Runs -> Seq(Routes)]
    /\ \A r \in Runs : pc[r] \in {"request", "ingest"} => todo[r] # <<>>
    /\ planned \in [Runs -> BOOLEAN] /\ downloads \in [Runs -> BOOLEAN]
    /\ answer \in [Runs -> 0..MaxVersion]
    /\ rows \in [Runs -> SUBSET Versions]
    /\ at \in [Runs -> 0..MaxVersion]
    /\ \A r \in Runs : at[r] # 0 <=> pc[r] \in Loop \ {"next"}
    /\ inode \in [Runs -> {None, "tmp", "file"}]
    /\ \A r \in Runs : inode[r] # None => pc[r] = "write"
    /\ draft \in [Runs -> [Versions -> Content \cup {None}]]
    /\ cleared \in [Runs -> SUBSET Versions]
    /\ events \in 0..MaxEvents
    /\ clashed \subseteq Versions

Init ==
    /\ published = 0 /\ elsewhere \in Wishes
    /\ latest = [version |-> 0, behind |-> FALSE]
    /\ urls = {}
    /\ artifacts = [v \in Versions |-> {}]
    /\ newest = [v \in Versions |-> None]
    /\ detailed = FALSE
    /\ writer = None
    /\ file = [v \in Versions |-> None] /\ tmp = [v \in Versions |-> None]
    /\ pc = [r \in Runs |-> "idle"]
    /\ command = [r \in Runs |-> None]
    /\ todo = [r \in Runs |-> <<>>]
    /\ planned = [r \in Runs |-> FALSE] /\ downloads = [r \in Runs |-> FALSE]
    /\ answer = [r \in Runs |-> 0]
    /\ rows = [r \in Runs |-> {}]
    /\ at = [r \in Runs |-> 0]
    /\ inode = [r \in Runs |-> None]
    /\ draft = [r \in Runs |-> [v \in Versions |-> None]]
    /\ cleared = [r \in Runs |-> {}]
    /\ events = 0
    /\ clashed = {}

Counted == events < MaxEvents /\ events' = events + 1

Free(r) == writer \in {None, r}

\* Mutant of Ended: the version it was dealing with is not forgotten.
EndedAtARow(r) ==
    /\ pc' = [pc EXCEPT ![r] = "idle"]
    /\ todo' = [todo EXCEPT ![r] = <<>>]
    /\ rows' = [rows EXCEPT ![r] = {}]
    /\ inode' = [inode EXCEPT ![r] = None]
    /\ draft' = [draft EXCEPT ![r] = [v \in Versions |-> None]]
    /\ cleared' = [cleared EXCEPT ![r] = {}]
    /\ command' = [command EXCEPT ![r] = None]
    /\ UNCHANGED <<planned, downloads, answer, at>>

\* Every end of a command forgets what it held in memory.
Ended(r) ==
    /\ pc' = [pc EXCEPT ![r] = "idle"]
    /\ todo' = [todo EXCEPT ![r] = <<>>]
    /\ planned' = [planned EXCEPT ![r] = FALSE]
    /\ downloads' = [downloads EXCEPT ![r] = FALSE]
    /\ answer' = [answer EXCEPT ![r] = 0]
    /\ rows' = [rows EXCEPT ![r] = {}]
    /\ at' = [at EXCEPT ![r] = 0]
    /\ inode' = [inode EXCEPT ![r] = None]
    /\ draft' = [draft EXCEPT ![r] = [v \in Versions |-> None]]
    /\ cleared' = [cleared EXCEPT ![r] = {}]
    /\ command' = [command EXCEPT ![r] = None]

\* It ends before it committed: the transaction is rolled back.
RolledBack(r) ==
    /\ Ended(r)
    /\ writer' = IF writer = r THEN None ELSE writer
    /\ UNCHANGED <<world, records, maps, latest, detailed, clashed>>

\* It ends where nothing it does itself discards its URLs.
GivesUp(r) ==
    /\ RolledBack(r)
    /\ urls' = {IF u[2] = r THEN <<u[1], Left>> ELSE u : u \in urls}

-----------------------------------------------------------------------------
(* The plan.                                                               *)

\* map_sync_plan_for_device, for the configured mower.
DetailNeeded == ~detailed
ArtifactNeeded ==
    \/ latest.version = 0
    \/ newest[latest.version] = None
    \/ file[latest.version] = None
    \/ latest.behind

Needs == {n \in {"detail", "artifact"} :
            IF n = "detail" THEN DetailNeeded ELSE ArtifactNeeded}

\* map_delta_routes_from_plan: the routes in the order of the plan's actions,
\* each once.  The other mower's actions come first.
RoutesFor(needs) ==
    (IF "detail" \in needs THEN <<"map-list", "map-detail">> ELSE <<>>)
    \o (IF "artifact" \in needs THEN <<"get-iot-file">> ELSE <<>>)

DeltaRoutes ==
    RoutesFor(elsewhere) \o RoutesFor(Needs \ elsewhere)

-----------------------------------------------------------------------------
(* A command up to its download.                                           *)

Keeps(r) == command[r] \in {"delta", "artifacts"}

\* sync-once: map-delta begins with index2, get-iot-file alone needs no plan.
Begin(r, routes, withPlan) ==
    /\ pc' = [pc EXCEPT ![r] = "request"]
    /\ todo' = [todo EXCEPT ![r] = routes]
    /\ planned' = [planned EXCEPT ![r] = ~withPlan]
    /\ downloads' = [downloads EXCEPT ![r] = ~withPlan]

Start(r, c) ==
    /\ pc[r] = "idle" /\ c \in Commands[r]
    /\ command' = [command EXCEPT ![r] = c]
    /\ \/ c \in {"delta", "delta-only"} /\ Begin(r, <<"index2">>, TRUE)
       \/ c = "artifacts" /\ Begin(r, <<"get-iot-file">>, FALSE)
       \/ /\ c = "download-maps"
          /\ pc' = [pc EXCEPT ![r] = "select"]
          /\ UNCHANGED <<todo, planned, downloads>>
    /\ UNCHANGED <<db, loop, world, maps, answer, events, clashed>>

\* The service answers with the version of this moment.
Request(r) ==
    /\ pc[r] = "request"
    /\ answer' = [answer EXCEPT
                     ![r] = IF Head(todo[r]) = "get-iot-file" THEN published ELSE 0]
    /\ pc' = [pc EXCEPT ![r] = "ingest"]
    /\ UNCHANGED <<db, loop, job, world, maps, events, clashed>>

RequestFails(r) == pc[r] = "request" /\ Counted /\ GivesUp(r)

\* index2, map-list: nothing the plan or a download reads.
NothingStored == UNCHANGED <<latest, urls, detailed>>

\* map-detail: one that cannot be decoded is ignored.
DetailStored == detailed' \in {TRUE, detailed} /\ UNCHANGED <<latest, urls>>

\* get-iot-file: an answer without a version is ignored.
ResourceStored(r) ==
    \/ answer[r] = 0 /\ NothingStored
    \/ /\ answer[r] # 0
       /\ latest' = [version |-> answer[r], behind |-> FALSE]
       /\ urls' = IF Keeps(r) THEN urls \cup {<<answer[r], r>>} ELSE urls
       /\ UNCHANGED detailed

\* ingest_route_response: it commits what the route brought.
Stored(r, route) ==
    \/ route \in {"index2", "map-list"} /\ NothingStored
    \/ route = "map-detail" /\ DetailStored
    \/ route = "get-iot-file" /\ ResourceStored(r)

NextPc(r) ==
    IF Tail(todo[r]) # <<>> THEN "request"
    ELSE IF ~planned[r] THEN "plan"
    ELSE IF downloads[r] THEN "select" ELSE "idle"

Ingest(r) ==
    /\ pc[r] = "ingest" /\ writer = None
    /\ Stored(r, Head(todo[r]))
    /\ IF NextPc(r) = "idle"
       THEN Ended(r)
       ELSE /\ pc' = [pc EXCEPT ![r] = NextPc(r)]
            /\ todo' = [todo EXCEPT ![r] = Tail(todo[r])]
            /\ answer' = [answer EXCEPT ![r] = 0]
            /\ UNCHANGED <<loop, command, planned, downloads>>
    /\ UNCHANGED <<world, records, maps, writer, events, clashed>>

\* A statement waits five seconds for the lock, then raises.
IngestLocked(r) ==
    pc[r] = "ingest" /\ writer # None /\ GivesUp(r) /\ UNCHANGED events

\* The plan is made over what is committed.
Plan(r) ==
    /\ pc[r] = "plan"
    /\ IF DeltaRoutes = <<>>
       THEN Ended(r)
       ELSE /\ todo' = [todo EXCEPT ![r] = DeltaRoutes]
            /\ planned' = [planned EXCEPT ![r] = TRUE]
            /\ downloads' = [downloads EXCEPT
                               ![r] = Keeps(r) /\ (ArtifactNeeded \/ "artifact" \in elsewhere)]
            /\ pc' = [pc EXCEPT ![r] = "request"]
            /\ UNCHANGED <<loop, command, answer>>
    /\ UNCHANGED <<db, world, maps, events, clashed>>

-----------------------------------------------------------------------------
(* The download, download_map_artifacts and the two callers of it.         *)

\* The rows with a signed URL, read before anything is written.
Select(r) ==
    /\ pc[r] = "select"
    /\ rows' = [rows EXCEPT ![r] = {u[1] : u \in urls}]
    /\ pc' = [pc EXCEPT ![r] = "next"]
    /\ UNCHANGED <<db, job, world, maps, answer, at, inode, draft, cleared,
                   events, clashed>>

\* The transaction a command writes to begins with its first statement, and
\* holds the lock until it commits.
Cleared(r, v) ==
    /\ Free(r) /\ writer' = r
    /\ cleared' = [cleared EXCEPT ![r] = @ \cup {v}]
    /\ rows' = [rows EXCEPT ![r] = @ \ {v}]
    /\ at' = [at EXCEPT ![r] = 0]
    /\ pc' = [pc EXCEPT ![r] = "next"]
    /\ UNCHANGED <<job, world, records, latest, urls, detailed, answer>>

\* Mutant of Present: whether the file is still there is not asked.
PresentByRow(v) == newest[v] # None

Present(v) == newest[v] # None /\ file[v] = newest[v]

\* The file is there and has the digest of the newest row: skipped.
Skip(r, v) ==
    /\ pc[r] = "next" /\ v \in rows[r] /\ Present(v)
    /\ Cleared(r, v)
    /\ UNCHANGED <<maps, inode, draft, events, clashed>>

\* The URL is not one of the blob host's.
Invalid(r, v) ==
    /\ pc[r] = "next" /\ v \in rows[r] /\ ~Present(v)
    /\ Counted
    /\ Cleared(r, v)
    /\ UNCHANGED <<maps, inode, draft, clashed>>

Open(r, v) ==
    /\ pc[r] = "next" /\ v \in rows[r] /\ ~Present(v)
    /\ at' = [at EXCEPT ![r] = v]
    /\ pc' = [pc EXCEPT ![r] = "fetch"]
    /\ clashed' = IF \E q \in Runs \ {r} : at[q] = v THEN clashed \cup {v} ELSE clashed
    /\ UNCHANGED <<db, job, world, maps, answer, rows, inode, draft, cleared,
                   events>>

\* The body has arrived; write_bytes opens resource.tmp, whoever made it, and
\* truncates it.
Write(r) ==
    /\ pc[r] = "fetch"
    /\ tmp' = [tmp EXCEPT ![at[r]] = "part"]
    /\ inode' = [inode EXCEPT ![r] = "tmp"]
    /\ pc' = [pc EXCEPT ![r] = "write"]
    /\ UNCHANGED <<db, job, world, file, answer, rows, at, draft, cleared,
                   events, clashed>>

Writers(v, where) == {q \in Runs : at[q] = v /\ inode[q] = where}

\* The file it opened is complete when no other command is writing it too.
Filled(r, where) ==
    IF Writers(at[r], where) = {r} THEN "whole" ELSE "part"

Written(r) ==
    /\ pc[r] = "write"
    /\ tmp' = IF inode[r] = "tmp" THEN [tmp EXCEPT ![at[r]] = Filled(r, "tmp")] ELSE tmp
    /\ file' = IF inode[r] = "file" THEN [file EXCEPT ![at[r]] = Filled(r, "file")] ELSE file
    /\ inode' = [inode EXCEPT ![r] = None]
    /\ pc' = [pc EXCEPT ![r] = "replace"]
    /\ UNCHANGED <<db, job, world, answer, rows, at, draft, cleared, events,
                   clashed>>

\* Any failure of the request: the temporary file is deleted, if there is one.
Fails(r) ==
    /\ pc[r] = "fetch"
    /\ Counted
    /\ Cleared(r, at[r])
    /\ tmp' = [tmp EXCEPT ![at[r]] = None]
    /\ inode' = [q \in Runs |->
                   IF q \in Writers(at[r], "tmp") THEN None ELSE inode[q]]
    /\ UNCHANGED <<file, draft, clashed>>

\* temp_target.replace(target): a command that still writes the temporary file
\* writes the map from here on, one that wrote the map writes nothing.
Replace(r) ==
    /\ pc[r] = "replace" /\ tmp[at[r]] # None
    /\ file' = [file EXCEPT ![at[r]] = tmp[at[r]]]
    /\ tmp' = [tmp EXCEPT ![at[r]] = None]
    /\ inode' = [q \in Runs |->
                   IF q \in Writers(at[r], "tmp") THEN "file"
                   ELSE IF q \in Writers(at[r], "file") THEN None ELSE inode[q]]
    /\ pc' = [pc EXCEPT ![r] = "inspect"]
    /\ UNCHANGED <<db, job, world, answer, rows, at, draft, cleared, events,
                   clashed>>

\* Mutant of Raises: the URLs are not discarded in a finally.
RaisesOnly(r) == RolledBack(r) /\ UNCHANGED urls

\* An exception nothing in the loop catches.  sync-once still discards the
\* URLs, and commits with them what the loop had not; download-maps does not.
Raises(r) ==
    IF command[r] = "download-maps"
    THEN RolledBack(r) /\ UNCHANGED urls
    ELSE /\ pc' = [pc EXCEPT ![r] = "discard"]
         /\ rows' = [rows EXCEPT ![r] = {}]
         /\ at' = [at EXCEPT ![r] = 0]
         /\ inode' = [inode EXCEPT ![r] = None]
         /\ UNCHANGED <<db, job, world, maps, answer, draft, cleared, clashed>>

\* The temporary file is gone, or the map is when its digest is taken.
FileLost(r) ==
    /\ \/ pc[r] = "replace" /\ tmp[at[r]] = None
       \/ pc[r] = "inspect" /\ file[at[r]] = None
    /\ Raises(r)
    /\ UNCHANGED events

\* A statement of the loop finds the database locked.
LoopLocked(r) ==
    /\ pc[r] \in {"next", "fetch", "inspect"} /\ ~Free(r)
    /\ pc[r] = "next" => rows[r] # {}
    /\ Raises(r)
    /\ UNCHANGED events

\* The map was inspected: recorded under its digest, or refused.
Unreadable(v) == v \in Broken \/ file[v] = "part"

\* Mutant of Record: the digest is of the first part of the map.
RecordFirstPart(r) ==
    /\ pc[r] = "inspect" /\ file[at[r]] # None /\ at[r] \notin Broken
    /\ Cleared(r, at[r])
    /\ draft' = [draft EXCEPT ![r][at[r]] = "part"]
    /\ UNCHANGED <<maps, inode, events, clashed>>

Record(r) ==
    /\ pc[r] = "inspect" /\ file[at[r]] # None /\ at[r] \notin Broken
    /\ Cleared(r, at[r])
    /\ draft' = [draft EXCEPT ![r][at[r]] = file[at[r]]]
    /\ UNCHANGED <<maps, inode, events, clashed>>

Refuse(r) ==
    /\ pc[r] = "inspect" /\ file[at[r]] # None /\ Unreadable(at[r])
    /\ Cleared(r, at[r])
    /\ UNCHANGED <<maps, inode, draft, events, clashed>>

\* con.commit() at the end of either.
Applied(r) ==
    /\ artifacts' = [v \in Versions |-> artifacts[v] \cup ({draft[r][v]} \ {None})]
    /\ newest' = [v \in Versions |->
                    IF draft[r][v] \in artifacts[v] \cup {None} THEN newest[v]
                    ELSE draft[r][v]]
    /\ writer' = IF writer = r THEN None ELSE writer

Commit(r) ==
    /\ pc[r] = "next" /\ rows[r] = {}
    /\ Applied(r)
    /\ urls' = {u \in urls : u[1] \notin cleared[r]}
    /\ IF command[r] = "download-maps"
       THEN Ended(r)
       ELSE /\ pc' = [pc EXCEPT ![r] = "discard"]
            /\ draft' = [draft EXCEPT ![r] = [v \in Versions |-> None]]
            /\ cleared' = [cleared EXCEPT ![r] = {}]
            /\ UNCHANGED <<job, answer, rows, at, inode>>
    /\ UNCHANGED <<world, maps, latest, detailed, events, clashed>>

\* discard_map_signed_urls, in the finally of download_map_artifacts_and_discard.
Discard(r) ==
    /\ pc[r] = "discard" /\ Free(r)
    /\ Applied(r)
    /\ urls' = {}
    /\ Ended(r)
    /\ UNCHANGED <<world, maps, latest, detailed, events, clashed>>

DiscardLocked(r) ==
    pc[r] = "discard" /\ ~Free(r) /\ GivesUp(r) /\ UNCHANGED events

-----------------------------------------------------------------------------
(* What happens around the commands.                                       *)

Kill(r) ==
    pc[r] # "idle" /\ Counted /\ GivesUp(r)

DeleteFile(v) ==
    /\ file[v] # None /\ Counted
    /\ file' = [file EXCEPT ![v] = None]
    /\ inode' = [q \in Runs |-> IF q \in Writers(v, "file") THEN None ELSE inode[q]]
    /\ UNCHANGED <<db, job, world, tmp, pc, answer, rows, at, draft, cleared,
                   clashed>>

Publish ==
    /\ published < MaxVersion
    /\ published' = published + 1
    /\ UNCHANGED <<db, loop, job, maps, elsewhere, pc, answer, events,
                   clashed>>

\* ingest_log of a capture of any age, with or without --store-signed-urls.
IngestLog(v, behind, keep) ==
    /\ Counted /\ writer = None
    /\ latest' = [version |-> v, behind |-> behind]
    /\ urls' = IF keep THEN urls \cup {<<v, Left>>} ELSE urls
    /\ UNCHANGED <<loop, job, world, records, maps, detailed, writer, pc,
                   answer, clashed>>

Step(r) ==
    \/ Request(r) \/ Ingest(r) \/ Plan(r) \/ Select(r)
    \/ \E v \in Versions : Skip(r, v) \/ Open(r, v) \/ Invalid(r, v)
    \/ Write(r) \/ Written(r) \/ Fails(r) \/ Replace(r) \/ Record(r) \/ Refuse(r)
    \/ Commit(r) \/ Discard(r)
    \/ RequestFails(r) \/ IngestLocked(r) \/ FileLost(r) \/ LoopLocked(r)
    \/ DiscardLocked(r)

Next ==
    \/ \E r \in Runs : Step(r) \/ Kill(r) \/ \E c \in AllCommands : Start(r, c)
    \/ \E v \in Versions : DeleteFile(v)
    \/ Publish
    \/ \E v \in Versions : \E behind, keep \in BOOLEAN : IngestLog(v, behind, keep)

Spec == Init /\ [][Next]_vars

\* No command hangs, and somebody runs map-delta again and again.
FairSpec ==
    /\ Spec
    /\ \A r \in Runs : WF_vars(Step(r)) /\ WF_vars(Start(r, "delta"))

-----------------------------------------------------------------------------
(* What must hold.                                                         *)

\* A signed URL in the database was put there by a capture the user asked to
\* keep it of, or by a command that is still running, or by one that was
\* killed, failed in a later route or found the database locked.  No order of
\* the steps of two commands, no failure of a download leaves another.
UrlsAreTransient ==
    \A u \in urls : u[2] = Left \/ pc[u[2]] # "idle"

\* The newest artifact row of a version has the digest of the file it names,
\* unless the user deleted the file or two commands downloaded it at once:
\* wherever a single command is killed or fails, the row and the file agree.
RowMatchesFile ==
    \A v \in Versions \ clashed : newest[v] # None => file[v] \in {None, newest[v]}

\* As long as somebody runs map-delta, the plan of the mower comes to rest:
\* nothing that happens once or twice leaves an artifact needed forever.  It
\* does not if the service's map cannot be read, or if two downloads overlap
\* again and again: each may discard the URL the other is about to read, or
\* take away the file it has just written.
Overlapping == \E q, r \in Runs : q # r /\ {pc[q], pc[r]} \subseteq Window

PlanComesToRest ==
    \/ <>[]~ArtifactNeeded
    \/ <>[](published \in Broken \cup {0})
    \/ []<>Overlapping
=============================================================================
