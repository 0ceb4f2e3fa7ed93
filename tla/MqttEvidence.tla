---------------------------- MODULE MqttEvidence ----------------------------
(***************************************************************************)
(* MQTT evidence: from the broker through the listener into the store,     *)
(* and from there through the readiness gate into the poller's cadence.    *)
(*                                                                         *)
(* The listener of tools/navimow_mqtt_client.py has two threads: its main  *)
(* thread waits, the network thread calls the handlers.  Its messages, the *)
(* synthetic ones of mqtt-replay-smoke and their removal by                *)
(* mqtt-replay-clear meet in two tables of the SQLite store: every message *)
(* has a compact row, and a typed one if it carries status fields.  The    *)
(* poller asks mqtt_readiness_report whether the typed rows are evidence   *)
(* enough, and only then lets them decide.  It reads the store anew for    *)
(* each of these, while the others go on writing.                          *)
(***************************************************************************)
EXTENDS Integers, FiniteSets, Activity

CONSTANTS
    Payloads,    \* what the broker delivers (real messages)
    Synthetic,   \* what mqtt-replay-smoke makes of its arguments
    Content,     \* what each of them says
    StateTexts,  \* what the state routes of the poller return
    MaxAge,      \* a sample that old is the last to be fresh
    Skew,        \* a sample that far in the future is the last to be taken
    StartTime,   \* the clock's first value
    MaxTime,     \* bound: the clock's last value
    MaxMessages, \* bound: rows ever inserted
    Modes,       \* --max-messages, and whether there is a --duration
    MaxRuns      \* bound: how often the listener is started

Fields == {"batterySoc", "currentPartitionId", "mowingPercentage"}
Labels == {"state", "work_status", "task_status", "event_type"}

\* has: which required fields it carries.  ahead: how far its report time is
\* ahead of the time it is received.  safe: whether it is JSON with fields of
\* MQTT_SAFE_VALUE_KEYS at all.
IsContent(c) ==
    /\ DOMAIN c = {"texts", "has", "ahead", "safe"}
    /\ DOMAIN c.texts = Labels
    /\ c.has \subseteq Fields /\ c.ahead \in Int /\ c.safe \in BOOLEAN

ASSUME EvidenceAssumption ==
    /\ DOMAIN Content = Payloads \cup Synthetic /\ Payloads \cap Synthetic = {}
    /\ \A m \in DOMAIN Content : IsContent(Content[m])
    /\ \A m \in Synthetic : Content[m].safe
    /\ {MaxAge, Skew, StartTime, MaxTime, MaxMessages, MaxRuns} \subseteq Nat
    /\ StartTime <= MaxTime
    /\ Modes \subseteq [limit : Nat, timed : BOOLEAN]

VARIABLES
    clock,
    messages,  \* compact rows: route_snapshot_records of alias mqtt-message
    typed,     \* typed rows: mqtt_status_snapshots
    nextId,
    sample,    \* the newest row of the state routes
    listener,
    runs,      \* how often the listener was started
    poll,      \* the poller's decision in the making
    activity   \* what it decided, until it decides anew

store == <<messages, typed, nextId>>
vars  == <<clock, store, sample, listener, runs, poll, activity>>

Row == [id : Nat, payload : Payloads \cup Synthetic, at : StartTime..MaxTime]

\* main: what the main thread does; in stop it waits for the network thread.  net:
\* the network thread, which is dead once a handler raised.  received counts up to limit, max_messages.  timed: there is
\* a duration.
Listener ==
    [main : {"off", "connect", "wait", "stop"},
     net : {"none", "connack", "idle", "refresh", "dead"},
     received : Nat, done : BOOLEAN, limit : Nat, timed : BOOLEAN]
Off == [main |-> "off", net |-> "none", received |-> 0, done |-> FALSE,
        limit |-> 0, timed |-> FALSE]

NoSample == [text |-> NoText, at |-> 0]
Unknown  == [state |-> "unknown", source |-> "none"]

TypeOK ==
    /\ clock \in StartTime..MaxTime
    /\ messages \subseteq Row /\ typed \subseteq Row
    /\ nextId \in 0..MaxMessages
    /\ \A m \in messages \cup typed : m.id < nextId /\ m.at <= clock
    /\ sample \in [text : StateTexts \cup {NoText}, at : 0..MaxTime]
    /\ listener \in Listener /\ runs \in 0..MaxRuns
    /\ listener.net = "none" <=> listener.main \in {"off", "connect"}
    /\ poll \in [pc : {"idle", "gate", "decide"}, counted : BOOLEAN, ready : BOOLEAN]
    /\ activity \in [state : {"active", "idle", "unknown"},
                     source : {"none", "mqtt-message", "mower-state"}]

Init ==
    /\ clock = StartTime
    /\ messages = {} /\ typed = {} /\ nextId = 0
    /\ sample = NoSample
    /\ listener = Off /\ runs = 0
    /\ poll = [pc |-> "idle", counted |-> FALSE, ready |-> FALSE]
    /\ activity = Unknown

Tick ==
    /\ clock < MaxTime
    /\ clock' = clock + 1
    /\ UNCHANGED <<store, sample, listener, runs, poll, activity>>

-----------------------------------------------------------------------------
(* The store.                                                              *)

Real(rows) == {r \in rows : r.payload \notin Synthetic}

\* insert_mqtt_status_snapshot: nothing without one of the safe fields.
TypedOf(row) == {r \in {row} : Content[r.payload].safe}

\* insert_route_snapshot_record, both rows in one commit.
Ingest(payload) ==
    LET row == [id |-> nextId, payload |-> payload, at |-> clock] IN
    /\ nextId < MaxMessages
    /\ nextId' = nextId + 1
    /\ messages' = messages \cup {row}
    /\ typed' = typed \cup TypedOf(row)

\* mqtt-replay-smoke; its status refresh is LiveFeed's.
Replay(payload) ==
    /\ Ingest(payload)
    /\ UNCHANGED <<clock, sample, listener, runs, poll, activity>>

\* Mutant of Clear: the typed rows are left.
ClearMessages ==
    /\ messages' = Real(messages)
    /\ UNCHANGED <<clock, typed, nextId, sample, listener, runs, poll, activity>>

\* Mutant of Clear: every typed row goes, as its alias is the same.
ClearByAlias ==
    /\ messages' = Real(messages) /\ typed' = {}
    /\ UNCHANGED <<clock, nextId, sample, listener, runs, poll, activity>>

\* clear_mqtt_replay_smoke: both tables in one commit.
Clear ==
    /\ messages' = Real(messages)
    /\ typed' = Real(typed)
    /\ UNCHANGED <<clock, nextId, sample, listener, runs, poll, activity>>

\* A pass of the poller stores what a state route returns.
Sample(text) ==
    /\ sample' = [text |-> text, at |-> clock]
    /\ UNCHANGED <<clock, store, listener, runs, poll, activity>>

-----------------------------------------------------------------------------
(* The listener.                                                           *)

Unlistened == <<clock, sample, runs, poll, activity>>

\* cmd_mqtt_listen; metadata that cannot be had or has no topics ends it at once.
Start(mode) ==
    /\ listener.main = "off" /\ runs < MaxRuns
    /\ runs' = runs + 1
    /\ listener' = [Off EXCEPT !.main = "connect", !.limit = mode.limit,
                          !.timed = mode.timed]
    /\ UNCHANGED <<clock, store, sample, poll, activity>>

\* client.connect raises, or the network thread is started.
Connect ==
    /\ listener.main = "connect"
    /\ \/ listener' = Off
       \/ listener' = [listener EXCEPT !.main = "wait", !.net = "connack"]
    /\ UNCHANGED <<store, Unlistened>>

\* handle_connect subscribes, or ends the wait if the broker refuses.
Connected ==
    /\ listener.net = "connack"
    /\ \/ listener' = [listener EXCEPT !.net = "idle"]
       \/ listener' = [listener EXCEPT !.done = TRUE]
    /\ UNCHANGED <<store, Unlistened>>

LimitReached == listener.limit > 0 /\ listener.received >= listener.limit

Received == IF listener.received < listener.limit THEN listener.received + 1
            ELSE listener.received

\* handle_message up to the commit of ingest_mqtt_message.  It goes on until it is
\* told to stop, even if the limit is reached.
Message(payload) ==
    /\ listener.main = "wait" /\ listener.net = "idle"
    /\ listener' = [listener EXCEPT !.net = "refresh", !.received = Received]
    /\ Ingest(payload)
    /\ UNCHANGED Unlistened

\* The store is locked for longer than its timeout: nothing catches that, and
\* the network thread ends.
MessageFails ==
    /\ listener.main = "wait" /\ listener.net = "idle"
    /\ listener' = [listener EXCEPT !.net = "dead", !.received = Received]
    /\ UNCHANGED <<store, Unlistened>>

\* Mutant of Handled: the limit is one more.
HandledOneMore ==
    /\ listener.net = "refresh"
    /\ listener' = [listener EXCEPT !.net = "idle",
                        !.done = @ \/ (LimitReached /\ listener.received > listener.limit)]
    /\ UNCHANGED <<store, Unlistened>>

\* The rest of it.  A status refresh that fails is only noted.
Handled ==
    /\ listener.net = "refresh"
    /\ listener' = [listener EXCEPT !.net = "idle",
                        !.done = @ \/ LimitReached]
    /\ UNCHANGED <<store, Unlistened>>

\* done.wait returns.
Return ==
    /\ listener.main = "wait"
    /\ listener.done \/ listener.timed
    /\ listener' = [listener EXCEPT !.main = "stop"]
    /\ UNCHANGED <<store, Unlistened>>

\* Mutant of Stop: the process is over, its network thread is not.
StopMainOnly ==
    /\ listener.main = "stop" /\ listener.net # "refresh"
    /\ listener' = [listener EXCEPT !.main = "off"]
    /\ UNCHANGED <<store, Unlistened>>

\* loop_stop waits for a handler that runs, and the process ends.
Stop ==
    /\ listener.main = "stop" /\ listener.net # "refresh"
    /\ listener' = Off
    /\ UNCHANGED <<store, Unlistened>>

\* A signal ends the process wherever it is.
Kill ==
    /\ listener.main # "off"
    /\ listener' = Off
    /\ UNCHANGED <<store, Unlistened>>

-----------------------------------------------------------------------------
(* The readiness gate.                                                     *)

\* The report time if it has one, else the time it was received.
Time(row) == row.at + Content[row.payload].ahead

Classes ==
    [m \in Payloads \cup Synthetic |->
        [label \in Labels |-> ActivityClass(Content[m].texts[label])]]

\* mqtt_row_activity_class: the first text that says something.
GateOrder == <<"state", "work_status", "task_status", "event_type">>
RowClass ==
    [m \in Payloads \cup Synthetic |->
        LET known == {i \in 1..4 : Classes[m][GateOrder[i]] # "unknown"}
        IN  IF known = {} THEN "unknown"
            ELSE Classes[m][GateOrder[CHOOSE i \in known : \A j \in known : i <= j]]]

\* Mutant of Evidence: the synthetic rows are not filtered.
EveryRow == typed

\* mqtt_real_sample_evidence and has_meaningful_mqtt_state_enum.
Evidence == Real(typed)
Evidenced ==
    /\ \E r \in Evidence : RowClass[r.payload] = "active"
    /\ \E r \in Evidence : RowClass[r.payload] = "idle"
    /\ \E r \in Evidence : \E label \in Labels \ {"event_type"} :
          Classes[r.payload][label] # "unknown"
    /\ \A field \in Fields : \E r \in Evidence : field \in Content[r.payload].has

\* Mutant of Latest: the time of the row received last.
LastReceived ==
    Time(CHOOSE r \in Evidence : \A q \in Evidence : q.id <= r.id)

Latest == CHOOSE t \in {Time(r) : r \in Evidence} : \A r \in Evidence : Time(r) <= t

\* Mutant of Ready: stale evidence is no gap.
ReadyOnceEvidenced == Evidenced /\ Latest > 0 /\ clock - Latest >= -Skew

\* mqtt_readiness_gaps finds none.
Ready ==
    /\ Evidenced
    /\ Latest > 0
    /\ clock - Latest \in -Skew..MaxAge

-----------------------------------------------------------------------------
(* The poller: live_activity_state.                                        *)

Undecided == <<clock, store, sample, listener, runs>>

\* load_mqtt_sample_rows: the synthetic ones too.
Samples == typed

\* mqtt_sample_report counts them.
Count ==
    /\ poll.pc = "idle"
    /\ poll' = [poll EXCEPT !.pc = "gate", !.counted = Samples # {}]
    /\ activity' = Unknown
    /\ UNCHANGED Undecided

\* mqtt_real_sample_evidence, over a connection of its own.
Gate ==
    /\ poll.pc = "gate"
    /\ poll' = [pc |-> "decide", counted |-> FALSE, ready |-> poll.counted /\ Ready]
    /\ UNCHANGED <<Undecided, activity>>

\* The newest typed row, the synthetic ones too.
Newest ==
    CHOOSE r \in typed : \A q \in typed :
        Time(q) < Time(r) \/ (Time(q) = Time(r) /\ q.id <= r.id)

DecisionOrder == <<"state", "task_status", "work_status", "event_type">>
MqttCandidates ==
    IF poll.ready /\ typed # {}
    THEN {[class |-> Classes[Newest.payload][DecisionOrder[i]], time |-> Time(Newest),
           rank |-> i, source |-> "mqtt-message"] : i \in 1..4}
    ELSE {}
StateCandidates ==
    {[class |-> ActivityClass(sample.text), time |-> sample.at, rank |-> 5, source |-> "mower-state"]}

IsFresh(time) == time > 0 /\ clock - time \in -Skew..MaxAge

\* Of what is fresh and says something the newest decides.
Decide ==
    LET candidates == {c \in MqttCandidates \cup StateCandidates :
                         IsFresh(c.time) /\ c.class # "unknown"}
        first == CHOOSE c \in candidates : \A d \in candidates :
                    d.time < c.time \/ (d.time = c.time /\ c.rank <= d.rank)
    IN
    /\ poll.pc = "decide"
    /\ poll' = [pc |-> "idle", counted |-> FALSE, ready |-> FALSE]
    /\ activity' = IF candidates = {} THEN Unknown
                   ELSE [state |-> first.class, source |-> first.source]
    /\ UNCHANGED Undecided

Next ==
    \/ Tick \/ Clear \/ Connect \/ Connected \/ MessageFails \/ Handled \/ Return
    \/ Stop \/ Kill
    \/ Count \/ Gate \/ Decide
    \/ \E payload \in Synthetic : Replay(payload)
    \/ \E payload \in Payloads : Message(payload)
    \/ \E text \in StateTexts : Sample(text)
    \/ \E mode \in Modes : Start(mode)

Spec == Init /\ [][Next]_vars

\* The threads of a listener are scheduled, and a wait with a timeout ends.
FairSpec ==
    Spec /\ WF_vars(Connect) /\ WF_vars(Return) /\ WF_vars(Stop) /\ WF_vars(Handled)

-----------------------------------------------------------------------------
(* What must hold.                                                         *)

\* Every message that carries status fields has one typed row, and no typed row
\* lacks its message, whatever is cleared while messages arrive.
RowsInStep == typed = {m \in messages : Content[m.payload].safe}

\* Neither a replay nor its removal changes what the gate says.
ReplayInvisible ==
    [][(\E m \in Synthetic : Replay(m)) \/ Clear => Ready' = Ready]_store

\* Evidence, once it is enough, is lost by time only: no message that arrives
\* late, twice or out of order takes it away, unless it claims to be from the
\* future.
LostByTimeOnly ==
    [][clock' = clock /\ Ready /\ ~Ready' =>
          \E m \in messages' \ messages : Content[m.payload].ahead > Skew]_store

\* As long as no message claims to be from the future, the gate is open only if
\* a real message was received lately, whatever was replayed.
ReadyMeansRecent ==
    Ready /\ (\A m \in Evidence : Content[m.payload].ahead <= Skew) =>
        \E m \in Evidence : clock - m.at <= MaxAge + Skew

\* A decision drawn from MQTT has real samples of both sorts behind it, although
\* messages come in and replays are cleared between the gate and the decision.
MqttDecides == activity.source = "mqtt-message" \/ poll.ready => Evidenced

\* A listener with a duration, one whose limit is reached and one that is refused
\* all end, even if messages keep coming; one whose network thread has died ends
\* only if it has a duration.
ListenerEnds ==
    listener.timed \/ listener.done \/ (LimitReached /\ listener.net # "dead")
        ~> listener.main = "off"
=============================================================================
