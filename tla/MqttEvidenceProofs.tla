------------------------- MODULE MqttEvidenceProofs -------------------------
(***************************************************************************)
(* Proofs about MqttEvidence, for any payloads, clock, number of messages  *)
(* and listener.                                                           *)
(***************************************************************************)
EXTENDS MqttEvidence, Induction, TLAPS

PollOK == poll \in [pc : {"idle", "gate", "decide"}, counted : BOOLEAN, ready : BOOLEAN]

\* typed is finite, so that its newest row, and the newest time of the evidence,
\* exist.
IInv == TypeOK /\ IsFiniteSet(typed) /\ RowsInStep /\ MqttDecides

\* Evidence is in the real rows only, and more of them are more of it.
LEMMA EvidencedFacts ==
    ASSUME Evidenced, Real(typed) \subseteq Real(typed)'
    PROVE  Evidenced'
<1>1. Evidence \subseteq Evidence'
  BY DEF Evidence
<1>2. /\ \E r \in Evidence' : RowClass[r.payload] = "active"
      /\ \E r \in Evidence' : RowClass[r.payload] = "idle"
  BY <1>1 DEF Evidenced
<1>3. \E r \in Evidence' : \E label \in Labels \ {"event_type"} :
         Classes[r.payload][label] # "unknown"
  BY <1>1 DEF Evidenced
<1>4. \A field \in Fields : \E r \in Evidence' : field \in Content[r.payload].has
  BY <1>1 DEF Evidenced
<1> QED BY <1>2, <1>3, <1>4 DEF Evidenced

\* What a step may do to the real rows.
LEMMA RealFacts ==
    ASSUME [Next]_vars
    PROVE  Real(typed) \subseteq Real(typed)'
<1>1. ASSUME NEW payload \in Payloads \cup Synthetic, Ingest(payload)
      PROVE  Real(typed) \subseteq Real(typed)'
  <2>1. typed \subseteq typed'
    BY <1>1 DEF Ingest
  <2> QED BY <2>1 DEF Real
<1>2. CASE Clear
  BY <1>2 DEF Clear, Real
<1>3. ASSUME typed' = typed PROVE Real(typed) \subseteq Real(typed)'
  BY <1>3 DEF Real
<1>4. ASSUME NEW payload \in Synthetic, Replay(payload) PROVE Real(typed) \subseteq Real(typed)'
  BY <1>1, <1>4 DEF Replay
<1>5. ASSUME NEW payload \in Payloads, Message(payload) PROVE Real(typed) \subseteq Real(typed)'
  BY <1>1, <1>5 DEF Message
<1>6. CASE Tick \/ Connect \/ Connected \/ MessageFails \/ Handled \/ Return \/ Stop \/ Kill
  BY <1>3, <1>6 DEF Tick, Connect, Connected, MessageFails, Handled, Return, Stop, Kill, store
<1>7. CASE Count \/ Gate \/ Decide
  BY <1>3, <1>7 DEF Count, Gate, Decide, Undecided, store
<1>8. ASSUME NEW text \in StateTexts, Sample(text) PROVE Real(typed) \subseteq Real(typed)'
  BY <1>3, <1>8 DEF Sample, store
<1>9. ASSUME NEW mode \in Modes, Start(mode) PROVE Real(typed) \subseteq Real(typed)'
  BY <1>3, <1>9 DEF Start, store
<1>10. CASE UNCHANGED vars
  BY <1>3, <1>10 DEF vars, store
<1> QED BY <1>2, <1>4, <1>5, <1>6, <1>7, <1>8, <1>9, <1>10 DEF Next

\* The two tables move together.
LEMMA RowsStep == RowsInStep /\ [Next]_vars => RowsInStep'
<1> SUFFICES ASSUME RowsInStep, [Next]_vars PROVE RowsInStep'
  OBVIOUS
<1>1. ASSUME NEW payload, Ingest(payload) PROVE RowsInStep'
  <2> DEFINE row == [id |-> nextId, payload |-> payload, at |-> clock]
  <2>1. /\ messages' = messages \cup {row} /\ row.payload = payload
        /\ typed' = IF Content[payload].safe THEN typed \cup {row} ELSE typed
    BY <1>1 DEF Ingest, TypedOf
  <2> HIDE DEF row
  <2>2. CASE Content[payload].safe
    BY <2>1, <2>2 DEF RowsInStep
  <2>3. CASE ~Content[payload].safe
    BY <2>1, <2>3 DEF RowsInStep
  <2> QED BY <2>2, <2>3
<1>2. CASE Clear
  BY <1>2 DEF Clear, Real, RowsInStep
<1>3. ASSUME UNCHANGED store PROVE RowsInStep'
  BY <1>3 DEF RowsInStep, store
<1>4. ASSUME NEW payload \in Synthetic, Replay(payload) PROVE RowsInStep'
  BY <1>1, <1>4 DEF Replay
<1>5. ASSUME NEW payload \in Payloads, Message(payload) PROVE RowsInStep'
  BY <1>1, <1>5 DEF Message
<1>6. CASE Tick \/ Connect \/ Connected \/ MessageFails \/ Handled \/ Return \/ Stop \/ Kill
  BY <1>3, <1>6 DEF Tick, Connect, Connected, MessageFails, Handled, Return, Stop, Kill
<1>7. CASE Count \/ Gate \/ Decide
  BY <1>3, <1>7 DEF Count, Gate, Decide, Undecided
<1>8. ASSUME NEW text \in StateTexts, Sample(text) PROVE RowsInStep'
  BY <1>3, <1>8 DEF Sample
<1>9. ASSUME NEW mode \in Modes, Start(mode) PROVE RowsInStep'
  BY <1>3, <1>9 DEF Start
<1>10. CASE UNCHANGED vars
  BY <1>3, <1>10 DEF vars
<1> QED BY <1>2, <1>4, <1>5, <1>6, <1>7, <1>8, <1>9, <1>10 DEF Next

\* Without the gate's leave a decision is the state route's.
LEMMA DecideFacts ==
    ASSUME Decide, ~poll.ready
    PROVE  activity'.source # "mqtt-message"
<1> DEFINE candidates == {c \in MqttCandidates \cup StateCandidates :
                            IsFresh(c.time) /\ c.class # "unknown"}
           first == CHOOSE c \in candidates : \A d \in candidates :
                       d.time < c.time \/ (d.time = c.time /\ c.rank <= d.rank)
           state == [class |-> ActivityClass(sample.text), time |-> sample.at, rank |-> 5,
                     source |-> "mower-state"]
<1>1. activity' = IF candidates = {} THEN Unknown
                  ELSE [state |-> first.class, source |-> first.source]
  BY DEF Decide
<1>2. candidates \subseteq {state}
  BY DEF MqttCandidates, StateCandidates
<1>3. state.source = "mower-state" /\ state.rank = 5
  OBVIOUS
<1> HIDE DEF candidates, state
<1>4. CASE candidates # {}
  <2>1. candidates = {state}
    BY <1>2, <1>4
  <2>2. \A d \in candidates : d.time < state.time \/ (d.time = state.time /\ state.rank <= d.rank)
    BY <1>3, <2>1
  <2>3. first \in candidates
    BY <2>1, <2>2
  <2> QED BY <1>1, <1>3, <1>4, <2>1, <2>3
<1>5. CASE candidates = {}
  BY <1>1, <1>5 DEF Unknown
<1> QED BY <1>4, <1>5

LEMMA DecidesStep == PollOK /\ MqttDecides /\ [Next]_vars => PollOK' /\ MqttDecides'
<1> SUFFICES ASSUME PollOK, MqttDecides, [Next]_vars PROVE PollOK' /\ MqttDecides'
  OBVIOUS
<1>1. Evidenced => Evidenced'
  BY EvidencedFacts, RealFacts
<1>2. ASSUME UNCHANGED <<poll, activity>> PROVE PollOK' /\ MqttDecides'
  BY <1>1, <1>2 DEF PollOK, MqttDecides
<1>3. CASE Count
  <2>1. /\ activity' = Unknown /\ poll' = [poll EXCEPT !.pc = "gate", !.counted = typed # {}]
    BY <1>3 DEF Count, Samples
  <2>2. PollOK' /\ poll'.ready = poll.ready /\ activity'.source = "none"
    BY <2>1 DEF PollOK, Unknown
  <2> QED BY <1>1, <2>2 DEF MqttDecides
<1>4. CASE Gate
  <2>1. /\ poll' = [pc |-> "decide", counted |-> FALSE, ready |-> poll.counted /\ Ready]
        /\ activity' = activity
    BY <1>4 DEF Gate
  <2>2. PollOK' /\ (poll'.ready => Ready)
    BY <2>1 DEF PollOK
  <2> QED BY <1>1, <2>1, <2>2 DEF MqttDecides, Ready
<1>5. CASE Decide
  <2>1. poll' = [pc |-> "idle", counted |-> FALSE, ready |-> FALSE]
    BY <1>5 DEF Decide
  <2>2. PollOK' /\ poll'.ready = FALSE
    BY <2>1 DEF PollOK
  <2>3. activity'.source = "mqtt-message" => poll.ready
    BY <1>5, DecideFacts
  <2> QED BY <1>1, <2>2, <2>3 DEF MqttDecides
<1>6. CASE Tick \/ Clear \/ Connect \/ Connected \/ MessageFails \/ Handled \/ Return \/ Stop \/ Kill
  BY <1>2, <1>6 DEF Tick, Clear, Connect, Connected, MessageFails, Handled, Return, Stop, Kill,
                    Unlistened
<1>7. ASSUME NEW payload, Replay(payload) \/ Message(payload) PROVE PollOK' /\ MqttDecides'
  BY <1>2, <1>7 DEF Replay, Message, Unlistened
<1>8. ASSUME NEW text \in StateTexts, Sample(text) PROVE PollOK' /\ MqttDecides'
  BY <1>2, <1>8 DEF Sample
<1>9. ASSUME NEW mode \in Modes, Start(mode) PROVE PollOK' /\ MqttDecides'
  BY <1>2, <1>9 DEF Start
<1>10. CASE UNCHANGED vars
  BY <1>2, <1>10 DEF vars
<1> QED BY <1>3, <1>4, <1>5, <1>6, <1>7, <1>8, <1>9, <1>10 DEF Next

-----------------------------------------------------------------------------
\* The three answers of the classifier.
LEMMA ActivityClassType == \A t : ActivityClass(t) \in {"active", "idle", "unknown"}
BY DEF ActivityClass

LEMMA ContentType ==
    /\ \A r \in Row : Time(r) \in Int
    /\ \A m \in Payloads \cup Synthetic : IsContent(Content[m])
    /\ {MaxAge, Skew, StartTime, MaxTime, MaxMessages, MaxRuns} \subseteq Nat
<1>1. \A m \in Payloads \cup Synthetic : IsContent(Content[m])
  BY EvidenceAssumption
<1>2. ASSUME NEW r \in Row PROVE Time(r) \in Int
  <2>1. r.at \in Int /\ Content[r.payload].ahead \in Int
    BY <1>1, EvidenceAssumption DEF Row, IsContent
  <2> QED BY <2>1 DEF Time
<1> QED BY <1>1, <1>2, EvidenceAssumption

\* The newest of some typed rows by time, then by id, exists.
LEMMA NewestExists ==
    ASSUME typed \subseteq Row, IsFiniteSet(typed), typed # {}
    PROVE  Newest \in typed
<1> DEFINE Below(q, r) == Time(q) < Time(r) \/ (Time(q) = Time(r) /\ q.id <= r.id)
           R == {p \in Row \X Row : Below(p[1], p[2])}
<1>1. \A q \in Row : Time(q) \in Int /\ q.id \in Int
  BY ContentType DEF Row
<1>2. \A x, y \in Row : <<x, y>> \in R <=> Below(x, y)
  OBVIOUS
<1>3. \A x, y \in Row : Below(x, y) \/ Below(y, x)
  BY <1>1
<1>4. \A x, y, z \in Row : Below(x, y) /\ Below(y, z) => Below(x, z)
  BY <1>1
<1> HIDE DEF R, Below
<1>5. \E m \in typed : \A n \in typed : <<n, m>> \in R
  BY <1>2, <1>3, <1>4, GreatestBy
<1>6. \E m \in typed : \A n \in typed : Below(n, m)
  BY <1>2, <1>5
<1> QED BY <1>6 DEF Below, Newest

\* The newest time of some rows is that of one of them.
NewestTime(rows) == CHOOSE t \in {Time(r) : r \in rows} : \A r \in rows : Time(r) <= t

LEMMA NewestTimeFacts ==
    ASSUME NEW rows \in SUBSET Row, IsFiniteSet(rows), rows # {}
    PROVE  /\ \A r \in rows : Time(r) <= NewestTime(rows)
           /\ \E r \in rows : Time(r) = NewestTime(rows)
<1> DEFINE f == [r \in rows |-> Time(r)]
           times == {f[r] : r \in rows}
<1>1. \A r \in rows : Time(r) \in Int
  BY ContentType
<1>2. f = [r \in rows |-> f[r]]
  OBVIOUS
<1>3. times = {Time(r) : r \in rows} /\ times \subseteq Int /\ times # {}
  BY <1>1
<1> HIDE DEF f
<1>4. IsFiniteSet(times)
  BY <1>2, FiniteImage
<1> HIDE DEF times
<1>5. \E t \in times : \A u \in times : u <= t
  BY <1>3, <1>4, Greatest
<1>6. \E t \in {Time(r) : r \in rows} : \A r \in rows : Time(r) <= t
  BY <1>3, <1>5
<1>7. NewestTime(rows) \in {Time(r) : r \in rows} /\ \A r \in rows : Time(r) <= NewestTime(rows)
  BY <1>6 DEF NewestTime
<1> QED BY <1>7

\* Of the at most five candidates the first is one of them.
LEMMA DecideType ==
    ASSUME TypeOK, IsFiniteSet(typed), Decide
    PROVE  activity' \in [state : {"active", "idle", "unknown"},
                          source : {"none", "mqtt-message", "mower-state"}]
<1> DEFINE Candidate == [class : {"active", "idle", "unknown"}, time : Int, rank : 1..5,
                         source : {"mqtt-message", "mower-state"}]
           f == [i \in 1..4 |->
                   [class |-> Classes[Newest.payload][DecisionOrder[i]],
                    time |-> Time(Newest), rank |-> i, source |-> "mqtt-message"]]
           candidates == {c \in MqttCandidates \cup StateCandidates :
                            IsFresh(c.time) /\ c.class # "unknown"}
           Before(d, c) == d.time < c.time \/ (d.time = c.time /\ c.rank <= d.rank)
           first == CHOOSE c \in candidates : \A d \in candidates : Before(d, c)
           R == {p \in Candidate \X Candidate : Before(p[1], p[2])}
<1>1. activity' = IF candidates = {} THEN Unknown
                  ELSE [state |-> first.class, source |-> first.source]
  BY DEF Decide
<1>2. StateCandidates \subseteq Candidate /\ IsFiniteSet(StateCandidates)
  <2>1. sample.at \in Int
    BY ContentType DEF TypeOK
  <2>2. ActivityClass(sample.text) \in {"active", "idle", "unknown"}
    BY ActivityClassType
  <2> DEFINE c == [class |-> ActivityClass(sample.text), time |-> sample.at, rank |-> 5,
                   source |-> "mower-state"]
  <2>3. c \in Candidate
    BY <2>1, <2>2
  <2>4. StateCandidates = {c}
    BY DEF StateCandidates
  <2> HIDE DEF c, Candidate
  <2> QED BY <2>3, <2>4, FS_Singleton
<1>3. MqttCandidates \subseteq Candidate /\ IsFiniteSet(MqttCandidates)
  <2>1. CASE MqttCandidates = {}
    BY <2>1, FS_EmptySet
  <2>2. CASE MqttCandidates # {}
    <3>1. MqttCandidates = {f[i] : i \in 1..4} /\ typed # {}
      BY <2>2 DEF MqttCandidates
    <3>2. Newest \in Row
      BY <3>1, NewestExists DEF TypeOK
    <3>3. \A i \in 1..4 : DecisionOrder[i] \in Labels
      BY DEF DecisionOrder, Labels
    <3>4. \A i \in 1..4 : Classes[Newest.payload][DecisionOrder[i]] \in {"active", "idle", "unknown"}
      <4>1. Newest.payload \in Payloads \cup Synthetic
        BY <3>2 DEF Row
      <4> QED BY <3>3, <4>1, ActivityClassType DEF Classes
    <3>5. Time(Newest) \in Int
      BY <3>2, ContentType
    <3>6. \A i \in 1..4 : f[i] \in Candidate
      BY <3>4, <3>5
    <3>7. f = [i \in 1..4 |-> f[i]]
      OBVIOUS
    <3> HIDE DEF f
    <3>8. IsFiniteSet(1..4)
      BY 1 \in Int, 4 \in Int, FS_Interval
    <3>9. IsFiniteSet({f[i] : i \in 1..4})
      BY <3>7, <3>8, FiniteImage
    <3> QED BY <3>1, <3>6, <3>9
  <2> QED BY <2>1, <2>2
<1>4. candidates \subseteq Candidate /\ IsFiniteSet(candidates)
  <2>1. IsFiniteSet(MqttCandidates \cup StateCandidates)
    BY <1>2, <1>3, FS_Union
  <2>2. candidates \in SUBSET (MqttCandidates \cup StateCandidates)
    OBVIOUS
  <2> HIDE DEF candidates
  <2> QED BY <1>2, <1>3, <2>1, <2>2, FS_Subset
<1>5. \A x, y \in Candidate : <<x, y>> \in R <=> Before(x, y)
  OBVIOUS
<1>6. \A x, y \in Candidate : Before(x, y) \/ Before(y, x)
  OBVIOUS
<1>7. \A x, y, z \in Candidate : Before(x, y) /\ Before(y, z) => Before(x, z)
  OBVIOUS
<1> HIDE DEF R, Before, candidates
<1>8. CASE candidates # {}
  <2> HIDE DEF Candidate
  <2>1. \E m \in candidates : \A n \in candidates : <<n, m>> \in R
    BY <1>4, <1>5, <1>6, <1>7, <1>8, GreatestBy
  <2>2. \E m \in candidates : \A n \in candidates : Before(n, m)
    BY <1>4, <1>5, <2>1
  <2>3. first \in Candidate
    BY <1>4, <2>2
  <2> QED BY <1>1, <1>8, <2>3 DEF Candidate
<1>9. CASE candidates = {}
  BY <1>1, <1>9 DEF Unknown
<1> QED BY <1>8, <1>9

\* The tables' rows, and what a step does to them.
LEMMA RowsType ==
    ASSUME TypeOK, IsFiniteSet(typed), [Next]_vars
    PROVE  /\ messages' \subseteq Row /\ typed' \subseteq Row
           /\ nextId' \in 0..MaxMessages
           /\ \A m \in messages' \cup typed' : m.id < nextId' /\ m.at <= clock'
           /\ IsFiniteSet(typed')
           /\ clock' \in StartTime..MaxTime
<1> DEFINE Goal == /\ messages' \subseteq Row /\ typed' \subseteq Row
                   /\ nextId' \in 0..MaxMessages
                   /\ \A m \in messages' \cup typed' : m.id < nextId' /\ m.at <= clock'
                   /\ IsFiniteSet(typed')
                   /\ clock' \in StartTime..MaxTime
<1>1. /\ clock \in StartTime..MaxTime /\ clock \in Nat
      /\ messages \subseteq Row /\ typed \subseteq Row /\ nextId \in 0..MaxMessages
      /\ \A m \in messages \cup typed : m.id \in Nat /\ m.at \in Nat /\ m.id < nextId /\ m.at <= clock
  BY ContentType DEF TypeOK, Row
<1>2. ASSUME NEW payload \in Payloads \cup Synthetic, Ingest(payload), clock' = clock PROVE Goal
  <2> DEFINE row == [id |-> nextId, payload |-> payload, at |-> clock]
  <2>1. /\ nextId < MaxMessages /\ nextId' = nextId + 1
        /\ messages' = messages \cup {row}
        /\ typed' = typed \/ typed' = typed \cup {row}
    BY <1>2 DEF Ingest, TypedOf
  <2>2. row \in Row /\ row.id = nextId /\ row.at = clock
    BY <1>1 DEF Row
  <2> HIDE DEF row
  <2>3. IsFiniteSet(typed')
    BY <2>1, FS_AddElement
  <2>4. nextId' \in 0..MaxMessages /\ nextId < nextId' /\ clock <= clock'
    BY <1>1, <1>2, <2>1, ContentType
  <2>5. ASSUME NEW m \in messages' \cup typed' PROVE m \in Row /\ m.id < nextId' /\ m.at <= clock'
    <3>1. CASE m = row
      BY <2>2, <2>4, <3>1
    <3>2. CASE m \in messages \cup typed
      BY <1>1, <1>2, <2>1, <3>2, ContentType
    <3> QED BY <2>1, <2>5, <3>1, <3>2
  <2> QED BY <1>1, <1>2, <2>3, <2>4, <2>5
<1>3. CASE Clear
  <2>1. messages' \subseteq messages /\ typed' \subseteq typed /\ nextId' = nextId /\ clock' = clock
    BY <1>3 DEF Clear, Real
  <2>2. IsFiniteSet(typed')
    BY <2>1, FS_Subset
  <2> QED BY <1>1, <2>1, <2>2
<1>4. CASE Tick
  <2>1. clock' = clock + 1 /\ clock < MaxTime /\ UNCHANGED store
    BY <1>4 DEF Tick
  <2>2. clock' \in StartTime..MaxTime /\ clock <= clock'
    BY <1>1, <2>1, ContentType
  <2>3. \A m \in messages \cup typed : m.at <= clock'
    BY <1>1, <2>1
  <2> QED BY <1>1, <2>1, <2>2, <2>3 DEF store
<1>5. ASSUME UNCHANGED <<clock, store>> PROVE Goal
  BY <1>1, <1>5 DEF store
<1>6. ASSUME NEW payload \in Synthetic, Replay(payload) PROVE Goal
  BY <1>2, <1>6 DEF Replay
<1>7. ASSUME NEW payload \in Payloads, Message(payload) PROVE Goal
  BY <1>2, <1>7 DEF Message, Unlistened
<1>8. CASE Connect \/ Connected \/ MessageFails \/ Handled \/ Return \/ Stop \/ Kill
  BY <1>5, <1>8 DEF Connect, Connected, MessageFails, Handled, Return, Stop, Kill, Unlistened
<1>9. CASE Count \/ Gate \/ Decide
  BY <1>5, <1>9 DEF Count, Gate, Decide, Undecided
<1>10. ASSUME NEW text \in StateTexts, Sample(text) PROVE Goal
  BY <1>5, <1>10 DEF Sample
<1>11. ASSUME NEW mode \in Modes, Start(mode) PROVE Goal
  BY <1>5, <1>11 DEF Start
<1>12. CASE UNCHANGED vars
  BY <1>5, <1>12 DEF vars
<1> QED BY <1>3, <1>4, <1>6, <1>7, <1>8, <1>9, <1>10, <1>11, <1>12 DEF Next

\* A network thread is there exactly while the main thread waits or stops.
ListenerOK ==
    /\ listener \in Listener
    /\ listener.net = "none" <=> listener.main \in {"off", "connect"}

LEMMA OffType == Off \in Listener /\ Off.main = "off" /\ Off.net = "none"
BY DEF Off, Listener

LEMMA ListenerStep == ListenerOK /\ [Next]_vars => ListenerOK'
<1> SUFFICES ASSUME ListenerOK, [Next]_vars PROVE ListenerOK'
  OBVIOUS
<1>1. ASSUME NEW mode \in Modes, Start(mode) PROVE ListenerOK'
  BY <1>1, EvidenceAssumption DEF Start, ListenerOK, Listener, Off
<1>2. CASE Connect
  <2>1. listener' = Off \/ listener' = [listener EXCEPT !.main = "wait", !.net = "connack"]
    BY <1>2 DEF Connect
  <2>2. [listener EXCEPT !.main = "wait", !.net = "connack"] \in Listener
    BY DEF ListenerOK, Listener
  <2> QED BY <2>1, <2>2, OffType DEF ListenerOK, Listener
<1>3. CASE Connected
  BY <1>3 DEF Connected, ListenerOK, Listener
<1>4. ASSUME NEW payload \in Payloads, Message(payload) PROVE ListenerOK'
  <2>1. Received \in Nat
    BY DEF Received, ListenerOK, Listener
  <2> QED BY <1>4, <2>1 DEF Message, ListenerOK, Listener
<1>5. CASE MessageFails
  <2>1. Received \in Nat
    BY DEF Received, ListenerOK, Listener
  <2> QED BY <1>5, <2>1 DEF MessageFails, ListenerOK, Listener
<1>6. CASE Handled
  <2>1. LimitReached \in BOOLEAN
    BY DEF LimitReached
  <2> QED BY <1>6, <2>1 DEF Handled, ListenerOK, Listener
<1>7. CASE Return
  BY <1>7 DEF Return, ListenerOK, Listener
<1>8. CASE Stop \/ Kill
  BY <1>8, OffType DEF Stop, Kill, ListenerOK
<1>9. CASE Tick \/ Clear \/ Count \/ Gate \/ Decide \/ UNCHANGED vars
  BY <1>9 DEF Tick, Clear, Count, Gate, Decide, Undecided, vars, ListenerOK
<1>10. ASSUME NEW m, Replay(m) \/ Sample(m) PROVE ListenerOK'
  BY <1>10 DEF Replay, Sample, ListenerOK
<1> QED BY <1>1, <1>2, <1>3, <1>4, <1>5, <1>6, <1>7, <1>8, <1>9, <1>10 DEF Next

\* The rest of the type invariant.
RestOK == /\ sample \in [text : StateTexts \cup {NoText}, at : 0..MaxTime]
          /\ runs \in 0..MaxRuns
          /\ activity \in [state : {"active", "idle", "unknown"},
                           source : {"none", "mqtt-message", "mower-state"}]

LEMMA TypeStep ==
    ASSUME TypeOK, IsFiniteSet(typed), [Next]_vars, PollOK'
    PROVE  TypeOK' /\ IsFiniteSet(typed')
<1>1. ListenerOK'
  BY ListenerStep DEF TypeOK, ListenerOK
<1>2. RestOK
  BY DEF TypeOK, RestOK
<1>3. ASSUME Decide PROVE RestOK'
  BY <1>2, <1>3, DecideType DEF Decide, Undecided, RestOK
<1>4. ASSUME NEW text \in StateTexts, Sample(text) PROVE RestOK'
  <2>1. clock \in 0..MaxTime
    BY ContentType DEF TypeOK
  <2> QED BY <1>2, <1>4, <2>1 DEF Sample, RestOK
<1>5. ASSUME NEW mode \in Modes, Start(mode) PROVE RestOK'
  BY <1>2, <1>5, ContentType DEF Start, RestOK
<1>6. ASSUME Count PROVE RestOK'
  BY <1>2, <1>6 DEF Count, Undecided, Unknown, RestOK
<1>7. ASSUME UNCHANGED <<sample, runs, activity>> PROVE RestOK'
  BY <1>2, <1>7 DEF RestOK
<1>8. ASSUME Tick \/ Clear \/ Gate \/ UNCHANGED vars PROVE RestOK'
  BY <1>7, <1>8 DEF Tick, Clear, Gate, Undecided, vars
<1>9. ASSUME Connect \/ Connected \/ MessageFails \/ Handled \/ Return \/ Stop \/ Kill
      PROVE  RestOK'
  BY <1>7, <1>9 DEF Connect, Connected, MessageFails, Handled, Return, Stop, Kill, Unlistened
<1>10. ASSUME NEW payload, Replay(payload) \/ Message(payload) PROVE RestOK'
  BY <1>7, <1>10 DEF Replay, Message, Unlistened
<1>11. RestOK'
  BY <1>3, <1>4, <1>5, <1>6, <1>8, <1>9, <1>10 DEF Next
<1> QED BY <1>1, <1>11, RowsType DEF TypeOK, ListenerOK, PollOK, RestOK

-----------------------------------------------------------------------------
\* The inductive invariant: the tables, and what the poller's last words rest on.
THEOREM Inductive == Spec => []IInv
<1>1. Init => IInv
  <2> SUFFICES ASSUME Init PROVE IInv
    OBVIOUS
  <2>1. StartTime \in StartTime..MaxTime /\ 0 \in 0..MaxMessages /\ 0 \in 0..MaxTime /\ 0 \in 0..MaxRuns
    BY EvidenceAssumption
  <2>2. TypeOK
    BY <2>1 DEF Init, TypeOK, Listener, Off, NoSample, Unknown
  <2> QED BY <2>2, FS_EmptySet DEF Init, IInv, RowsInStep, MqttDecides, Unknown
<1>2. IInv /\ [Next]_vars => IInv'
  <2> SUFFICES ASSUME IInv, [Next]_vars PROVE IInv'
    OBVIOUS
  <2>1. PollOK /\ TypeOK /\ IsFiniteSet(typed) /\ RowsInStep /\ MqttDecides
    BY DEF IInv, TypeOK, PollOK
  <2>2. PollOK' /\ MqttDecides'
    BY <2>1, DecidesStep
  <2> QED BY <2>1, <2>2, TypeStep, RowsStep DEF IInv
<1> QED BY <1>1, <1>2, PTL DEF Spec

\* Every variable keeps its type; above all, what live_activity_state decides is
\* one of its three answers, since the newest row and the first candidate exist.
THEOREM TypeCorrect == Spec => []TypeOK
<1>1. IInv => TypeOK
  BY DEF IInv
<1> QED BY <1>1, Inductive, PTL

\* Whatever ingest_mqtt_message and mqtt-replay-clear do in turn, a typed row has
\* its message and a message with status fields its typed row.
THEOREM TablesInStep == Spec => []RowsInStep
<1>1. IInv => RowsInStep
  BY DEF IInv
<1> QED BY <1>1, Inductive, PTL

\* live_activity_state lets MQTT decide only on real samples of both sorts, though
\* it reads the store three times while it changes.
THEOREM DecidesOnEvidence == Spec => []MqttDecides
<1>1. IInv => MqttDecides
  BY DEF IInv
<1> QED BY <1>1, Inductive, PTL

\* mqtt-replay-smoke and mqtt-replay-clear never change what the gate says.
THEOREM ReplayUnseen == Spec => ReplayInvisible
<1>1. ASSUME NEW m \in Synthetic, Replay(m) PROVE Real(typed)' = Real(typed) /\ clock' = clock
  <2>1. /\ clock' = clock
        /\ typed' = typed \/ typed' = typed \cup {[id |-> nextId, payload |-> m, at |-> clock]}
    BY <1>1 DEF Replay, Ingest, TypedOf
  <2> QED BY <2>1 DEF Real
<1>2. ASSUME Clear PROVE Real(typed)' = Real(typed) /\ clock' = clock
  BY <1>2 DEF Clear, Real
<1>3. ASSUME Real(typed)' = Real(typed), clock' = clock PROVE Ready' = Ready
  <2>1. Evidence' = Evidence
    BY <1>3 DEF Evidence
  <2>2. Evidenced' = Evidenced /\ Latest' = Latest
    BY <2>1 DEF Evidenced, Latest
  <2> QED BY <1>3, <2>2 DEF Ready
<1>4. [Next]_vars => [(\E m \in Synthetic : Replay(m)) \/ Clear => Ready' = Ready]_store
  BY <1>1, <1>2, <1>3
<1> QED BY <1>4, PTL DEF Spec, ReplayInvisible

\* mqtt_readiness_gaps: an open gate means that a real message was received lately,
\* whatever was replayed, if no message claims to be from the future.
THEOREM OpenGateIsRecent == Spec => []ReadyMeansRecent
<1>1. ASSUME IInv, Ready, \A m \in Evidence : Content[m.payload].ahead <= Skew
      PROVE  \E m \in Evidence : clock - m.at <= MaxAge + Skew
  <2>1. Evidence # {} /\ typed \subseteq Row /\ Evidence \subseteq typed /\ IsFiniteSet(typed)
    BY <1>1 DEF Ready, Evidenced, IInv, TypeOK, Evidence, Real
  <2>2. PICK r \in Evidence : Time(r) = Latest
    BY <2>1, FS_Subset, NewestTimeFacts DEF Latest, NewestTime
  <2>3. clock - Latest \in -Skew..MaxAge /\ clock \in Int
    BY <1>1, ContentType DEF Ready, IInv, TypeOK
  <2>4. /\ r.at \in Int /\ Content[r.payload].ahead \in Int
        /\ Latest = r.at + Content[r.payload].ahead
    BY <2>1, <2>2, ContentType DEF Row, IsContent, Time
  <2>5. clock - r.at <= MaxAge + Skew
    BY <1>1, <2>3, <2>4, ContentType
  <2> QED BY <2>5
<1>2. IInv => ReadyMeansRecent
  BY <1>1 DEF ReadyMeansRecent
<1> QED BY <1>2, Inductive, PTL

\* ingest_mqtt_message never closes the gate with what it inserts, unless the
\* message claims to be from the future: what arrives late is no newer than Latest.
THEOREM OnlyTimeCloses == Spec => LostByTimeOnly
<1>1. ASSUME IInv, IInv', [Next]_vars, clock' = clock, Ready, ~Ready'
      PROVE  \E m \in messages' \ messages : Content[m.payload].ahead > Skew
  <2>1. Evidenced' /\ Evidence \subseteq Evidence'
    BY <1>1, RealFacts, EvidencedFacts DEF Ready, Evidence
  <2>2. /\ Evidence # {} /\ Evidence' # {}
        /\ typed \subseteq Row /\ IsFiniteSet(typed) /\ typed' \subseteq Row /\ IsFiniteSet(typed')
        /\ Evidence \subseteq typed /\ Evidence' \subseteq typed'
    BY <1>1, <2>1 DEF Ready, Evidenced, IInv, TypeOK, Evidence, Real
  <2>3. /\ \A r \in Evidence : Time(r) <= Latest
        /\ \E r \in Evidence : Time(r) = Latest
    <3>1. Latest = NewestTime(Evidence) /\ IsFiniteSet(Evidence)
      BY <2>2, FS_Subset DEF Latest, NewestTime
    <3> QED BY <2>2, <3>1, NewestTimeFacts
  <2>4. /\ \A r \in Evidence' : Time(r) <= Latest'
        /\ \E r \in Evidence' : Time(r) = Latest'
    <3>1. Latest' = NewestTime(Evidence') /\ IsFiniteSet(Evidence')
      BY <2>2, FS_Subset DEF Latest, NewestTime
    <3> QED BY <2>2, <3>1, NewestTimeFacts
  <2>5. \A r \in Evidence' : r \in Row /\ Time(r) \in Int
    BY <2>2, ContentType DEF Evidence, Real
  <2>6. Latest \in Int /\ Latest' \in Int /\ Latest <= Latest'
    BY <2>1, <2>3, <2>4, <2>5
  <2>7. Latest > 0 /\ clock - Latest \in -Skew..MaxAge /\ clock \in Int
    BY <1>1, ContentType DEF Ready, IInv, TypeOK
  <2>8. Latest' > clock + Skew
    BY <1>1, <2>1, <2>6, <2>7, ContentType DEF Ready
  <2>9. PICK r \in Evidence' : Time(r) = Latest'
    BY <2>4
  <2>10. r \notin Evidence
    BY <2>3, <2>5, <2>6, <2>7, <2>8, <2>9, ContentType
  <2>11. r \in messages' \ messages
    BY <1>1, <2>9, <2>10 DEF IInv, RowsInStep, Evidence, Real
  <2>12. r.at <= clock /\ r.at \in Int /\ Content[r.payload].ahead \in Int
    BY <1>1, <2>5, <2>11, ContentType DEF IInv, TypeOK, Row, IsContent
  <2>13. Content[r.payload].ahead > Skew
    BY <2>7, <2>8, <2>9, <2>12, ContentType DEF Time
  <2> QED BY <2>11, <2>13
<1>2. IInv /\ IInv' /\ [Next]_vars =>
         [clock' = clock /\ Ready /\ ~Ready' =>
             \E m \in messages' \ messages : Content[m.payload].ahead > Skew]_store
  BY <1>1
<1> QED BY <1>2, Inductive, PTL DEF Spec, LostByTimeOnly
=============================================================================
