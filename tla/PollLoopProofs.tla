-------------------------- MODULE PollLoopProofs --------------------------
(***************************************************************************)
(* Proofs about PollLoop, for every set of routes, every cadence and every *)
(* choice of flags.  IInv is the inductive invariant; the safety           *)
(* properties of PollLoop follow from its parts.                           *)
(***************************************************************************)
EXTENDS PollLoop, TLAPS

\* Between the selection of the due routes and the reschedule.
Passing == pc \in {"fetch", "settle", "refetch", "resettle"}

\* Between iterations.
Resting == pc \in {"top", "sleep"}

\* The bookkeeping of the two passes: what is due was requested or is pending.
Passes ==
    /\ due = requested \cup pending
    /\ NoRouteTwice
    /\ pc \in {"settle", "resettle", "publish"} => pending = {}
    /\ Resting => due = {}

\* The second pass exists only because of a completion, and completes it.
Completions ==
    /\ RefreshTrails => ActivityAware
    /\ pc \in {"refetch", "resettle"} => CompletionRoutes \subseteq due
    /\ CompletionRefreshed

\* A route's cadence is paid for by the time it has waited and has yet to wait.
Credit ==
    UseRouteCadence =>
       \A r \in FixedRoutes :
          /\ pc # "dead" /\ (Passing => r \notin due)
                => since[r] + wait[r] >= FixedCadence[r]
          /\ Passing /\ r \in pending => since[r] >= FixedCadence[r]

\* What waits for the viewer was counted by the running iteration.
Counted ==
    /\ unpublished \cap Promised \subseteq totals
    /\ Resting => totals = {}
    /\ totals # {} => due # {}

IInv == TypeOK /\ Passes /\ Completions /\ Credit /\ Counted

-----------------------------------------------------------------------------
(* Lemmas about the operators.                                             *)

\* A status word is one of the three, so the derived activity is one too.
LEMMA LiveActivityType ==
    ASSUME NEW ev \in [Sources -> [word : Words, age : 0..Stale]]
    PROVE  LiveActivityState(ev) \in {"active", "idle", "unknown"}
<1>1. CASE \E s \in Sources : Newest(ev, s)
  <2>1. PICK s \in Sources :
            /\ s = CHOOSE t \in Sources : Newest(ev, t)
            /\ Newest(ev, s)
    BY <1>1
  <2>2. ev[s].word # "other" /\ ev[s].word \in Words
    BY <2>1 DEF Newest, Usable
  <2>3. LiveActivityState(ev) = ev[s].word
    BY <1>1, <2>1 DEF LiveActivityState
  <2> QED BY <2>2, <2>3 DEF Words
<1>2. CASE ~ \E s \in Sources : Newest(ev, s)
  BY <1>2 DEF LiveActivityState
<1> QED BY <1>1, <1>2

\* Old evidence decides nothing: live_activity_state then says "unknown".
LEMMA StaleIsUnknown ==
    ASSUME NEW ev \in [Sources -> [word : Words, age : 0..Stale]],
           \A s \in Sources : ev[s].age > MaxAge
    PROVE  LiveActivityState(ev) = "unknown"
<1>1. \A s \in Sources : ~Newest(ev, s)
  BY CadenceAssumption DEF Newest, Usable, Stale
<1> QED BY <1>1 DEF LiveActivityState

LEMMA ActivityNowType == TypeOK => ActivityNow \in Activities
BY LiveActivityType DEF TypeOK, ActivityNow, Activities

\* Every cadence a route can get is a positive number.
LEMMA RouteCadenceType ==
    ASSUME NEW r \in Routes, NEW state
    PROVE  RouteCadence(r, state) \in Nat \ {0}
BY CadenceAssumption DEF RouteCadence, Paced

\* A route without an active cadence keeps its fixed one.
LEMMA FixedRouteCadence ==
    ASSUME NEW r \in FixedRoutes, NEW state
    PROVE  RouteCadence(r, state) = FixedCadence[r]
BY DEF RouteCadence, FixedRoutes

\* The clock: what is left of a wait stays a number and falls by at most one.
LEMMA LessType ==
    ASSUME NEW n \in Nat
    PROVE  /\ Less(n) \in 0..n
           /\ Less(n) + 1 >= n
BY DEF Less

\* What a completion adds are trail routes that were not due, and with what was
\* due they are all of them.
LEMMA CompletionRefreshAdds ==
    ASSUME NEW D, NEW before, NEW now
    PROVE  /\ CompletionRefresh(D, before, now) \subseteq CompletionRoutes \ D
           /\ CompletionRefresh(D, before, now) # {}
                 => CompletionRoutes \subseteq D \cup CompletionRefresh(D, before, now)
           /\ RefreshTrails /\ before = "active" /\ now = "idle"
                 => CompletionRoutes \subseteq D \cup CompletionRefresh(D, before, now)
BY DEF CompletionRefresh

-----------------------------------------------------------------------------
(* Type correctness.                                                       *)

\* The assumptions on the constants the type proof needs, in one place.
LEMMA ConstantTypes ==
    /\ CompletionRoutes \subseteq Routes
    /\ StateRoutes \subseteq Routes
    /\ FixedRoutes \subseteq Routes
    /\ FixedCadence \in [Routes -> Nat \ {0}]
    /\ Interval \in Nat /\ MaxAge \in Nat
    /\ Stale \in Nat
BY RoutesAssumption, CadenceAssumption DEF FixedRoutes, Stale

LEMMA TypeInit == Init => TypeOK
BY ConstantTypes DEF Init, TypeOK, NothingSeen, Activities, Words, Kinds

LEMMA TypeStep == TypeOK /\ [Next]_vars => TypeOK'
<1> SUFFICES ASSUME TypeOK, [Next]_vars PROVE TypeOK'
  OBVIOUS
<1> USE ConstantTypes DEF TypeOK
<1>1. CASE StartIteration
  <2> DEFINE now    == ActivityNow
             pulled == [r \in Routes |->
                          IF UseRouteCadence /\ r \in PullForward(prev, now)
                            THEN 0 ELSE wait[r]]
             timed  == IF UseRouteCadence THEN {r \in Routes : pulled[r] = 0}
                                          ELSE Routes
             extra  == CompletionRefresh(timed, prev, now)
  <2>1. extra \subseteq CompletionRoutes
    BY CompletionRefreshAdds
  <2>2. timed \subseteq Routes /\ pulled \in [Routes -> Nat]
    OBVIOUS
  <2>3. /\ activity' = now /\ wait' = pulled /\ completion' = extra
        /\ due' = timed \cup extra /\ pending' = timed \cup extra
        /\ pc' \in {"publish", "fetch"} /\ passAge' = 0
        /\ UNCHANGED <<args, prev, totals, nap, evidence, unpublished, requested, seenAt, since>>
    BY <1>1 DEF StartIteration, history
  <2>4. now \in Activities
    BY ActivityNowType
  <2> HIDE DEF now, pulled, timed, extra
  <2> QED BY <2>1, <2>2, <2>3, <2>4
<1>2. ASSUME NEW r \in Routes, Request(r) PROVE TypeOK'
  <2>1. evidence' \in [Sources -> [word : Words, age : 0..Stale]]
    BY <1>2 DEF Request
  <2>2. totals' \in SUBSET Kinds /\ unpublished' \in SUBSET Kinds
    BY <1>2 DEF Request, Kinds, KindOf
  <2>3. seenAt' \in [CompletionRoutes -> Activities]
    BY <1>2, ActivityNowType DEF Request
  <2>4. since' \in [FixedRoutes -> Nat]
    BY <1>2 DEF Request
  <2>5. requested' \in SUBSET Routes /\ pending' \in SUBSET Routes
    BY <1>2 DEF Request
  <2>6. pc' \in {"fetch", "settle", "refetch", "resettle"}
    BY <1>2 DEF Request
  <2> QED BY <1>2, <2>1, <2>2, <2>3, <2>4, <2>5, <2>6 DEF Request
<1>3. ASSUME NEW now \in Activities, Schedule(now)
      PROVE  wait' \in [Routes -> Nat] /\ activity' \in Activities /\ pc' = "publish"
  BY <1>3, RouteCadenceType DEF Schedule
<1>4. CASE Settle
  <2> DEFINE extra == CompletionRefresh(due, prev, ActivityNow)
  <2>1. extra \subseteq CompletionRoutes
    BY CompletionRefreshAdds
  <2>2. /\ wait' \in [Routes -> Nat] /\ activity' \in Activities
        /\ pc' \in {"refetch", "publish"}
        /\ \/ due' = due \cup extra /\ completion' = completion \cup extra
              /\ pending' = extra
           \/ UNCHANGED <<due, completion, pending>>
    <3>1. CASE extra # {}
      BY <1>4, <3>1, ActivityNowType DEF Settle
    <3>2. CASE extra = {}
      <4>1. Schedule(ActivityNow) /\ UNCHANGED <<due, completion, pending>>
        BY <1>4, <3>2 DEF Settle
      <4> QED BY <4>1, <1>3, ActivityNowType
    <3> QED BY <3>1, <3>2
  <2> HIDE DEF extra
  <2> QED BY <1>4, <2>1, <2>2 DEF Settle, history
<1>5. CASE Resettle
  <2>1. Schedule(ActivityNow)
    BY <1>5 DEF Resettle
  <2> QED BY <1>3, <1>5, <2>1, ActivityNowType DEF Resettle, history
<1>6. CASE EndIteration
  BY <1>6 DEF EndIteration, NothingSeen, Activities
<1>7. CASE Wake
  BY <1>7 DEF Wake, history
<1>8. CASE RequestFails \/ PublishFails
  BY <1>8 DEF RequestFails, PublishFails, history
<1>9. CASE Tick
  <2>1. wait' \in [Routes -> Nat] /\ nap' \in 0..Interval
    BY <1>9, LessType DEF Tick
  <2>2. evidence' \in [Sources -> [word : Words, age : 0..Stale]]
    BY <1>9 DEF Tick, Older, Stale
  <2>3. passAge' \in 0..Stale
    BY <1>9 DEF Tick, Older, Stale
  <2>4. since' \in [FixedRoutes -> Nat]
    BY <1>9 DEF Tick
  <2> QED BY <1>9, <2>1, <2>2, <2>3, <2>4 DEF Tick, history
<1>10. CASE MqttMessage
  <2>1. Mqtt \in Sources
    BY DEF Sources
  <2>2. evidence' \in [Sources -> [word : Words, age : 0..Stale]]
    BY <1>10, <2>1 DEF MqttMessage
  <2> QED BY <1>10, <2>2 DEF MqttMessage, history
<1>11. CASE UNCHANGED vars
  BY <1>11 DEF vars
<1> HIDE DEF TypeOK
<1> QED
  BY <1>1, <1>2, <1>4, <1>5, <1>6, <1>7, <1>8, <1>9, <1>10, <1>11
  DEF Next, LoopStep

\* TypeOK: every reachable state of the loop is of the declared type, for all
\* routes, cadences and flags; in particular every cadence put into next_due is
\* a number and every pass requests only selected routes.
THEOREM TypeCorrect == Spec => []TypeOK
<1> QED BY TypeInit, TypeStep, PTL DEF Spec

-----------------------------------------------------------------------------
(* The inductive invariant.                                                *)

\* The flags of a run, and what they promise the viewer, never change.
LEMMA FlagsFixed ==
    ASSUME [Next]_vars
    PROVE  /\ args' = args
           /\ RefreshTrails' = RefreshTrails
           /\ ActivityAware' = ActivityAware
           /\ UseRouteCadence' = UseRouteCadence
           /\ Promised' = Promised
<1>1. args' = args
  BY DEF Next, LoopStep, vars, StartIteration, Request, RequestFails, Settle,
         Resettle, EndIteration, PublishFails, Wake, Tick, MqttMessage
<1> QED
  BY <1>1 DEF RefreshTrails, ActivityAware, UseRouteCadence, Promised, ViewerFlag

\* What a reschedule leaves behind, whichever route it looks at.
LEMMA ScheduleEffect ==
    ASSUME TypeOK, NEW now, Schedule(now), NEW r \in Routes
    PROVE  /\ pc' = "publish"
           /\ UseRouteCadence => activity' = now
           /\ UseRouteCadence /\ r \in due => wait'[r] = RouteCadence(r, now)
           /\ UseRouteCadence /\ r \notin due => wait'[r] = wait[r]
BY DEF Schedule, TypeOK

LEMMA PassesInit == Init => Passes
BY DEF Init, Passes, NoRouteTwice, Resting

\* Each of the two passes requests what is pending and nothing that was already
\* requested; what a pass adds after another was not due before.
LEMMA PassesStep == TypeOK /\ Passes /\ [Next]_vars => Passes'
<1> SUFFICES ASSUME TypeOK, Passes, [Next]_vars PROVE Passes'
  OBVIOUS
<1> USE DEF Passes, NoRouteTwice, Resting
<1>1. CASE StartIteration
  BY <1>1 DEF StartIteration, history
<1>2. ASSUME NEW r \in Routes, Request(r) PROVE Passes'
  BY <1>2 DEF Request
<1>3. CASE Settle
  <2> DEFINE extra == CompletionRefresh(due, prev, ActivityNow)
  <2>1. extra \cap due = {}
    BY CompletionRefreshAdds
  <2>2. CASE extra # {}
    <3>1. due' = due \cup extra /\ pending' = extra /\ pc' = "refetch"
          /\ requested' = requested
      BY <1>3, <2>2 DEF Settle, history
    <3>2. due = requested
      BY <1>3 DEF Settle
    <3> HIDE DEF extra
    <3> QED BY <2>1, <3>1, <3>2
  <2>3. CASE extra = {}
    BY <1>3, <2>3 DEF Settle, Schedule, history
  <2> QED BY <2>2, <2>3
<1>4. CASE Resettle
  BY <1>4 DEF Resettle, Schedule, history
<1>5. CASE EndIteration
  BY <1>5 DEF EndIteration
<1>6. CASE RequestFails \/ PublishFails \/ Wake \/ Tick \/ MqttMessage \/ UNCHANGED vars
  BY <1>6 DEF RequestFails, PublishFails, Wake, Tick, MqttMessage, vars, history
<1> HIDE DEF Passes
<1> QED
  BY <1>1, <1>2, <1>3, <1>4, <1>5, <1>6 DEF Next, LoopStep

LEMMA CompletionsInit == TypeOK /\ Init => Completions
BY ArgsAssumption DEF Init, TypeOK, Completions, CompletionRefreshed, RefreshTrails, ActivityAware

\* A completion seen at the head of an iteration or after its first pass makes
\* every selected trail route due; all that is due has been requested when the
\* loop comes to publish.
LEMMA CompletionsStep == TypeOK /\ Passes /\ Completions /\ [Next]_vars => Completions'
<1> SUFFICES ASSUME TypeOK, Passes, Completions, [Next]_vars PROVE Completions'
  OBVIOUS
<1> USE FlagsFixed DEF Completions, CompletionRefreshed
<1>1. CASE StartIteration
  <2>1. PICK timed :
           /\ due' = timed \cup CompletionRefresh(timed, prev, activity')
           /\ pc' = IF due' = {} THEN "publish" ELSE "fetch"
           /\ prev' = prev
    BY <1>1 DEF StartIteration
  <2>2. RefreshTrails /\ prev = "active" /\ activity' = "idle" => CompletionRoutes \subseteq due'
    BY <2>1, CompletionRefreshAdds
  <2> QED BY <2>1, <2>2
<1>2. ASSUME NEW r \in Routes, Request(r) PROVE Completions'
  <2>1. pc' \in {pc, "settle", "resettle"} /\ pc \in {"fetch", "refetch"}
        /\ (pc' = "resettle" => pc = "refetch") /\ due' = due
    BY <1>2 DEF Request
  <2> QED BY <2>1
<1>3. CASE Settle
  <2> DEFINE extra == CompletionRefresh(due, prev, ActivityNow)
  <2>1. CASE extra # {}
    <3>1. due' = due \cup extra /\ pc' = "refetch"
      BY <1>3, <2>1 DEF Settle
    <3>2. CompletionRoutes \subseteq due \cup extra
      BY <2>1, CompletionRefreshAdds
    <3> QED BY <3>1, <3>2
  <2>2. CASE extra = {}
    <3>1. Schedule(ActivityNow) /\ UNCHANGED <<due, prev, requested>> /\ pc = "settle"
      BY <1>3, <2>2 DEF Settle, history
    <3>2. pc' = "publish" /\ (RefreshTrails => activity' = ActivityNow)
      BY <3>1 DEF Schedule, UseRouteCadence, ActivityAware
    <3>3. due = requested
      BY <3>1 DEF Passes
    <3>4. RefreshTrails /\ prev = "active" /\ ActivityNow = "idle" => CompletionRoutes \subseteq due
      BY <2>2, CompletionRefreshAdds
    <3> HIDE DEF extra
    <3> QED BY <3>1, <3>2, <3>3, <3>4
  <2> QED BY <2>1, <2>2
<1>4. CASE Resettle
  <2>1. pc = "resettle" /\ pc' = "publish" /\ UNCHANGED <<due, requested>>
    BY <1>4 DEF Resettle, Schedule, history
  <2>2. due = requested
    BY <2>1 DEF Passes
  <2> QED BY <2>1, <2>2
<1>5. CASE EndIteration
  BY <1>5 DEF EndIteration
<1>6. CASE RequestFails \/ PublishFails \/ Wake
  BY <1>6 DEF RequestFails, PublishFails, Wake
<1>7. CASE Tick \/ MqttMessage \/ UNCHANGED vars
  BY <1>7 DEF Tick, MqttMessage, vars, history
<1> HIDE DEF Completions
<1> QED
  BY <1>1, <1>2, <1>3, <1>4, <1>5, <1>6, <1>7 DEF Next, LoopStep

LEMMA CreditInit == TypeOK /\ Init => Credit
BY ConstantTypes DEF Init, TypeOK, Credit, Passing

\* Time moves credit from what is left of a wait to what has been waited; only a
\* reschedule extends credit again, and it extends all of a cadence.
LEMMA CreditStep == TypeOK /\ Passes /\ Credit /\ [Next]_vars => Credit'
<1> SUFFICES ASSUME TypeOK, Passes, Credit, [Next]_vars,
                    UseRouteCadence,
                    NEW r \in FixedRoutes
             PROVE  /\ pc' # "dead" /\ (Passing' => r \notin due')
                         => since'[r] + wait'[r] >= FixedCadence[r]
                    /\ Passing' /\ r \in pending' => since'[r] >= FixedCadence[r]
  BY FlagsFixed DEF Credit
<1>1. /\ r \in Routes /\ r \notin CompletionRoutes /\ r \notin Paced
      /\ FixedCadence[r] \in Nat /\ since[r] \in Nat /\ wait[r] \in Nat
  BY ConstantTypes DEF TypeOK, FixedRoutes
<1>2. /\ pc # "dead" /\ (Passing => r \notin due) => since[r] + wait[r] >= FixedCadence[r]
      /\ Passing /\ r \in pending => since[r] >= FixedCadence[r]
  BY DEF Credit
<1> HIDE DEF TypeOK
<1>3. CASE StartIteration
  <2> DEFINE pulled == [q \in Routes |->
                          IF UseRouteCadence /\ q \in PullForward(prev, ActivityNow)
                            THEN 0 ELSE wait[q]]
             timed  == IF UseRouteCadence THEN {q \in Routes : pulled[q] = 0}
                                          ELSE Routes
             extra  == CompletionRefresh(timed, prev, ActivityNow)
  <2>1. pulled[r] = wait[r]
    BY <1>1 DEF PullForward
  <2>2. r \in timed => wait[r] = 0
    BY <2>1
  <2>3. r \notin extra
    BY <1>1, CompletionRefreshAdds
  <2>4. /\ wait' = pulled /\ due' = timed \cup extra /\ pending' = due'
        /\ since' = since /\ pc = "top"
    BY <1>3 DEF StartIteration
  <2>5. since[r] + wait[r] >= FixedCadence[r]
    BY <1>2, <2>4 DEF Passing
  <2> HIDE DEF pulled, timed, extra
  <2> QED BY <1>1, <2>1, <2>2, <2>3, <2>4, <2>5
<1>4. ASSUME NEW q \in Routes, Request(q)
      PROVE  /\ pc' # "dead" /\ (Passing' => r \notin due')
                  => since'[r] + wait'[r] >= FixedCadence[r]
             /\ Passing' /\ r \in pending' => since'[r] >= FixedCadence[r]
  <2>1. q \in due
    BY <1>4 DEF Request, Passes
  <2>2. /\ since' = [p \in FixedRoutes |-> IF p = q THEN 0 ELSE since[p]]
        /\ pending' = pending \ {q} /\ wait' = wait /\ due' = due
        /\ Passing /\ Passing' /\ pc # "dead"
    BY <1>4 DEF Request, Passing
  <2>3. q # r => since'[r] = since[r]
    BY <2>2
  <2> QED BY <1>2, <2>1, <2>2, <2>3
<1>5. ASSUME Schedule(ActivityNow), UNCHANGED <<due, pending, since>>, pc \in {"settle", "resettle"}
      PROVE  /\ ~Passing'
             /\ since'[r] + wait'[r] >= FixedCadence[r]
  <2>1. pc' = "publish"
    BY <1>5 DEF Schedule
  <2>2. CASE r \in due
    <3>1. wait'[r] = FixedCadence[r]
      BY <1>1, <1>5, <2>2, ScheduleEffect, FixedRouteCadence
    <3> QED BY <1>1, <1>5, <2>1, <3>1 DEF Passing
  <2>3. CASE r \notin due
    <3>1. wait'[r] = wait[r]
      BY <1>1, <1>5, <2>3, ScheduleEffect
    <3> QED BY <1>2, <1>5, <2>1, <2>3, <3>1 DEF Passing
  <2> QED BY <2>2, <2>3
<1>6. CASE Settle
  <2> DEFINE extra == CompletionRefresh(due, prev, ActivityNow)
  <2>1. CASE extra # {}
    <3>1. /\ due' = due \cup extra /\ pending' = extra /\ pc' = "refetch" /\ pc = "settle"
          /\ UNCHANGED <<wait, since>>
      BY <1>6, <2>1 DEF Settle, history
    <3>2. r \notin extra
      BY <1>1, CompletionRefreshAdds
    <3> HIDE DEF extra
    <3> QED BY <1>2, <3>1, <3>2 DEF Passing
  <2>2. CASE extra = {}
    <3>1. Schedule(ActivityNow) /\ UNCHANGED <<due, pending, since>> /\ pc = "settle"
      BY <1>6, <2>2 DEF Settle
    <3> QED BY <1>5, <3>1
  <2> QED BY <2>1, <2>2
<1>7. CASE Resettle
  <2>1. Schedule(ActivityNow) /\ UNCHANGED <<due, pending, since>> /\ pc = "resettle"
    BY <1>7 DEF Resettle
  <2> QED BY <1>5, <2>1
<1>8. CASE EndIteration
  <2>1. pc = "publish" /\ UNCHANGED <<wait, since>> /\ pc' \in {"sleep", "done"}
    BY <1>8 DEF EndIteration
  <2> QED BY <1>2, <2>1 DEF Passing
<1>9. CASE RequestFails \/ PublishFails
  <2>1. pc' = "dead"
    BY <1>9 DEF RequestFails, PublishFails
  <2> QED BY <2>1 DEF Passing
<1>10. CASE Wake
  <2>1. pc = "sleep" /\ pc' = "top" /\ UNCHANGED <<wait, since>>
    BY <1>10 DEF Wake
  <2> QED BY <1>2, <2>1 DEF Passing
<1>11. CASE Tick
  <2>1. UNCHANGED <<pc, due, pending>>
    BY <1>11 DEF Tick
  <2>2. wait'[r] = Less(wait[r])
    BY <1>1, <1>11 DEF Tick
  <2>3. since'[r] = IF since[r] < FixedCadence[r] THEN since[r] + 1 ELSE since[r]
    BY <1>11 DEF Tick
  <2>4. Less(wait[r]) \in Nat /\ Less(wait[r]) + 1 >= wait[r]
    BY <1>1, LessType
  <2>5. since'[r] >= since[r] /\ (since[r] + wait[r] >= FixedCadence[r]
                                     => since'[r] + wait'[r] >= FixedCadence[r])
    BY <1>1, <2>2, <2>3, <2>4
  <2> QED BY <1>1, <1>2, <2>1, <2>3, <2>5 DEF Passing
<1>12. CASE MqttMessage \/ UNCHANGED vars
  <2>1. UNCHANGED <<pc, due, pending, since, wait>>
    BY <1>12 DEF MqttMessage, vars
  <2> QED BY <1>2, <2>1 DEF Passing
<1> QED
  BY <1>3, <1>4, <1>6, <1>7, <1>8, <1>9, <1>10, <1>11, <1>12 DEF Next, LoopStep

LEMMA CountedInit == Init => Counted
BY DEF Init, Counted, Resting

\* Every stored row is counted in the step that stores it, both passes add to
\* the same counts, and only the step that publishes them forgets them.
LEMMA CountedStep == TypeOK /\ Passes /\ Counted /\ [Next]_vars => Counted'
<1> SUFFICES ASSUME TypeOK, Passes, Counted, [Next]_vars PROVE Counted'
  OBVIOUS
<1> USE FlagsFixed DEF Counted, Resting
<1>1. CASE StartIteration
  <2>1. UNCHANGED <<totals, unpublished>> /\ pc = "top" /\ pc' \in {"publish", "fetch"}
    BY <1>1 DEF StartIteration
  <2> QED BY <2>1
<1>2. ASSUME NEW r \in Routes, Request(r) PROVE Counted'
  <2>1. PICK stored : /\ totals' = totals \cup stored
                      /\ unpublished' = unpublished \cup stored
    BY <1>2 DEF Request
  <2>2. pc' \in {"fetch", "settle", "refetch", "resettle"} /\ due' = due /\ due # {}
    BY <1>2 DEF Request, Passes
  <2> QED BY <2>1, <2>2
<1>3. CASE Settle \/ Resettle
  <2>1. /\ UNCHANGED <<totals, unpublished>> /\ pc' \in {"publish", "refetch"}
        /\ due \subseteq due'
    BY <1>3 DEF Settle, Resettle, Schedule
  <2> QED BY <2>1
<1>4. CASE EndIteration
  <2>1. /\ unpublished' = unpublished \ Published
        /\ totals' = {} /\ due' = {}
    BY <1>4 DEF EndIteration
  <2>2. unpublished \cap Promised \subseteq Published
    <3>1. unpublished \cap Promised \subseteq totals /\ totals \subseteq Kinds
      BY DEF TypeOK
    <3>2. CASE totals = {}
      BY <3>1, <3>2
    <3>3. CASE totals # {}
      <4>1. due # {}
        BY <3>3
      <4>2. totals \subseteq {"live", "structural"}
        BY <3>1 DEF Kinds
      <4>3. CASE ViewerFlag = "auto"
        BY <3>1, <4>1, <4>2, <4>3 DEF Published, AutoRefreshAction, Kinds
      <4>4. CASE ViewerFlag # "auto"
        BY <3>1, <4>1, <4>4 DEF Published, Promised, Kinds
      <4> QED BY <4>3, <4>4
    <3> QED BY <3>2, <3>3
  <2> QED BY <2>1, <2>2
<1>5. CASE RequestFails \/ PublishFails
  BY <1>5 DEF RequestFails, PublishFails
<1>6. CASE Wake \/ Tick \/ MqttMessage \/ UNCHANGED vars
  BY <1>6 DEF Wake, Tick, MqttMessage, vars
<1> HIDE DEF Counted
<1> QED
  BY <1>1, <1>2, <1>3, <1>4, <1>5, <1>6 DEF Next, LoopStep

\* The invariant is inductive.
THEOREM Inductive == Spec => []IInv
<1>1. Init => IInv
  BY TypeInit, PassesInit, CompletionsInit, CreditInit, CountedInit DEF IInv
<1>2. IInv /\ [Next]_vars => IInv'
  BY TypeStep, PassesStep, CompletionsStep, CreditStep, CountedStep DEF IInv
<1> QED BY <1>1, <1>2, PTL DEF Spec

-----------------------------------------------------------------------------
(* What follows from it.                                                   *)

\* No iteration requests a route twice, whatever the routes, the cadences and
\* the order in which activity changes and completions come.
THEOREM NeverTwice == Spec => []NoRouteTwice
<1>1. IInv => NoRouteTwice
  BY DEF IInv, Passes
<1> QED BY <1>1, Inductive, PTL

\* A completion between two iterations, or inside one, is never missed: all
\* selected trail routes were requested before the iteration publishes.
THEOREM CompletionNeverMissed == Spec => []CompletionRefreshed
<1>1. IInv => CompletionRefreshed
  BY DEF IInv, Completions
<1> QED BY <1>1, Inductive, PTL

\* The relay and account routes, which only their own cadence schedules, are
\* never requested sooner than that cadence allows.
THEOREM CadenceKept == Spec => []FixedCadenceKept
<1>1. IInv => FixedCadenceKept
  BY DEF IInv, Credit, FixedCadenceKept, Passing
<1> QED BY <1>1, Inductive, PTL

\* All the rows an iteration stored are on their way to the viewer when it ends.
THEOREM AllPublished == Spec => []NothingLeftUnpublished
<1>1. IInv => NothingLeftUnpublished
  BY DEF IInv, Counted, NothingLeftUnpublished, Resting
<1> QED BY <1>1, Inductive, PTL

\* With nothing but old evidence, every route that ran is back on its fixed
\* cadence after the iteration, however fast it was polled before.
THEOREM FallsBack == Spec => StaleFallsBack
<1> DEFINE Step == (/\ UseRouteCadence
                    /\ pc \in {"settle", "resettle"} /\ pc' = "publish"
                    /\ \A s \in Sources : evidence[s].age > MaxAge)
                      => \A r \in due : wait'[r] = FixedCadence[r]
<1>1. ASSUME TypeOK, [Next]_vars PROVE [Step]_vars
  <2> SUFFICES ASSUME UseRouteCadence, pc \in {"settle", "resettle"}, pc' = "publish",
                      \A s \in Sources : evidence[s].age > MaxAge,
                      NEW r \in due
               PROVE  wait'[r] = FixedCadence[r]
    OBVIOUS
  <2>1. r \in Routes
    BY <1>1 DEF TypeOK
  <2>2. ActivityNow \in {"unknown", "none"}
    BY <1>1, StaleIsUnknown DEF ActivityNow, TypeOK
  <2>3. Schedule(ActivityNow)
    <3>1. Settle \/ Resettle
      BY <1>1 DEF Next, LoopStep, vars, StartIteration, Request, RequestFails,
                  EndIteration, PublishFails, Wake, Tick, MqttMessage
    <3> QED BY <3>1 DEF Settle, Resettle
  <2>4. wait'[r] = RouteCadence(r, ActivityNow)
    BY <1>1, <2>1, <2>3, ScheduleEffect
  <2> QED BY <2>2, <2>4 DEF RouteCadence
<1>2. TypeOK /\ [Next]_vars => [Step]_vars
  BY <1>1
<1> QED BY <1>2, TypeCorrect, PTL DEF Spec, StaleFallsBack
=============================================================================
