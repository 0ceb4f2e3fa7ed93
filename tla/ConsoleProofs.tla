--------------------------- MODULE ConsoleProofs ---------------------------
(***************************************************************************)
(* Proofs about Console, for every list of children, every choice of the   *)
(* required ones and any number of interrupts.                             *)
(***************************************************************************)
EXTENDS Console, TLAPS

\* Before the children are told to stop, and after.
Watching == pc \in {"preflight", "spawn", "record", "scan", "deadline", "sleep"}

\* The supervisor knows of every living child but those it lost: it watches it,
\* or it started it in its very last step, or it looks at it in this round.
Known ==
    /\ pc = "preflight" => \A c \in Children : child[c] = "none"
    /\ Watching => lost = {}
    /\ \A c \in Children \ lost :
          Alive(c) => c \in watched \/ (pc = "record" /\ c \in Started)
    /\ pc = "scan" => \A c \in watched : Alive(c) => c \in kept \cup todo
    /\ pc = "reap" => \A c \in watched \ todo : ~Alive(c)
    /\ NothingLeftRunning

\* While the console watches, a child has not been signalled, and one that has
\* ended did so by itself.
Reasons ==
    /\ Watching => \A c \in Children :
                      \/ child[c] \in {"none", "running"}
                      \/ EndedItself(c)
    /\ StopsForAReason

IInv == TypeOK /\ Known /\ Reasons

-----------------------------------------------------------------------------
LEMMA InitIInv == Init => IInv
<1>1. Init => TypeOK
  <2> SUFFICES ASSUME Init PROVE TypeOK
    OBVIOUS
  <2>1. /\ child \in [Children -> {"none", "running", "asked", "killed", "gone"}]
        /\ code \in [Children -> Codes \cup {None, Signalled}]
    BY DEF Init
  <2>2. interrupts \in 0..MaxInterrupts
    BY ConsoleAssumption DEF Init
  <2>3. late \in BOOLEAN
    BY Zenon DEF Init
  <2> QED BY <2>1, <2>2, <2>3 DEF Init, TypeOK, Stopping
<1>2. Init => Known
  BY DEF Init, Known, NothingLeftRunning, Alive
<1>3. Init => Reasons
  BY DEF Init, Reasons, StopsForAReason, Stopping
<1> QED BY <1>1, <1>2, <1>3 DEF IInv

LEMMA TypeStep == TypeOK /\ Reasons /\ [Next]_vars => TypeOK'
<1> SUFFICES ASSUME TypeOK, Reasons, [Next]_vars PROVE TypeOK'
  OBVIOUS
<1> USE ConsoleAssumption DEF TypeOK, Stopping, IsFirst
<1>1. CASE Preflight
  BY <1>1 DEF Preflight, None
<1>2. ASSUME NEW c \in Children, Spawn(c) PROVE TypeOK'
  BY <1>2 DEF Spawn
<1>3. ASSUME NEW c \in Children, Poll(c) PROVE TypeOK'
  <2>1. CASE pc' = "scan"
    BY <1>3, <2>1 DEF Poll, Stop
  <2>2. CASE pc' # "scan"
    <3>1. /\ child[c] = "gone" /\ Stop(code[c]) /\ pc = "scan"
          /\ UNCHANGED <<child, code, watched, late, interrupts, lost>>
      BY <1>3, <2>2 DEF Poll
    <3>2. code[c] \in Codes
      BY <3>1 DEF Reasons, Watching, EndedItself
    <3> QED BY <3>1, <3>2 DEF Stop, None
  <2> QED BY <2>1, <2>2
<1>4. CASE Record
  BY <1>4 DEF Record, Started
<1>5. CASE EndScan \/ Wake
  BY <1>5 DEF EndScan, Wake
<1>6. CASE CheckDeadline
  BY <1>6 DEF CheckDeadline, Stop, None, Success
<1>7. CASE Ask
  BY <1>7 DEF Ask
<1>8. CASE Wait
  BY <1>8 DEF Wait
<1>9. CASE Reap
  BY <1>9 DEF Reap
<1>10. CASE SpawnFails
  BY <1>10 DEF SpawnFails
<1>11. ASSUME NEW c \in Children, ChildEnds(c) PROVE TypeOK'
  BY <1>11 DEF ChildEnds
<1>12. CASE TimeIsUp
  BY <1>12 DEF TimeIsUp
<1>13. CASE Interrupt
  BY <1>13 DEF Interrupt, Stop, Started, None, Interrupted
<1>14. CASE UNCHANGED vars
  BY <1>14 DEF vars
<1> HIDE DEF TypeOK
<1> QED
  BY <1>1, <1>2, <1>3, <1>4, <1>5, <1>6, <1>7, <1>8, <1>9, <1>10, <1>11, <1>12,
     <1>13, <1>14 DEF Next, Supervise

\* Every living child stays known to the supervisor: a round keeps the running
\* ones, and the reaping loop passes only those that have ended.
LEMMA KnownStep == TypeOK /\ Known /\ [Next]_vars => Known'
<1> SUFFICES ASSUME TypeOK, Known, [Next]_vars PROVE Known'
  OBVIOUS
<1> USE DEF Known, NothingLeftRunning, Alive, Watching
<1>1. CASE Preflight
  BY <1>1 DEF Preflight
<1>2. ASSUME NEW c \in Children, Spawn(c) PROVE Known'
  <2>1. /\ child' = [child EXCEPT ![c] = "running"] /\ pc = "spawn" /\ pc' = "record"
        /\ UNCHANGED <<watched, lost>>
    BY <1>2 DEF Spawn
  <2> QED BY <2>1 DEF TypeOK, Started
<1>3. ASSUME NEW c \in Children, Poll(c) PROVE Known'
  <2>1. pc = "scan" /\ UNCHANGED <<child, watched, lost>>
    BY <1>3 DEF Poll
  <2>2. CASE child[c] # "gone"
    BY <1>3, <2>1, <2>2 DEF Poll
  <2>3. CASE child[c] = "gone"
    BY <1>3, <2>1, <2>3 DEF Poll, Stop
  <2> QED BY <2>2, <2>3
<1>4. CASE Record
  BY <1>4 DEF Record, Started
<1>5. CASE EndScan \/ Wake
  BY <1>5 DEF EndScan, Wake
<1>6. CASE CheckDeadline
  BY <1>6 DEF CheckDeadline, Stop
<1>7. CASE Ask
  <2>1. /\ pc = "ask" /\ pc' \in {"ask", "wait"} /\ UNCHANGED <<watched, lost>>
    BY <1>7 DEF Ask
  <2>2. \A c \in Children : Alive(c)' => Alive(c)
    BY <1>7 DEF Ask, TypeOK
  <2> QED BY <2>1, <2>2
<1>8. CASE Wait
  <2>1. /\ pc = "wait" /\ pc' \in {"wait", "reap"} /\ UNCHANGED <<watched, lost>>
        /\ pc' = "reap" => todo' = watched
    BY <1>8 DEF Wait
  <2>2. \A c \in Children : Alive(c)' => Alive(c)
    BY <1>8 DEF Wait, TypeOK
  <2> QED BY <2>1, <2>2
<1>9. CASE Reap
  BY <1>9 DEF Reap
<1>10. CASE SpawnFails
  BY <1>10 DEF SpawnFails
<1>11. ASSUME NEW c \in Children, ChildEnds(c) PROVE Known'
  <2>1. /\ child' = [child EXCEPT ![c] = "gone"] /\ child[c] # "none"
        /\ UNCHANGED <<pc, watched, todo, kept, lost>>
    BY <1>11 DEF ChildEnds
  <2> QED BY <2>1 DEF TypeOK, Started
<1>12. CASE TimeIsUp
  BY <1>12 DEF TimeIsUp, Started
<1>13. CASE Interrupt
  BY <1>13 DEF Interrupt, Stop, Stopped
<1>14. CASE UNCHANGED vars
  BY <1>14 DEF vars, Started
<1> HIDE DEF Known
<1> QED
  BY <1>1, <1>2, <1>3, <1>4, <1>5, <1>6, <1>7, <1>8, <1>9, <1>10, <1>11, <1>12,
     <1>13, <1>14 DEF Next, Supervise

\* An end is for good, so a reason to stop remains one.
LEMMA ReasonsStep == TypeOK /\ Reasons /\ [Next]_vars => Reasons'
<1> SUFFICES ASSUME TypeOK, Reasons, [Next]_vars PROVE Reasons'
  OBVIOUS
<1> USE ConsoleAssumption DEF Reasons, StopsForAReason, EndedItself, Watching, Stopping
<1>1. CASE Preflight
  BY <1>1 DEF Preflight
<1>2. ASSUME NEW c \in Children, Spawn(c) PROVE Reasons'
  BY <1>2 DEF Spawn, TypeOK
<1>3. ASSUME NEW c \in Children, Poll(c) PROVE Reasons'
  <2>1. pc = "scan" /\ UNCHANGED <<child, code, late, interrupts>>
    BY <1>3 DEF Poll
  <2>2. CASE pc' = "scan"
    BY <2>1, <2>2
  <2>3. CASE pc' # "scan"
    <3>1. c \in Required /\ child[c] = "gone" /\ status' = code[c] /\ pc' = "ask"
      BY <1>3, <2>1, <2>3 DEF Poll, Stop
    <3> QED BY <2>1, <3>1
  <2> QED BY <2>2, <2>3
<1>4. CASE Record \/ EndScan \/ Wake
  BY <1>4 DEF Record, EndScan, Wake
<1>5. CASE CheckDeadline
  BY <1>5 DEF CheckDeadline, Stop
<1>6. CASE Ask \/ Wait \/ Reap
  <2>1. /\ pc \in Stopping /\ pc' \notin {"preflight", "spawn", "record", "scan", "deadline", "sleep"}
        /\ UNCHANGED <<code, late, status, interrupts>>
    BY <1>6 DEF Ask, Wait, Reap
  <2>2. \A c \in Children : child[c] = "gone" => child'[c] = "gone"
    BY <1>6 DEF Ask, Wait, Reap, Alive, TypeOK
  <2> QED BY <2>1, <2>2
<1>7. CASE SpawnFails
  BY <1>7 DEF SpawnFails
<1>8. ASSUME NEW c \in Children, ChildEnds(c) PROVE Reasons'
  <2>1. /\ child' = [child EXCEPT ![c] = "gone"] /\ Alive(c)
        /\ UNCHANGED <<pc, late, status, interrupts>>
    BY <1>8 DEF ChildEnds
  <2>2. PICK n \in (IF child[c] = "running" THEN Codes ELSE {Signalled}) :
            code' = [code EXCEPT ![c] = n]
    BY <1>8 DEF ChildEnds
  <2>3. Watching => child[c] = "running"
    BY <2>1 DEF Alive
  <2>4. \A d \in Children : EndedItself(d) => EndedItself(d)' /\ code'[d] = code[d]
    BY <2>1, <2>2 DEF TypeOK, Alive
  <2>5. Watching => EndedItself(c)'
    BY <2>1, <2>2, <2>3 DEF TypeOK
  <2>6. \A d \in Children \ {c} : child'[d] = child[d]
    BY <2>1 DEF TypeOK
  <2>7. Watching' => \A d \in Children : child'[d] \in {"none", "running"} \/ EndedItself(d)'
    BY <2>1, <2>4, <2>5, <2>6
  <2>8. StopsForAReason'
    BY <2>1, <2>4
  <2> QED BY <2>7, <2>8
<1>9. CASE TimeIsUp
  BY <1>9 DEF TimeIsUp
<1>10. CASE Interrupt
  BY <1>10 DEF Interrupt, Stop, TypeOK
<1>11. CASE UNCHANGED vars
  BY <1>11 DEF vars
<1> HIDE DEF Reasons
<1> QED
  BY <1>1, <1>2, <1>3, <1>4, <1>5, <1>6, <1>7, <1>8, <1>9, <1>10, <1>11
  DEF Next, Supervise

-----------------------------------------------------------------------------
\* The invariant is inductive.
THEOREM Inductive == Spec => []IInv
<1>1. IInv /\ [Next]_vars => IInv'
  BY TypeStep, KnownStep, ReasonsStep DEF IInv
<1> QED BY InitIInv, <1>1, PTL DEF Spec

\* The supervisor's state stays well typed; in particular it never stops its
\* children without an exit code to return.
THEOREM TypeCorrect == Spec => []TypeOK
<1>1. IInv => TypeOK
  BY DEF IInv
<1> QED BY <1>1, Inductive, PTL

\* When the console returns no recorded child of it is still running, for every
\* number of children and interrupts.
THEOREM NoneLeft == Spec => []NothingLeftRunning
<1>1. IInv => NothingLeftRunning
  BY DEF IInv, Known
<1> QED BY <1>1, Inductive, PTL

\* The console never stops because an optional child ended.
THEOREM OnlyForAReason == Spec => []StopsForAReason
<1>1. IInv => StopsForAReason
  BY DEF IInv, Reasons
<1> QED BY <1>1, Inductive, PTL
=============================================================================
