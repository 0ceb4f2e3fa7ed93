------------------------------ MODULE Console ------------------------------
(***************************************************************************)
(* The supervisor of tools/navimow_live_console.py: it runs the preflight  *)
(* commands, starts the viewer server, the polling loop and the MQTT       *)
(* listener, watches them, and stops them all when a required one exits,   *)
(* the duration is over, or it is interrupted.                             *)
(*                                                                         *)
(* The children are processes of their own and end whenever they like,     *)
(* also between two steps of the supervisor.  SIGINT and SIGTERM raise     *)
(* KeyboardInterrupt between any two steps, also while it is stopping.     *)
(***************************************************************************)
EXTENDS Integers, FiniteSets

CONSTANTS
    Children,       \* the runtime commands
    Rank,           \* their position in the list
    Required,       \* those whose exit stops the console
    Codes,          \* exit codes of a child that ends by itself
    Limited,        \* whether --duration is positive
    MaxInterrupts   \* bound: how many interrupts arrive

\* What the supervisor itself returns, what a signal makes of a child, and a
\* number that is no exit code of any process.
Success     == 0
Interrupted == 130
Signalled   == -15
None        == 256

ASSUME ConsoleAssumption ==
    /\ IsFiniteSet(Children)
    /\ Rank \in [Children -> Nat]
    /\ \A c, d \in Children : Rank[c] = Rank[d] => c = d
    /\ Required \subseteq Children
    /\ Codes \subseteq 0..255
    /\ Limited \in BOOLEAN
    /\ MaxInterrupts \in Nat

VARIABLES
    pc,         \* where the supervisor is
    child,      \* the processes
    code,       \* how they ended
    watched,    \* processes, the list the loop works on
    todo,       \* what the running loop over that list has still to do
    kept,       \* running_processes
    late,       \* the duration is over
    status,     \* what the console is about to return
    interrupts, \* how many interrupts have arrived
    lost        \* history: started, but interrupted before it was recorded

vars == <<pc, child, code, watched, todo, kept, late, status, interrupts, lost>>

Stopping == {"ask", "wait", "reap"}
Stopped  == pc \in {"returned", "raised"}

TypeOK ==
    /\ pc \in {"preflight", "spawn", "record", "scan", "deadline", "sleep",
               "returned", "raised"} \cup Stopping
    /\ child \in [Children -> {"none", "running", "asked", "killed", "gone"}]
    /\ code \in [Children -> Codes \cup {None, Signalled}]
    /\ watched \subseteq Children /\ todo \subseteq watched
    /\ kept \subseteq watched /\ lost \subseteq Children
    /\ late \in BOOLEAN
    /\ status \in Codes \cup {None, Success, Interrupted}
    /\ pc \in Stopping => status # None
    /\ interrupts \in 0..MaxInterrupts

Alive(c) == child[c] \in {"running", "asked", "killed"}

\* Loops over a list take its members in order.
IsFirst(c, set) == c \in set /\ \A d \in set \ {c} : Rank[c] < Rank[d]

Unstarted == {c \in Children : child[c] = "none"}

Init ==
    /\ pc = "preflight"
    /\ child = [c \in Children |-> "none"]
    /\ code = [c \in Children |-> None]
    /\ watched = {} /\ todo = {} /\ kept = {}
    /\ late = FALSE
    /\ status = None
    /\ interrupts = 0
    /\ lost = {}

-----------------------------------------------------------------------------
(* Starting.                                                               *)

\* run_preflight: the first command that fails ends the console.
Preflight ==
    /\ pc = "preflight"
    /\ \/ pc' = "spawn" /\ UNCHANGED status
       \/ pc' = "returned" /\ status' \in Codes \ {Success}
    /\ UNCHANGED <<child, code, watched, todo, kept, late, interrupts, lost>>

\* Popen of the next command.
Spawn(c) ==
    /\ pc = "spawn"
    /\ IsFirst(c, Unstarted)
    /\ child' = [child EXCEPT ![c] = "running"]
    /\ pc' = "record" /\ todo' = {}
    /\ UNCHANGED <<code, watched, kept, late, status, interrupts, lost>>

\* Popen raises; nothing catches it and the earlier children run on.
SpawnFails ==
    /\ pc = "spawn" /\ Unstarted # {}
    /\ pc' = "raised"
    /\ UNCHANGED <<child, code, watched, todo, kept, late, status, interrupts, lost>>

Started == {c \in Children : child[c] # "none"}

\* processes.append; after the last command the supervision begins.
Record ==
    /\ pc = "record"
    /\ watched' = Started
    /\ kept' = {}
    /\ IF Unstarted = {} THEN pc' = "scan" /\ todo' = Started
                         ELSE pc' = "spawn" /\ todo' = {}
    /\ UNCHANGED <<child, code, late, status, interrupts, lost>>

-----------------------------------------------------------------------------
(* Watching.                                                               *)

\* The beginning of terminate_processes(processes).
Stop(result) ==
    /\ status' = result
    /\ pc' = "ask" /\ todo' = watched /\ kept' = {}

\* Mutant of Poll: an exit with code 0 is taken for none.
PollTruthy(c) ==
    /\ pc = "scan" /\ IsFirst(c, todo)
    /\ IF child[c] # "gone" \/ code[c] = Success
         THEN /\ kept' = kept \cup {c} /\ todo' = todo \ {c}
              /\ UNCHANGED <<pc, status>>
       ELSE IF c \in Required THEN Stop(code[c])
       ELSE todo' = todo \ {c} /\ UNCHANGED <<pc, kept, status>>
    /\ UNCHANGED <<child, code, watched, late, interrupts, lost>>

\* Mutant of Poll: whether the child is required is not asked.
PollAllRequired(c) ==
    /\ pc = "scan" /\ IsFirst(c, todo)
    /\ IF child[c] # "gone"
         THEN /\ kept' = kept \cup {c} /\ todo' = todo \ {c}
              /\ UNCHANGED <<pc, status>>
         ELSE Stop(code[c])
    /\ UNCHANGED <<child, code, watched, late, interrupts, lost>>

\* One turn of the inner loop: an ended child that is required stops the
\* console with its code, another one is no longer watched.
Poll(c) ==
    /\ pc = "scan" /\ IsFirst(c, todo)
    /\ IF child[c] # "gone"
         THEN /\ kept' = kept \cup {c} /\ todo' = todo \ {c}
              /\ UNCHANGED <<pc, status>>
       ELSE IF c \in Required THEN Stop(code[c])
       ELSE todo' = todo \ {c} /\ UNCHANGED <<pc, kept, status>>
    /\ UNCHANGED <<child, code, watched, late, interrupts, lost>>

\* After the inner loop only the running children are watched.
EndScan ==
    /\ pc = "scan" /\ todo = {}
    /\ watched' = kept /\ kept' = {}
    /\ pc' = "deadline"
    /\ UNCHANGED <<child, code, todo, late, status, interrupts, lost>>

\* Mutant of CheckDeadline: the return value is forgotten.
CheckDeadlineReturnsNothing ==
    /\ pc = "deadline"
    /\ IF late THEN Stop(None) ELSE pc' = "sleep" /\ UNCHANGED <<status, todo, kept>>
    /\ UNCHANGED <<child, code, watched, late, interrupts, lost>>

CheckDeadline ==
    /\ pc = "deadline"
    /\ IF late THEN Stop(Success) ELSE pc' = "sleep" /\ UNCHANGED <<status, todo, kept>>
    /\ UNCHANGED <<child, code, watched, late, interrupts, lost>>

\* time.sleep(0.5), and the next round.
Wake ==
    /\ pc = "sleep"
    /\ pc' = "scan" /\ todo' = watched
    /\ UNCHANGED <<child, code, watched, kept, late, status, interrupts, lost>>

-----------------------------------------------------------------------------
(* Stopping: the three loops of terminate_processes.                       *)

\* SIGTERM to every child that has not ended.
Ask ==
    /\ pc = "ask"
    /\ \/ \E c \in todo :
            /\ IsFirst(c, todo)
            /\ child' = IF child[c] = "running" THEN [child EXCEPT ![c] = "asked"]
                                                ELSE child
            /\ todo' = todo \ {c} /\ UNCHANGED pc
       \/ /\ todo = {}
          /\ pc' = "wait" /\ todo' = watched /\ UNCHANGED child
    /\ UNCHANGED <<code, watched, kept, late, status, interrupts, lost>>

\* Wait for each in turn until the common deadline; SIGKILL where it passes.
Wait ==
    /\ pc = "wait"
    /\ \/ \E c \in todo :
            /\ IsFirst(c, todo)
            /\ child' = IF Alive(c) THEN [child EXCEPT ![c] = "killed"] ELSE child
            /\ todo' = todo \ {c} /\ UNCHANGED pc
       \/ /\ todo = {}
          /\ pc' = "reap" /\ todo' = watched /\ UNCHANGED child
    /\ UNCHANGED <<code, watched, kept, late, status, interrupts, lost>>

\* Mutant of Reap: killed children are not waited for.
ReapNothing ==
    /\ pc = "reap"
    /\ pc' = "returned" /\ todo' = {}
    /\ UNCHANGED <<child, code, watched, kept, late, status, interrupts, lost>>

\* One second more for a killed child; then TimeoutExpired, which is not caught.
Reap ==
    /\ pc = "reap"
    /\ \/ \E c \in todo :
            /\ IsFirst(c, todo)
            /\ IF Alive(c) THEN pc' = "raised" /\ UNCHANGED todo
                           ELSE todo' = todo \ {c} /\ UNCHANGED pc
       \/ /\ todo = {}
          /\ pc' = "returned" /\ UNCHANGED todo
    /\ UNCHANGED <<child, code, watched, kept, late, status, interrupts, lost>>

-----------------------------------------------------------------------------
(* The surroundings.                                                       *)

\* A child ends by itself, or because of a signal it was sent.
ChildEnds(c) ==
    /\ Alive(c)
    /\ child' = [child EXCEPT ![c] = "gone"]
    /\ \E n \in (IF child[c] = "running" THEN Codes ELSE {Signalled}) :
          code' = [code EXCEPT ![c] = n]
    /\ UNCHANGED <<pc, watched, todo, kept, late, status, interrupts, lost>>

TimeIsUp ==
    /\ Limited /\ ~late
    /\ pc \notin {"preflight", "spawn", "record"} /\ ~Stopped
    /\ late' = TRUE
    /\ UNCHANGED <<pc, child, code, watched, todo, kept, status, interrupts, lost>>

\* KeyboardInterrupt stops the children; a second one, or one before the try
\* block, is not caught.  A child that is not recorded yet is forgotten.
Interrupt ==
    /\ ~Stopped /\ interrupts < MaxInterrupts
    /\ interrupts' = interrupts + 1
    /\ lost' = IF pc = "record" THEN Started \ watched ELSE lost
    /\ IF pc = "preflight" \/ (pc \in Stopping /\ status = Interrupted)
         THEN pc' = "raised" /\ UNCHANGED <<status, todo, kept>>
         ELSE Stop(Interrupted)
    /\ UNCHANGED <<child, code, watched, late>>

-----------------------------------------------------------------------------
Supervise ==
    \/ Preflight
    \/ \E c \in Children : Spawn(c) \/ Poll(c)
    \/ Record \/ EndScan \/ CheckDeadline \/ Wake
    \/ Ask \/ Wait \/ Reap

Next ==
    \/ Supervise \/ SpawnFails
    \/ \E c \in Children : ChildEnds(c)
    \/ TimeIsUp \/ Interrupt

Spec == Init /\ [][Next]_vars

\* The supervisor itself keeps running; nothing is assumed of the children.
FairSpec == Spec /\ WF_vars(Supervise)

-----------------------------------------------------------------------------
(* Properties.                                                             *)

\* The child c ended by itself, not by a signal of the console.
EndedItself(c) == child[c] = "gone" /\ code[c] \in Codes

\* When the console returns, whatever made it stop, no child it recorded is
\* still running: neither one that ignored SIGTERM nor one dropped earlier.
NothingLeftRunning ==
    pc = "returned" => \A c \in Children \ lost : ~Alive(c)

\* The console starts stopping its children only for a reason, and returns the
\* code that goes with it: the exit of the optional listener is none.
StopsForAReason ==
    pc \in Stopping =>
       \/ status = Interrupted /\ interrupts > 0
       \/ status = Success /\ late
       \/ \E c \in Required : EndedItself(c) /\ status = code[c]

\* A required child that ended, with whatever code and at whatever moment, ends
\* the console; so does the end of the duration.
ExitIsNoticed ==
    ((\E c \in Required : EndedItself(c)) \/ late) ~> Stopped
=============================================================================
