------------------------------ MODULE LiveView ------------------------------
(***************************************************************************)
(* What the live viewer promises of any one change in the local store: the *)
(* page shows nothing before it is stored; once stored it is shown, and    *)
(* although the page may fall back to an older picture for a while, in the *)
(* end it shows the change for good.                                       *)
(***************************************************************************)
VARIABLES
    stored,     \* the change is committed in the store
    shown,      \* the page displays it
    gone        \* the feed has ended: no poller, or no page to show it on

vars == <<stored, shown, gone>>

Init == ~stored /\ ~shown /\ ~gone

Store == ~stored /\ stored' /\ UNCHANGED <<shown, gone>>

\* Showing the change requires that it was stored before; losing sight of it
\* (an older picture arriving late, a page being reloaded) does not.
Display == shown' # shown /\ (shown' => stored) /\ UNCHANGED <<stored, gone>>

End == ~gone /\ gone' /\ UNCHANGED stored /\ (shown' => shown)

Next == Store \/ Display \/ End

Settles == <>stored => (<>gone \/ <>[]shown)

Spec == Init /\ [][Next]_vars /\ Settles
=============================================================================
