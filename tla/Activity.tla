------------------------------ MODULE Activity ------------------------------
(***************************************************************************)
(* The three places that decide from a status text whether the mower is at *)
(* work: the poller and the MQTT readiness gate (classify_activity_text of *)
(* navimow_live_sync.py), the viewer (classify_live_activity of            *)
(* build_navimow_map_viewer.py) and the schedule optimizer                 *)
(* (is_active_state of navimow_schedule_cli.py).                           *)
(*                                                                         *)
(* A text is the record of what they look at: its normalized form, its     *)
(* tokens (words and parts of camel case) and the terms it contains as     *)
(* substrings.                                                             *)
(***************************************************************************)
EXTENDS Integers

Text(norm, tokens, terms) == [norm |-> norm, tokens |-> tokens, terms |-> terms]
NoText == Text("", {}, {})

Denied(t) == "not" \in t.tokens /\ t.tokens \cap {"running", "mowing", "working"} # {}

-----------------------------------------------------------------------------
(* classify_activity_text.                                                 *)

ActiveExact ==
    {"active", "isrunning", "running", "mowing", "mow", "working", "work",
     "returning", "return", "returnhome", "paused", "pause", "moving", "tasking"}
IdleTokens ==
    {"idle", "docked", "dock", "charging", "charge", "standby", "parked", "park",
     "stopped", "stop", "offline", "ready", "complete", "completed", "sleep"}
IdleExact    == IdleTokens \cup {"notrunning"}
ActiveTokens == ActiveExact \ {"isrunning", "returnhome"}

\* A denied activity is idle, and so is a text that holds an idle word beside an
\* active one.
ActivityClass(t) ==
    IF t.norm \in IdleExact THEN "idle"
    ELSE IF t.norm \in ActiveExact THEN "active"
    ELSE IF Denied(t) \/ t.tokens \cap IdleTokens # {} THEN "idle"
    ELSE IF t.tokens \cap ActiveTokens # {} THEN "active"
    ELSE "unknown"

-----------------------------------------------------------------------------
(* classify_live_activity.                                                 *)

LiveIdleExact ==
    {"notrunning", "idle", "docked", "charging", "standby", "stopped", "complete",
     "completed"}
LiveIdleTokens == (LiveIdleExact \ {"notrunning"}) \cup {"stop"}
LiveActiveExact ==
    {"active", "isrunning", "running", "mowing", "working", "returning", "paused",
     "moving"}
LiveActiveTokens == (LiveActiveExact \ {"isrunning"}) \cup {"mow"}

LiveClass(t) ==
    IF t.norm \in LiveIdleExact \/ Denied(t) \/ t.tokens \cap LiveIdleTokens # {}
    THEN "idle"
    ELSE IF t.norm \in LiveActiveExact \/ t.tokens \cap LiveActiveTokens # {}
    THEN "active"
    ELSE "unknown"

\* is_live_candidate_active: a row of the store that is fresh, says nothing idle,
\* and either says active or has got somewhere.
CandidateActive(row) ==
    LET classes == {LiveClass(t) : t \in row.texts} IN
    /\ row.fresh /\ "idle" \notin classes
    /\ "active" \in classes \/ row.progress \in 1..99

-----------------------------------------------------------------------------
(* is_active_state: active terms count before passive ones.                *)

ActiveTerms == {"running", "mow", "work", "return", "pause", "moving", "active"}

LooksActive(t) == t.terms \cap ActiveTerms # {}

\* The words and the terms of one text: a word is a part of the text, and what the
\* word contains the text contains.
TermIn ==
    [active |-> "active", isrunning |-> "running", running |-> "running", mow |-> "mow",
     mowing |-> "mow", working |-> "work", returning |-> "return", paused |-> "pause",
     moving |-> "moving"]
IsText(t) ==
    \A word \in DOMAIN TermIn : word = t.norm \/ word \in t.tokens => TermIn[word] \in t.terms
=============================================================================
