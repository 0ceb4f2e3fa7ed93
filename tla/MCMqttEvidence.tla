--------------------------- MODULE MCMqttEvidence ---------------------------
(***************************************************************************)
(* A small instance of MqttEvidence.                                       *)
(***************************************************************************)
EXTENDS MqttEvidence

Running == Text("isrunning", {"is", "running", "isrunning"}, {"running"})
Docked  == Text("docked", {"docked"}, {"dock"})
Mowing  == Text("mowing", {"mowing"}, {"mow"})
Odd     == Text("code_7", {"code", "7"}, {})
Local   == Text("local_mqtt_replay_smoke", {"local", "mqtt", "replay", "smoke"}, {})

Message_(state, work, event, has, ahead) ==
    [texts |-> [label \in Labels |->
        CASE label = "state" -> state [] label = "work_status" -> work
          [] label = "event_type" -> event [] OTHER -> NoText],
     has |-> has, ahead |-> ahead, safe |-> TRUE]

\* The mower at work, with every field; docked, reported late; a code nobody knows
\* from a clock that is ahead; binary; a replay that says more than any of them.
MCContent ==
    [mows    |-> Message_(Running, NoText, NoText, Fields, 0),
     docked  |-> Message_(Docked, Odd, NoText, {"batterySoc"}, -1),
     odd     |-> Message_(Odd, NoText, NoText, Fields, 2),
     binary  |-> [Message_(NoText, NoText, NoText, {}, 0) EXCEPT !.safe = FALSE],
     replay  |-> Message_(Running, Mowing, Local, Fields, 0)]

MCModes == {[limit |-> 1, timed |-> FALSE], [limit |-> 0, timed |-> TRUE]}
MCTexts == {Docked}
=============================================================================
