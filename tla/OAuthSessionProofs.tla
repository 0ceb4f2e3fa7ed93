------------------------- MODULE OAuthSessionProofs -------------------------
(***************************************************************************)
(* Proofs about OAuthSession, for any processes, window, lifetimes, and any *)
(* number of refresh tokens and mishaps.                                   *)
(***************************************************************************)
EXTENDS OAuthSession, TLAPS

\* No process knows a refresh token that was not given out, and none is refused
\* that need not be replaced.
Bounded ==
    /\ \A p \in Procs :
          /\ used[p] \in 0..grants /\ token[p].refresh \in 0..grants
          /\ command[p] = "oauth-exchange-code" => used[p] = NoToken /\ pc[p] # "load"
          /\ pc[p] = "idle" => used[p] = NoToken
    /\ ~rotates => live = 1..grants

\* What a token says of its expiry is late by no more than its answer was on
\* its way, and a token with which a session runs was good for the window.
Late(t, n) == t.expires # Unknown => t.expires <= t.until + n

ClockOf(p) ==
    /\ pc[p] \in {"idle", "load", "ask"} => age[p] = 0
    /\ pc[p] = "obtain" =>
          age[p] <= Timeout /\ Late(token[p], age[p]) /\ token[p].until + age[p] > Window
    /\ pc[p] = "fill" =>
          Late(token[p], Timeout) /\ token[p].until + age[p] > Window - Timeout
    /\ pc[p] = "running" /\ token[p].expires # Unknown /\ token[p].refresh # NoToken =>
          token[p].until + age[p] > Window - Timeout

Clock == Late(file, Timeout) /\ \A p \in Procs : ClockOf(p)

\* A refresh token that is about to be written is known to nobody else.
Fresh ==
    rotates => \A p \in Procs :
        pc[p] \in Holding /\ token[p].refresh # NoToken =>
           /\ token[p].refresh \in live
           /\ file.refresh # token[p].refresh
           /\ \A q \in Procs : used[q] # token[p].refresh
           /\ \A q \in Procs \ {p} : pc[q] \in Holding => token[q].refresh # token[p].refresh

IInv == TypeOK /\ Bounded /\ Clock /\ Fresh /\ RefreshTokenLive /\ FileReadable

-----------------------------------------------------------------------------
LEMMA InitIInv == Init => IInv
<1> SUFFICES ASSUME Init PROVE IInv
  OBVIOUS
<1>1. TypeOK
  <2>1. /\ form \in {Absent, Half, Whole} /\ file \in Tokens /\ file.refresh \in 0..grants
        /\ live \subseteq 1..grants /\ grants \in 0..MaxGrants /\ mishaps \in 0..MaxFaults
        /\ token \in [Procs -> Tokens]
    BY OAuthAssumption DEF Init, Blank, Tokens, Unknown, NoToken
  <2>2. /\ pc \in [Procs -> PCs] /\ command \in [Procs -> Commands]
        /\ used \in [Procs -> 0..MaxGrants] /\ age \in [Procs -> 0..Window + 1]
    BY OAuthAssumption DEF Init, PCs, Commands, NoToken
  <2>3. /\ rotates \in BOOLEAN /\ says \in BOOLEAN /\ spoilt \in BOOLEAN
        /\ torn \subseteq {p \in Procs : pc[p] = "fill"}
    BY Zenon DEF Init
  <2> QED BY <2>1, <2>2, <2>3 DEF TypeOK
<1>2. Bounded /\ Clock
  BY OAuthAssumption DEF Init, Bounded, Clock, ClockOf, Late, Blank, Unknown, NoToken
<1>3. Fresh /\ RefreshTokenLive /\ FileReadable
  BY DEF Init, Fresh, RefreshTokenLive, FileReadable, Blank, Holding, Absent, Half, Whole
<1> QED BY <1>1, <1>2, <1>3 DEF IInv

\* What a command leaves behind when it ends.
LEMMA EndsFacts ==
    ASSUME NEW p \in Procs, TypeOK, Ends(p)
    PROVE  /\ pc' \in [Procs -> PCs] /\ command' \in [Procs -> Commands]
           /\ token' \in [Procs -> Tokens] /\ used' \in [Procs -> 0..MaxGrants]
           /\ age' \in [Procs -> 0..Window + 1]
           /\ torn' = torn \ {p}
           /\ pc'[p] = "idle" /\ command'[p] = "session" /\ token'[p] = Blank
           /\ used'[p] = NoToken /\ age'[p] = 0
           /\ \A q \in Procs \ {p} :
                 /\ pc'[q] = pc[q] /\ command'[q] = command[q] /\ token'[q] = token[q]
                 /\ used'[q] = used[q] /\ age'[q] = age[q]
<1>1. Blank \in Tokens
  BY OAuthAssumption DEF Blank, Tokens, Unknown, NoToken
<1> QED BY <1>1, OAuthAssumption DEF TypeOK, Ends, Moves, PCs, Commands, NoToken

\* What the service does when it answers.
LEMMA GrantsFacts ==
    ASSUME NEW p \in Procs, NEW refresh \in {NoToken, grants + 1},
           TypeOK, Bounded, Grants(p, refresh)
    PROVE  /\ grants' \in 0..MaxGrants /\ grants <= grants' /\ live' \subseteq 1..grants'
           /\ UNCHANGED <<rotates, says>>
           /\ ~rotates => live' = 1..grants'
           /\ refresh \in 0..grants' /\ Kept(p, refresh) \in 0..grants'
           /\ \A t \in live : t = used[p] \/ t \in live'
           /\ rotates /\ refresh = NoToken =>
                 command[p] = "oauth-exchange-code" /\ UNCHANGED <<live, grants>>
           /\ refresh # NoToken => refresh = grants + 1 /\ refresh \in live' /\ Kept(p, refresh) = refresh
<1>1. grants \in Nat /\ grants \in 0..MaxGrants /\ used[p] \in 0..grants /\ live \subseteq 1..grants
      /\ (~rotates => live = 1..grants)
      /\ (command[p] = "oauth-exchange-code" => used[p] = 0)
  BY OAuthAssumption DEF TypeOK, Bounded, NoToken
<1>2. CASE refresh = NoToken
  <2>1. /\ command[p] = "oauth-exchange-code" \/ ~rotates
        /\ UNCHANGED <<live, grants, rotates, says>> /\ Kept(p, refresh) = used[p]
    BY <1>2, Zenon DEF Grants, Kept
  <2> QED BY <1>1, <1>2, <2>1, OAuthAssumption DEF NoToken, TypeOK
<1>3. CASE refresh # NoToken
  <2>1. /\ refresh = grants + 1 /\ grants' = grants + 1 /\ grants < MaxGrants
        /\ live' = (live \ {used[p]}) \cup {grants + 1}
        /\ command[p] = "oauth-exchange-code" \/ rotates
        /\ UNCHANGED <<rotates, says>>
    BY <1>3 DEF Grants
  <2>2. Kept(p, refresh) = refresh
    BY <1>3 DEF Kept
  <2>3. /\ grants' \in 0..MaxGrants /\ grants <= grants' /\ live' \subseteq 1..grants'
        /\ refresh \in 0..grants' /\ Kept(p, refresh) \in 0..grants'
    <3>1. grants' \in 0..MaxGrants /\ grants <= grants'
      BY <1>1, <2>1, OAuthAssumption
    <3>2. ASSUME NEW t \in live' PROVE t \in 1..grants'
      <4>1. t \in 1..grants \/ t = grants + 1
        BY <1>1, <2>1, <3>2
      <4> QED BY <1>1, <2>1, <4>1
    <3>3. refresh \in 0..grants'
      BY <1>1, <2>1
    <3> QED BY <2>2, <3>1, <3>2, <3>3
  <2>4. ASSUME ~rotates PROVE live' = 1..grants'
    BY <1>1, <2>1, <2>4, OAuthAssumption
  <2> QED BY <1>1, <1>3, <2>1, <2>2, <2>3, <2>4 DEF NoToken
<1> QED BY <1>2, <1>3

LEMMA EndsKeepBounds ==
    ASSUME NEW p \in Procs, TypeOK, Bounded, Ends(p),
           grants' \in 0..MaxGrants, grants <= grants', ~rotates' => live' = 1..grants'
    PROVE  Bounded'
<1>1. grants \in Nat /\ grants' \in Nat
  BY OAuthAssumption DEF TypeOK
<1>2. ASSUME NEW q \in Procs
      PROVE  /\ used'[q] \in 0..grants' /\ token'[q].refresh \in 0..grants'
             /\ command'[q] = "oauth-exchange-code" => used'[q] = NoToken /\ pc'[q] # "load"
             /\ pc'[q] = "idle" => used'[q] = NoToken
  <2>1. CASE q = p
    <3>1. Blank.refresh = 0
      BY DEF Blank, NoToken
    <3>2. used'[q] = 0 /\ token'[q].refresh = 0 /\ command'[q] = "session" /\ pc'[q] = "idle"
      BY <2>1, <3>1, EndsFacts DEF NoToken
    <3> QED BY <1>1, <3>2 DEF NoToken
  <2>2. CASE q # p
    <3>1. used[q] \in 0..grants /\ token[q].refresh \in 0..grants
      BY DEF Bounded
    <3>2. /\ used'[q] = used[q] /\ token'[q] = token[q]
          /\ command'[q] = command[q] /\ pc'[q] = pc[q]
      BY <2>2, EndsFacts
    <3>3. used[q] \in 0..grants' /\ token[q].refresh \in 0..grants'
      BY <1>1, <3>1
    <3> QED BY <3>2, <3>3 DEF Bounded
  <2> QED BY <2>1, <2>2
<1> QED BY <1>2 DEF Bounded

\* A token a moment later.
LEMMA OlderFacts ==
    ASSUME NEW t \in Tokens
    PROVE  /\ Older(t) \in Tokens /\ Older(t).refresh = t.refresh
           /\ OnItsWay(t) \in Tokens /\ OnItsWay(t).refresh = t.refresh
           /\ OnItsWay(t).expires = t.expires
           /\ Older(t).expires = Unknown <=> t.expires = Unknown
           /\ OnItsWay(t).until + 1 >= t.until /\ Older(t).until + 1 >= t.until
           /\ \A d \in Nat : Late(t, d) => Late(Older(t), d) /\ Late(OnItsWay(t), d + 1)
<1>1. /\ t.expires \in Nat \/ t.expires = -1
      /\ t.until \in Nat /\ t.refresh \in 0..MaxGrants
  BY DEF Tokens, Unknown
<1>2. /\ Older(t).expires = Shorter(t.expires) /\ Older(t).until = Shorter(t.until)
      /\ Older(t).refresh = t.refresh
      /\ OnItsWay(t).expires = t.expires /\ OnItsWay(t).until = Shorter(t.until)
      /\ OnItsWay(t).refresh = t.refresh
  BY DEF Older, OnItsWay, Tokens
<1>3. /\ Shorter(t.until) \in Nat /\ Shorter(t.until) + 1 >= t.until
      /\ Shorter(t.expires) \in Nat \cup {-1}
      /\ Shorter(t.expires) = -1 <=> t.expires = -1
      /\ \A d \in Nat : t.expires # -1 /\ t.expires <= t.until + d
                           => /\ Shorter(t.expires) <= Shorter(t.until) + d
                              /\ t.expires <= Shorter(t.until) + (d + 1)
  BY <1>1 DEF Shorter
<1>4. Older(t) \in Tokens /\ OnItsWay(t) \in Tokens
  BY <1>1, <1>3 DEF Older, OnItsWay, Tokens, Unknown
<1> QED BY <1>1, <1>2, <1>3, <1>4 DEF Late, Unknown

-----------------------------------------------------------------------------
LEMMA TypeStep == TypeOK /\ Bounded /\ [Next]_vars => TypeOK' /\ Bounded'
<1> SUFFICES ASSUME TypeOK, Bounded, [Next]_vars PROVE TypeOK' /\ Bounded'
  OBVIOUS
<1>0. /\ grants \in Nat /\ file \in Tokens /\ file.refresh \in 0..grants
      /\ 0..grants \subseteq 0..MaxGrants
      /\ Blank \in Tokens /\ Blank.refresh = 0
  <2>1. grants \in 0..MaxGrants /\ file \in Tokens /\ file.refresh \in 0..grants
    BY DEF TypeOK
  <2>2. Blank \in Tokens /\ Blank.refresh = 0
    BY OAuthAssumption DEF Blank, Tokens, Unknown, NoToken
  <2> QED BY <2>1, <2>2, OAuthAssumption
<1>1. CASE Tick
  <2>1. /\ file' \in Tokens /\ file'.refresh \in 0..grants
        /\ token' \in [Procs -> Tokens]
        /\ \A p \in Procs : token'[p].refresh = token[p].refresh
    BY <1>0, <1>1, OlderFacts DEF Tick, TypeOK
  <2>2. age' \in [Procs -> 0..Window + 1]
    BY <1>1, OAuthAssumption DEF Tick, TypeOK
  <2>3. UNCHANGED <<service, form, pc, command, used, torn, mishaps, spoilt>>
    BY <1>1 DEF Tick
  <2> QED BY <2>1, <2>2, <2>3 DEF TypeOK, Bounded, service
<1>2. ASSUME NEW p \in Procs, NEW c \in Commands, Start(p, c) PROVE TypeOK' /\ Bounded'
  <2>1. /\ pc' \in [Procs -> PCs] /\ command' \in [Procs -> Commands] /\ pc[p] = "idle"
        /\ pc'[p] \in {"ask", "load"} /\ (c = "oauth-exchange-code" => pc'[p] = "ask")
        /\ command'[p] = c
        /\ \A q \in Procs \ {p} : pc'[q] = pc[q] /\ command'[q] = command[q]
    BY <1>2 DEF Start, Moves, TypeOK, PCs
  <2>2. UNCHANGED <<service, form, file, token, used, age, torn, mishaps, spoilt>>
    BY <1>2 DEF Start
  <2>3. TypeOK'
    BY <2>1, <2>2 DEF TypeOK, service
  <2> QED BY <2>1, <2>2, <2>3 DEF Bounded, service
<1>3. ASSUME NEW p \in Procs, Ends(p), UNCHANGED <<service, form, file>>,
             mishaps' \in 0..MaxFaults, spoilt' \in BOOLEAN
      PROVE  TypeOK' /\ Bounded'
  <2>1. TypeOK'
    BY <1>3, EndsFacts DEF TypeOK, service
  <2>2. Bounded'
    <3>1. /\ UNCHANGED <<live, grants, rotates>> /\ grants \in 0..MaxGrants
          /\ (~rotates => live = 1..grants)
      BY <1>3 DEF service, TypeOK, Bounded
    <3>2. grants <= grants'
      BY <1>0, <3>1
    <3> QED BY <1>3, <3>1, <3>2, EndsKeepBounds
  <2> QED BY <2>1, <2>2
<1>4. ASSUME NEW p \in Procs, LoadFails(p) \/ AskFails(p) \/ Finish(p) \/ Kill(p)
      PROVE  TypeOK' /\ Bounded'
  <2>1. Ends(p) /\ UNCHANGED <<service, form, file>>
    BY <1>4 DEF LoadFails, AskFails, Finish, Kill
  <2>2. mishaps' \in 0..MaxFaults
    BY <1>4, OAuthAssumption DEF LoadFails, AskFails, Finish, Kill, Fault, TypeOK
  <2>3. spoilt' \in BOOLEAN
    BY <1>4, Zenon DEF LoadFails, AskFails, Finish, Kill, TypeOK
  <2> QED BY <1>3, <2>1, <2>2, <2>3
<1>5. ASSUME NEW p \in Procs, Load(p) PROVE TypeOK' /\ Bounded'
  <2>1. /\ pc[p] = "load" /\ pc'[p] \in {"ask", "running"}
        /\ pc' \in [Procs -> PCs] /\ \A q \in Procs \ {p} : pc'[q] = pc[q]
        /\ used' \in [Procs -> 0..MaxGrants] /\ used'[p] \in 0..grants
        /\ \A q \in Procs \ {p} : used'[q] = used[q]
        /\ token' \in [Procs -> Tokens] /\ token'[p].refresh \in 0..grants
        /\ \A q \in Procs \ {p} : token'[q] = token[q]
    <3>1. /\ pc \in [Procs -> PCs] /\ used \in [Procs -> 0..MaxGrants]
          /\ token \in [Procs -> Tokens]
          /\ used[p] \in 0..grants /\ token[p].refresh \in 0..grants
      BY DEF TypeOK, Bounded
    <3> QED BY <1>0, <1>5, <3>1 DEF Load, Moves, PCs
  <2>2. UNCHANGED <<service, form, file, command, age, torn, mishaps, spoilt>>
    BY <1>5 DEF Load
  <2>3. TypeOK'
    BY <2>1, <2>2 DEF TypeOK, service
  <2> QED BY <2>1, <2>2, <2>3 DEF Bounded, service
<1>6. ASSUME NEW p \in Procs, NEW refresh \in {NoToken, grants + 1}, NEW life \in Lifetimes,
             Ask(p, refresh, life)
      PROVE  TypeOK' /\ Bounded'
  <2>1. /\ grants' \in 0..MaxGrants /\ grants <= grants' /\ live' \subseteq 1..grants'
        /\ UNCHANGED <<rotates, says>> /\ Kept(p, refresh) \in 0..grants'
        /\ (~rotates => live' = 1..grants')
    BY <1>6, GrantsFacts DEF Ask
  <2>2. /\ token' \in [Procs -> Tokens] /\ token'[p].refresh = Kept(p, refresh)
        /\ \A q \in Procs \ {p} : token'[q] = token[q]
    <3>1. life \in Nat
      BY OAuthAssumption
    <3>2. Kept(p, refresh) \in 0..MaxGrants
      BY <2>1, OAuthAssumption
    <3> QED BY <1>6, <3>1, <3>2 DEF Ask, Tokens, TypeOK, Unknown
  <2>3. /\ pc' \in [Procs -> PCs] /\ pc[p] = "ask" /\ pc'[p] = "obtain"
        /\ \A q \in Procs \ {p} : pc'[q] = pc[q]
    BY <1>6 DEF Ask, Moves, TypeOK, PCs, Holding
  <2>4. UNCHANGED <<form, file, command, used, age, torn, mishaps, spoilt>>
    BY <1>6 DEF Ask
  <2>5. file.refresh \in 0..grants'
    BY <1>0, <2>1, OAuthAssumption
  <2>6. TypeOK'
    BY <2>1, <2>2, <2>3, <2>4, <2>5 DEF TypeOK
  <2>7. \A q \in Procs : used[q] \in 0..grants' /\ token'[q].refresh \in 0..grants'
    BY <1>0, <2>1, <2>2, OAuthAssumption DEF Bounded
  <2> QED BY <2>1, <2>3, <2>4, <2>6, <2>7 DEF Bounded
<1>7. ASSUME NEW p \in Procs, NEW refresh \in {NoToken, grants + 1}, AnswerLost(p, refresh)
      PROVE  TypeOK' /\ Bounded'
  <2>1. /\ grants' \in 0..MaxGrants /\ grants <= grants' /\ live' \subseteq 1..grants'
        /\ UNCHANGED <<rotates, says>> /\ (~rotates => live' = 1..grants')
    BY <1>7, GrantsFacts DEF AnswerLost
  <2>2. mishaps' \in 0..MaxFaults /\ UNCHANGED <<form, file>> /\ Ends(p)
    BY <1>7, OAuthAssumption DEF AnswerLost, Fault, TypeOK
  <2>3. spoilt' \in BOOLEAN
    BY <1>7, Zenon DEF AnswerLost, TypeOK
  <2>4. file.refresh \in 0..grants'
    BY <1>0, <2>1, OAuthAssumption
  <2>5. TypeOK'
    BY <2>1, <2>2, <2>3, <2>4, EndsFacts DEF TypeOK
  <2>6. Bounded'
    BY <2>1, <2>2, EndsKeepBounds, Zenon
  <2> QED BY <2>5, <2>6
<1>8. ASSUME NEW p \in Procs, Obtain(p) PROVE TypeOK' /\ Bounded'
  <2>1. /\ pc' \in [Procs -> PCs] /\ pc[p] = "obtain" /\ pc'[p] = "fill"
        /\ \A q \in Procs \ {p} : pc'[q] = pc[q]
        /\ age' \in [Procs -> 0..Window + 1]
        /\ form' = Half /\ file' = Blank
    BY <1>8, OAuthAssumption DEF Obtain, Moves, TypeOK, PCs, Holding
  <2>2. torn' \subseteq {q \in Procs : pc'[q] = "fill"}
    BY <1>8, <2>1 DEF Obtain, TypeOK
  <2>3. file' \in Tokens /\ file'.refresh \in 0..grants
    BY <1>0, <2>1, OAuthAssumption DEF Blank, Tokens, NoToken, Unknown
  <2>4. UNCHANGED <<service, command, token, used, mishaps, spoilt>>
    BY <1>8 DEF Obtain
  <2>5. TypeOK'
    BY <2>1, <2>2, <2>3, <2>4 DEF TypeOK, service
  <2> QED BY <2>1, <2>4, <2>5 DEF Bounded, service
<1>9. ASSUME NEW p \in Procs, Fill(p) PROVE TypeOK' /\ Bounded'
  <2>1. /\ pc[p] = "fill" /\ form' \in {Whole, Half} /\ file' \in {token[p], Blank}
        /\ UNCHANGED <<service, mishaps>>
    BY <1>9 DEF Fill
  <2>2. file' \in Tokens /\ file'.refresh \in 0..grants
    <3>1. token[p] \in Tokens /\ token[p].refresh \in 0..grants
      BY DEF TypeOK, Bounded
    <3> QED BY <1>0, <2>1, <3>1
  <2>3. spoilt' \in BOOLEAN
    <3>1. spoilt' = (p \in torn)
      BY <1>9 DEF Fill
    <3> QED BY <3>1
  <2>4. CASE command[p] = "session"
    <3>1. /\ pc' \in [Procs -> PCs] /\ pc'[p] = "running"
          /\ \A q \in Procs \ {p} : pc'[q] = pc[q]
          /\ torn' = torn \ {p} /\ UNCHANGED <<command, token, used, age>>
      BY <1>9, <2>4 DEF Fill, Moves, TypeOK, PCs
    <3>2. TypeOK'
      BY <2>1, <2>2, <2>3, <3>1 DEF TypeOK, service
    <3> QED BY <2>1, <3>1, <3>2 DEF Bounded, service
  <2>5. CASE command[p] # "session"
    <3>1. Ends(p)
      BY <1>9, <2>5 DEF Fill
    <3>2. TypeOK'
      BY <2>1, <2>2, <2>3, <3>1, EndsFacts DEF TypeOK, service
    <3>3. Bounded'
      <4>1. /\ UNCHANGED <<live, grants, rotates>> /\ grants \in 0..MaxGrants
            /\ (~rotates => live = 1..grants)
        BY <2>1 DEF service, TypeOK, Bounded
      <4>2. grants <= grants'
        BY <1>0, <4>1
      <4> QED BY <3>1, <4>1, <4>2, EndsKeepBounds
    <3> QED BY <3>2, <3>3
  <2> QED BY <2>4, <2>5
<1>10. CASE UNCHANGED vars
  BY <1>10 DEF vars, service, TypeOK, Bounded
<1>11. ASSUME NEW p \in Procs, Answers(p) PROVE TypeOK' /\ Bounded'
  BY <1>6, <1>7, <1>11 DEF Answers
<1> QED BY <1>1, <1>2, <1>4, <1>5, <1>8, <1>9, <1>10, <1>11 DEF Next

-----------------------------------------------------------------------------
LEMMA ClockStep == TypeOK /\ Clock /\ [Next]_vars => Clock'
<1> SUFFICES ASSUME TypeOK, Clock, [Next]_vars PROVE Clock'
  OBVIOUS
<1>0. /\ Timeout \in Nat /\ Window \in Nat /\ Timeout < Window
      /\ file \in Tokens
      /\ \A p \in Procs : token[p] \in Tokens /\ age[p] \in Nat /\ age[p] <= Window + 1
  BY OAuthAssumption DEF TypeOK
<1>1. CASE Tick
  <2>1. Late(file', Timeout)
    BY <1>0, <1>1, OlderFacts DEF Tick, Clock
  <2>2. ASSUME NEW p \in Procs PROVE ClockOf(p)'
    <3>1. /\ pc'[p] = pc[p] /\ ClockOf(p)
          /\ token[p].until \in Nat /\ token[p] \in Tokens /\ age[p] \in Nat
      BY <1>0, <1>1 DEF Tick, Clock, Tokens
    <3>2. CASE pc[p] = "obtain"
      <4>1. /\ age[p] < Timeout /\ age'[p] = age[p] + 1
            /\ token'[p] = OnItsWay(token[p])
        BY <1>0, <1>1, <3>2 DEF Tick, Clocked, Holding, TypeOK
      <4>2. Late(token'[p], age'[p]) /\ token'[p].until + 1 >= token[p].until /\ token'[p].until \in Nat
        BY <3>1, <3>2, <4>1, OlderFacts DEF ClockOf, Tokens
      <4> QED BY <1>0, <3>1, <3>2, <4>1, <4>2 DEF ClockOf
    <3>3. CASE pc[p] # "obtain"
      <4>1. /\ token'[p] = Older(token[p])
            /\ token'[p].refresh = token[p].refresh
            /\ token'[p].expires = Unknown <=> token[p].expires = Unknown
            /\ token'[p].until + 1 >= token[p].until /\ token'[p].until \in Nat
            /\ Late(token[p], Timeout) => Late(token'[p], Timeout)
        <5>1. token'[p] = Older(token[p])
          BY <1>1, <3>3 DEF Tick
        <5> QED BY <1>0, <3>1, <5>1, OlderFacts DEF Tokens
      <4>2. /\ pc[p] \notin Clocked => age'[p] = age[p]
            /\ pc[p] \in Clocked => age'[p] = age[p] + 1 \/ (age'[p] = age[p] /\ age[p] > Window)
        BY <1>0, <1>1, <3>1 DEF Tick, TypeOK
      <4>3. token[p].until + age[p] > Window - Timeout /\ pc[p] \in Clocked
               => token'[p].until + age'[p] > Window - Timeout
        BY <1>0, <3>1, <4>1, <4>2
      <4> QED BY <3>1, <3>3, <4>1, <4>2, <4>3 DEF ClockOf, Clocked, Holding
    <3> QED BY <3>2, <3>3
  <2> QED BY <2>1, <2>2 DEF Clock
<1>2. ASSUME NEW p \in Procs, file' \in {file, Blank} \/ Late(file', Timeout), ClockOf(p)',
             \A q \in Procs \ {p} : pc'[q] = pc[q] /\ token'[q] = token[q] /\ age'[q] = age[q]
      PROVE  Clock'
  <2>1. Late(file', Timeout)
    BY <1>2 DEF Clock, Late, Blank
  <2>2. \A q \in Procs : ClockOf(q)'
    BY <1>2 DEF Clock, ClockOf
  <2> QED BY <2>1, <2>2 DEF Clock
<1>3. ASSUME NEW p \in Procs, NEW c \in Commands, Start(p, c) PROVE Clock'
  <2>1. /\ pc[p] = "idle" /\ pc'[p] \in {"ask", "load"} /\ UNCHANGED <<file, token, age>>
        /\ \A q \in Procs \ {p} : pc'[q] = pc[q]
    BY <1>3 DEF Start, Moves, TypeOK
  <2>2. ClockOf(p)'
    BY <2>1 DEF Clock, ClockOf
  <2> QED BY <1>2, <2>1, <2>2
<1>4. ASSUME NEW p \in Procs, Ends(p), file' \in {file, Blank, token[p]},
             file' = token[p] => pc[p] = "fill"
      PROVE  Clock'
  <2>1. ClockOf(p)'
    BY <1>4, EndsFacts DEF ClockOf
  <2>2. file' \in {file, Blank} \/ Late(file', Timeout)
    BY <1>4 DEF Clock, ClockOf
  <2> QED BY <1>2, <1>4, <2>1, <2>2, EndsFacts
<1>5. ASSUME NEW p \in Procs,
             \/ LoadFails(p) \/ AskFails(p) \/ Finish(p) \/ Kill(p)
             \/ \E refresh \in {NoToken, grants + 1} : AnswerLost(p, refresh)
      PROVE  Clock'
  <2>1. Ends(p) /\ file' = file
    BY <1>5 DEF LoadFails, AskFails, Finish, Kill, AnswerLost
  <2>2. file = token[p] /\ pc[p] # "fill" => Clock'
    <3>1. ClockOf(p)'
      BY <2>1, EndsFacts DEF ClockOf
    <3> QED BY <1>2, <2>1, <3>1, EndsFacts
  <2> QED BY <1>4, <2>1, <2>2
<1>6. ASSUME NEW p \in Procs, Load(p) PROVE Clock'
  <2>1. /\ pc[p] = "load" /\ age' = age /\ file' = file /\ age[p] = 0
        /\ \A q \in Procs \ {p} : pc'[q] = pc[q] /\ token'[q] = token[q]
    BY <1>6 DEF Load, Moves, TypeOK, Clock, ClockOf
  <2>2. CASE Refreshes(p)
    <3>1. pc'[p] = "ask"
      BY <1>6, <2>2 DEF Load, Moves, TypeOK
    <3> QED BY <1>2, <2>1, <3>1 DEF ClockOf
  <2>3. CASE ~Refreshes(p)
    <3>1. pc'[p] = "running" /\ token'[p] = file
      BY <1>6, <2>3 DEF Load, Moves, TypeOK
    <3>2. file.refresh # NoToken /\ file.expires # Unknown => file.until > Window - Timeout
      <4>1. file.refresh # NoToken /\ file.expires # Unknown => file.expires > Window
        BY <1>0, <2>3 DEF Refreshes, NeedsRefresh, Tokens, Unknown
      <4> QED BY <1>0, <4>1 DEF Clock, Late, Tokens, Unknown
    <3>3. file.until + 0 = file.until
      BY <1>0 DEF Tokens
    <3>4. ClockOf(p)'
      BY <2>1, <3>1, <3>2, <3>3 DEF ClockOf
    <3> QED BY <1>2, <2>1, <3>4
  <2> QED BY <2>2, <2>3
<1>7. ASSUME NEW p \in Procs, NEW refresh \in {NoToken, grants + 1}, NEW life \in Lifetimes,
             Ask(p, refresh, life)
      PROVE  Clock'
  <2>1. /\ pc[p] = "ask" /\ pc'[p] = "obtain" /\ age' = age /\ file' = file /\ age[p] = 0
        /\ token'[p].until = life /\ token'[p].expires \in {life, Unknown}
        /\ \A q \in Procs \ {p} : pc'[q] = pc[q] /\ token'[q] = token[q]
    BY <1>7 DEF Ask, Moves, TypeOK, Clock, ClockOf
  <2>2. life \in Nat /\ life > Window
    BY OAuthAssumption
  <2>3. ClockOf(p)'
    BY <1>0, <2>1, <2>2 DEF ClockOf, Late
  <2> QED BY <1>2, <2>1, <2>3
<1>8. ASSUME NEW p \in Procs, Obtain(p) PROVE Clock'
  <2>1. /\ pc[p] = "obtain" /\ pc'[p] = "fill" /\ age'[p] = 0 /\ file' = Blank /\ token' = token
        /\ \A q \in Procs \ {p} : pc'[q] = pc[q] /\ age'[q] = age[q]
    BY <1>8 DEF Obtain, Moves, TypeOK
  <2>2. Late(token[p], Timeout) /\ token[p].until + 0 > Window - Timeout
    BY <1>0, <2>1 DEF Clock, ClockOf, Late, Tokens, Unknown
  <2>3. ClockOf(p)'
    BY <2>1, <2>2 DEF ClockOf
  <2> QED BY <1>2, <2>1, <2>3
<1>9. ASSUME NEW p \in Procs, Fill(p) PROVE Clock'
  <2>1. pc[p] = "fill" /\ file' \in {token[p], Blank}
    BY <1>9 DEF Fill
  <2>2. CASE command[p] = "session"
    <3>1. /\ pc'[p] = "running" /\ UNCHANGED <<token, age>>
          /\ \A q \in Procs \ {p} : pc'[q] = pc[q]
      BY <1>9, <2>2 DEF Fill, Moves, TypeOK
    <3>2. ClockOf(p)' /\ (file' = Blank \/ Late(file', Timeout))
      BY <2>1, <3>1 DEF Clock, ClockOf
    <3> QED BY <1>2, <3>1, <3>2
  <2>3. CASE command[p] # "session"
    BY <1>4, <1>9, <2>1, <2>3 DEF Fill
  <2> QED BY <2>2, <2>3
<1>10. CASE UNCHANGED vars
  BY <1>10 DEF vars, Clock, ClockOf
<1>11. ASSUME NEW p \in Procs, Answers(p) PROVE Clock'
  BY <1>5, <1>7, <1>11 DEF Answers
<1> QED BY <1>1, <1>3, <1>5, <1>6, <1>8, <1>9, <1>10, <1>11 DEF Next

-----------------------------------------------------------------------------
\* A step that obtains no token makes none known that was not.
LEMMA FreshKept ==
    ASSUME TypeOK, Bounded, Fresh, UNCHANGED rotates,
           \A q \in Procs : pc'[q] \in Holding =>
              pc[q] \in Holding /\ token'[q].refresh = token[q].refresh,
           \A q \in Procs : used'[q] \in {used[q], NoToken, file.refresh},
           \A t \in live : t \in live' \/ \E q \in Procs : t = used[q],
           \/ file'.refresh \in {file.refresh, NoToken}
           \/ \E q \in Procs : /\ pc[q] \in Holding /\ pc'[q] \notin Holding
                               /\ file'.refresh = token[q].refresh
    PROVE  Fresh'
<1> SUFFICES ASSUME rotates', NEW p \in Procs, pc'[p] \in Holding, token'[p].refresh # NoToken
             PROVE  /\ token'[p].refresh \in live'
                    /\ file'.refresh # token'[p].refresh
                    /\ \A q \in Procs : used'[q] # token'[p].refresh
                    /\ \A q \in Procs \ {p} :
                          pc'[q] \in Holding => token'[q].refresh # token'[p].refresh
  BY DEF Fresh
<1>1. /\ token'[p].refresh = token[p].refresh /\ pc[p] \in Holding
      /\ token[p].refresh \in live /\ file.refresh # token[p].refresh
      /\ \A q \in Procs : used[q] # token[p].refresh
      /\ \A q \in Procs \ {p} : pc[q] \in Holding => token[q].refresh # token[p].refresh
  BY DEF Fresh
<1>2. token'[p].refresh \in live' /\ \A q \in Procs : used'[q] # token'[p].refresh
  BY <1>1
<1>3. file'.refresh # token'[p].refresh
  BY <1>1
<1>4. \A q \in Procs \ {p} : pc'[q] \in Holding => token'[q].refresh # token'[p].refresh
  BY <1>1
<1> QED BY <1>2, <1>3, <1>4

LEMMA FreshStep == TypeOK /\ Bounded /\ Fresh /\ [Next]_vars => Fresh'
<1> SUFFICES ASSUME TypeOK, Bounded, Fresh, [Next]_vars PROVE Fresh'
  OBVIOUS
<1>0. /\ file \in Tokens /\ \A q \in Procs : token[q] \in Tokens
      /\ Blank.refresh = NoToken
  BY DEF TypeOK, Blank
<1>1. CASE Tick
  <2>1. UNCHANGED <<rotates, live, pc, used>>
    BY <1>1 DEF Tick, service
  <2>2. file'.refresh = file.refresh /\ \A q \in Procs : token'[q].refresh = token[q].refresh
    BY <1>0, <1>1, OlderFacts DEF Tick
  <2> QED BY <2>1, <2>2, FreshKept
<1>2. ASSUME NEW p \in Procs, NEW c \in Commands, Start(p, c) PROVE Fresh'
  <2>1. UNCHANGED <<rotates, live, used, file, token>>
    BY <1>2 DEF Start, service
  <2>2. \A q \in Procs : pc'[q] \in Holding => pc[q] \in Holding
    BY <1>2 DEF Start, Moves, TypeOK, Holding
  <2> QED BY <2>1, <2>2, FreshKept
<1>3. ASSUME NEW p \in Procs, Ends(p), UNCHANGED rotates, file' = file \/ pc[p] \in Holding,
             file' \in {file, Blank, token[p]},
             \A t \in live : t \in live' \/ t = used[p]
      PROVE  Fresh'
  <2>1. /\ pc'[p] = "idle" /\ used'[p] = NoToken
        /\ \A q \in Procs \ {p} : /\ pc'[q] = pc[q] /\ token'[q] = token[q]
                                  /\ used'[q] = used[q]
    BY <1>3, EndsFacts
  <2>2. \A q \in Procs : pc'[q] \in Holding => pc[q] \in Holding /\ token'[q] = token[q]
    BY <2>1 DEF Holding
  <2>3. \/ file'.refresh \in {file.refresh, NoToken}
        \/ pc[p] \in Holding /\ pc'[p] \notin Holding /\ file'.refresh = token[p].refresh
    BY <1>0, <1>3, <2>1 DEF Holding
  <2> QED BY <1>3, <2>1, <2>2, <2>3, FreshKept
<1>4. ASSUME NEW p \in Procs, LoadFails(p) \/ AskFails(p) \/ Finish(p) \/ Kill(p)
      PROVE  Fresh'
  <2>1. Ends(p) /\ UNCHANGED <<rotates, live, file>>
    BY <1>4 DEF LoadFails, AskFails, Finish, Kill, service
  <2> QED BY <1>3, <2>1
<1>5. ASSUME NEW p \in Procs, Load(p) PROVE Fresh'
  <2>1. UNCHANGED <<rotates, live, file>>
    BY <1>5 DEF Load, service
  <2>2. \A q \in Procs :
           /\ pc'[q] \in Holding => pc[q] \in Holding /\ token'[q] = token[q]
           /\ used'[q] \in {used[q], file.refresh}
    BY <1>5 DEF Load, Moves, TypeOK, Holding
  <2> QED BY <2>1, <2>2, FreshKept
<1>6. ASSUME NEW p \in Procs, NEW refresh \in {NoToken, grants + 1}, NEW life \in Lifetimes,
             Ask(p, refresh, life)
      PROVE  Fresh'
  <2>1. /\ Grants(p, refresh) /\ UNCHANGED <<file, used>>
        /\ pc[p] = "ask" /\ pc'[p] = "obtain"
        /\ \A q \in Procs \ {p} : pc'[q] = pc[q] /\ token'[q] = token[q]
        /\ token'[p].refresh = Kept(p, refresh)
    BY <1>6 DEF Ask, Moves, TypeOK
  <2>2. /\ \A t \in live : t = used[p] \/ t \in live'
        /\ rotates' = rotates
        /\ rotates /\ refresh = NoToken => command[p] = "oauth-exchange-code"
        /\ refresh # NoToken => /\ refresh = grants + 1 /\ refresh \in live'
                                /\ Kept(p, refresh) = refresh
    BY <2>1, GrantsFacts
  <2>3. /\ grants \in Nat /\ file.refresh \in 0..grants
        /\ \A q \in Procs : used[q] \in 0..grants /\ token[q].refresh \in 0..grants
        /\ command[p] = "oauth-exchange-code" => used[p] = NoToken
    BY OAuthAssumption DEF TypeOK, Bounded
  <2> SUFFICES ASSUME rotates, NEW r \in Procs, pc'[r] \in Holding, token'[r].refresh # NoToken
               PROVE  /\ token'[r].refresh \in live'
                      /\ file.refresh # token'[r].refresh
                      /\ \A q \in Procs : used[q] # token'[r].refresh
                      /\ \A q \in Procs \ {r} :
                            pc'[q] \in Holding => token'[q].refresh # token'[r].refresh
    BY <2>1, <2>2 DEF Fresh
  <2>4. token'[p].refresh = NoToken \/ token'[p].refresh = grants + 1
    <3>1. refresh = NoToken => token'[p].refresh = NoToken
      BY <2>1, <2>2, <2>3 DEF Kept
    <3> QED BY <2>1, <2>2, <3>1
  <2>5. grants + 1 \notin 0..grants /\ NoToken = 0
    BY <2>3 DEF NoToken
  <2>6. CASE r = p
    <3>1. token'[p].refresh = grants + 1 /\ token'[p].refresh \in live'
      BY <2>1, <2>2, <2>3, <2>4, <2>6 DEF Kept
    <3> QED BY <2>1, <2>3, <2>5, <2>6, <3>1
  <2>7. CASE r # p
    <3>1. pc[r] \in Holding /\ token'[r] = token[r]
      BY <2>1, <2>7
    <3>2. /\ token[r].refresh \in live /\ file.refresh # token[r].refresh
          /\ \A q \in Procs : used[q] # token[r].refresh
          /\ \A q \in Procs \ {r} : pc[q] \in Holding => token[q].refresh # token[r].refresh
      BY <3>1 DEF Fresh
    <3>3. token'[p].refresh # token[r].refresh
      <4>1. token[r].refresh \in 0..grants /\ token[r].refresh # NoToken
        BY <2>3, <3>1
      <4> QED BY <2>4, <2>5, <4>1
    <3> QED BY <2>1, <2>2, <3>1, <3>2, <3>3
  <2> QED BY <2>6, <2>7
<1>7. ASSUME NEW p \in Procs, NEW refresh \in {NoToken, grants + 1}, AnswerLost(p, refresh)
      PROVE  Fresh'
  <2>1. /\ Grants(p, refresh) /\ Ends(p) /\ UNCHANGED file
    BY <1>7 DEF AnswerLost
  <2>2. /\ \A t \in live : t = used[p] \/ t \in live'
        /\ rotates' = rotates
    BY <2>1, GrantsFacts
  <2> QED BY <1>3, <2>1, <2>2
<1>8. ASSUME NEW p \in Procs, Obtain(p) PROVE Fresh'
  <2>1. UNCHANGED <<rotates, live, used, token>> /\ file' = Blank
    BY <1>8 DEF Obtain, service
  <2>2. \A q \in Procs : pc'[q] \in Holding => pc[q] \in Holding
    BY <1>8 DEF Obtain, Moves, TypeOK, Holding
  <2> QED BY <1>0, <2>1, <2>2, FreshKept
<1>9. ASSUME NEW p \in Procs, Fill(p) PROVE Fresh'
  <2>1. /\ UNCHANGED <<rotates, live>> /\ file' \in {token[p], Blank}
        /\ pc[p] = "fill" /\ pc[p] \in Holding
    BY <1>9 DEF Fill, service, Holding
  <2>2. CASE command[p] = "session"
    <3>1. /\ pc'[p] = "running" /\ UNCHANGED <<token, used>>
          /\ \A q \in Procs \ {p} : pc'[q] = pc[q]
      BY <1>9, <2>2 DEF Fill, Moves, TypeOK
    <3>2. /\ pc'[p] \notin Holding
          /\ \A q \in Procs : pc'[q] \in Holding => pc[q] \in Holding
      BY <3>1 DEF Holding
    <3>3. file'.refresh \in {token[p].refresh, NoToken}
      BY <1>0, <2>1
    <3> QED BY <2>1, <3>1, <3>2, <3>3, FreshKept
  <2>3. CASE command[p] # "session"
    BY <1>3, <1>9, <2>1, <2>3 DEF Fill
  <2> QED BY <2>2, <2>3
<1>10. CASE UNCHANGED vars
  BY <1>10 DEF vars, service, Fresh
<1>11. ASSUME NEW p \in Procs, Answers(p) PROVE Fresh'
  BY <1>6, <1>7, <1>11 DEF Answers
<1> QED BY <1>1, <1>2, <1>4, <1>5, <1>8, <1>9, <1>10, <1>11 DEF Next

-----------------------------------------------------------------------------
LEMMA RefreshTokenStep ==
    TypeOK /\ TypeOK' /\ Bounded /\ Bounded' /\ Fresh /\ RefreshTokenLive /\ [Next]_vars
       => RefreshTokenLive'
<1> SUFFICES ASSUME TypeOK, TypeOK', Bounded, Bounded', Fresh, RefreshTokenLive, [Next]_vars,
                    form' = Whole, file'.refresh # NoToken
             PROVE  \/ file'.refresh \in live'
                    \/ \E p \in Procs : pc'[p] \in Holding /\ used'[p] = file'.refresh
                    \/ spoilt'
  BY DEF RefreshTokenLive
<1> DEFINE Goal == \/ file'.refresh \in live'
                   \/ \E p \in Procs : pc'[p] \in Holding /\ used'[p] = file'.refresh
                   \/ spoilt'
<1>1. CASE ~rotates'
  <2>1. grants' \in Nat /\ file'.refresh \in 0..grants'
    BY OAuthAssumption DEF TypeOK
  <2>2. live' = 1..grants'
    BY <1>1 DEF Bounded
  <2> QED BY <2>1, <2>2 DEF NoToken
<1>2. ASSUME form' = form, file'.refresh = file.refresh, live \subseteq live',
             spoilt => spoilt',
             \A p \in Procs : pc[p] \in Holding /\ used[p] = file.refresh =>
                pc'[p] \in Holding /\ used'[p] = used[p]
      PROVE  Goal
  BY <1>2 DEF RefreshTokenLive
<1>3. CASE Tick
  <2>1. UNCHANGED <<form, live, pc, used, spoilt>> /\ file'.refresh = file.refresh
    BY <1>3, OlderFacts DEF Tick, service, TypeOK
  <2> QED BY <1>2, <2>1
<1>4. ASSUME NEW p \in Procs, NEW c \in Commands, Start(p, c) PROVE Goal
  <2>1. UNCHANGED <<form, file, live, used, spoilt>>
    BY <1>4 DEF Start, service
  <2>2. \A q \in Procs : pc[q] \in Holding => pc'[q] \in Holding
    BY <1>4 DEF Start, Moves, TypeOK, Holding
  <2> QED BY <1>2, <2>1, <2>2
<1>5. ASSUME NEW p \in Procs, LoadFails(p) \/ AskFails(p) \/ Finish(p) PROVE Goal
  <2>1. /\ Ends(p) /\ UNCHANGED <<form, file, live, spoilt>> /\ pc[p] \notin Holding
    BY <1>5 DEF LoadFails, AskFails, Finish, service, Holding
  <2>2. \A q \in Procs : pc[q] \in Holding => pc'[q] \in Holding /\ used'[q] = used[q]
    BY <2>1, EndsFacts
  <2> QED BY <1>2, <2>1, <2>2
<1>6. ASSUME NEW p \in Procs, Kill(p), rotates' PROVE Goal
  <2>1. /\ Ends(p) /\ UNCHANGED <<form, file, live>> /\ rotates
        /\ spoilt' = (spoilt \/ pc[p] = "fill" \/ (pc[p] \in Holding /\ Loses(p)))
    BY <1>6 DEF Kill, service
  <2>2. CASE pc[p] \in Holding /\ command[p] # "oauth-exchange-code"
    BY <2>1, <2>2 DEF Loses
  <2>3. CASE pc[p] \in Holding => command[p] = "oauth-exchange-code"
    <3>1. \A q \in Procs : pc[q] \in Holding /\ used[q] = file.refresh =>
             pc'[q] \in Holding /\ used'[q] = used[q]
      BY <2>1, <2>3, EndsFacts DEF Bounded
    <3> QED BY <1>2, <2>1, <3>1
  <2> QED BY <2>2, <2>3
<1>7. ASSUME NEW p \in Procs, Load(p) PROVE Goal
  <2>1. UNCHANGED <<form, file, live, spoilt>>
    BY <1>7 DEF Load, service
  <2>2. \A q \in Procs : pc[q] \in Holding => pc'[q] \in Holding /\ used'[q] = used[q]
    BY <1>7 DEF Load, Moves, TypeOK, Holding
  <2> QED BY <1>2, <2>1, <2>2
<1>8. ASSUME NEW p \in Procs, NEW refresh \in {NoToken, grants + 1}, NEW life \in Lifetimes,
             Ask(p, refresh, life)
      PROVE  Goal
  <2>1. /\ Grants(p, refresh) /\ UNCHANGED <<form, file, used, spoilt>>
        /\ pc'[p] = "obtain"
        /\ \A q \in Procs \ {p} : pc'[q] = pc[q]
    BY <1>8 DEF Ask, Moves, TypeOK
  <2>2. \A t \in live : t = used[p] \/ t \in live'
    BY <2>1, GrantsFacts
  <2>3. CASE file.refresh = used[p]
    BY <2>1, <2>3 DEF Holding
  <2>4. CASE file.refresh # used[p]
    BY <2>1, <2>2, <2>4 DEF RefreshTokenLive, Holding
  <2> QED BY <2>3, <2>4
<1>9. ASSUME NEW p \in Procs, NEW refresh \in {NoToken, grants + 1}, AnswerLost(p, refresh),
             rotates'
      PROVE  Goal
  <2>1. /\ Grants(p, refresh) /\ Ends(p) /\ UNCHANGED <<form, file>>
        /\ pc[p] = "ask" /\ spoilt' = (spoilt \/ Loses(p))
    BY <1>9 DEF AnswerLost
  <2>2. /\ \A t \in live : t = used[p] \/ t \in live'
        /\ rotates
    BY <1>9, <2>1, GrantsFacts
  <2>3. CASE command[p] # "oauth-exchange-code"
    BY <2>1, <2>2, <2>3 DEF Loses
  <2>4. CASE command[p] = "oauth-exchange-code"
    <3>1. used[p] = NoToken
      BY <2>4 DEF Bounded
    <3>2. \A q \in Procs : pc[q] \in Holding => pc'[q] \in Holding /\ used'[q] = used[q]
      BY <2>1, EndsFacts DEF Holding
    <3> QED BY <2>1, <2>2, <3>1, <3>2 DEF RefreshTokenLive
  <2> QED BY <2>3, <2>4
<1>10. ASSUME NEW p \in Procs, Obtain(p) PROVE FALSE
  BY <1>10 DEF Obtain, Half, Whole
<1>11. ASSUME NEW p \in Procs, Fill(p), rotates' PROVE Goal
  <2>1. /\ rotates /\ live' = live /\ spoilt' = (p \in torn) /\ pc[p] \in Holding
        /\ file' = token[p] \/ p \in torn
    BY <1>11 DEF Fill, service, Holding
  <2>2. CASE p \in torn
    BY <2>1, <2>2
  <2>3. CASE p \notin torn
    BY <2>1, <2>3 DEF Fresh
  <2> QED BY <2>2, <2>3
<1>12. CASE UNCHANGED vars
  BY <1>2, <1>12 DEF vars, service
<1>13. ASSUME NEW p \in Procs, Answers(p), rotates' PROVE Goal
  BY <1>8, <1>9, <1>13 DEF Answers
<1> QED BY <1>1, <1>3, <1>4, <1>5, <1>6, <1>7, <1>10, <1>11, <1>12, <1>13 DEF Next

LEMMA FileReadableStep == TypeOK /\ FileReadable /\ [Next]_vars => FileReadable'
<1> SUFFICES ASSUME TypeOK, FileReadable, [Next]_vars, form' = Half
             PROVE  spoilt' \/ \E p \in Procs : pc'[p] = "fill"
  BY DEF FileReadable
<1> DEFINE Goal == spoilt' \/ \E p \in Procs : pc'[p] = "fill"
<1>1. ASSUME form' = form, spoilt => spoilt',
             \A p \in Procs : pc[p] = "fill" => pc'[p] = "fill"
      PROVE  Goal
  BY <1>1 DEF FileReadable
<1>2. CASE Tick
  BY <1>1, <1>2 DEF Tick
<1>3. ASSUME NEW p \in Procs,
             \/ \E c \in Commands : Start(p, c)
             \/ Load(p)
             \/ \E refresh \in {NoToken, grants + 1}, life \in Lifetimes : Ask(p, refresh, life)
      PROVE  Goal
  <2>1. UNCHANGED <<form, spoilt>> /\ pc[p] # "fill"
    BY <1>3, Zenon DEF Start, Load, Ask
  <2>2. \A q \in Procs \ {p} : pc'[q] = pc[q]
    BY <1>3 DEF Start, Load, Ask, Moves, TypeOK
  <2> QED BY <1>1, <2>1, <2>2
<1>4. ASSUME NEW p \in Procs,
             \/ LoadFails(p) \/ AskFails(p) \/ Finish(p) \/ Kill(p)
             \/ \E refresh \in {NoToken, grants + 1} : AnswerLost(p, refresh)
      PROVE  Goal
  <2>1. Ends(p) /\ form' = form
    BY <1>4, Zenon DEF LoadFails, AskFails, Finish, Kill, AnswerLost
  <2>2. spoilt \/ pc[p] = "fill" => spoilt'
    <3>1. CASE LoadFails(p) \/ AskFails(p) \/ Finish(p)
      BY <3>1 DEF LoadFails, AskFails, Finish
    <3>2. CASE Kill(p)
      BY <3>2, Zenon DEF Kill
    <3>3. ASSUME NEW refresh \in {NoToken, grants + 1}, AnswerLost(p, refresh)
          PROVE  spoilt \/ pc[p] = "fill" => spoilt'
      BY <3>3 DEF AnswerLost
    <3> QED BY <1>4, <3>1, <3>2, <3>3
  <2>3. \A q \in Procs \ {p} : pc'[q] = pc[q]
    BY <2>1, EndsFacts
  <2>4. \A q \in Procs : pc[q] = "fill" => pc'[q] = "fill" \/ spoilt'
    BY <2>2, <2>3
  <2> QED BY <2>1, <2>2, <2>4 DEF FileReadable
<1>5. ASSUME NEW p \in Procs, Obtain(p) PROVE Goal
  BY <1>5 DEF Obtain, Moves, TypeOK
<1>6. ASSUME NEW p \in Procs, Fill(p) PROVE Goal
  BY <1>6 DEF Fill, Half, Whole
<1>7. CASE UNCHANGED vars
  BY <1>1, <1>7 DEF vars
<1>8. ASSUME NEW p \in Procs, Answers(p) PROVE Goal
  BY <1>3, <1>4, <1>8 DEF Answers
<1> QED BY <1>2, <1>3, <1>4, <1>5, <1>6, <1>7, <1>8 DEF Next

-----------------------------------------------------------------------------
\* The inductive invariant: what a process may know of refresh tokens, how late
\* an expiry may be, and that a token about to be written is known to nobody
\* else (the network step and the two write steps of tools/navimow_live_sync.py).
THEOREM Inductive == Spec => []IInv
<1>1. IInv /\ [Next]_vars => IInv'
  BY TypeStep, ClockStep, FreshStep, RefreshTokenStep, FileReadableStep DEF IInv
<1> QED BY InitIInv, <1>1, PTL DEF Spec

\* The session is well typed for any processes, window, lifetimes and bounds.
THEOREM TypeCorrect == Spec => []TypeOK
<1>1. IInv => TypeOK
  BY DEF IInv
<1> QED BY <1>1, Inductive, PTL

\* A token that prepare_config_for_network took for good stays good for the
\* rest of the window less an answer's time, whatever the other commands do.
THEOREM SessionLastsTheWindow == Spec => []SessionLasts
<1>1. IInv => SessionLasts
  <2> SUFFICES ASSUME IInv, NEW p \in Procs, pc[p] = "running",
                      token[p].expires # Unknown, token[p].refresh # NoToken,
                      age[p] <= Window - Timeout
               PROVE  token[p].until > 0
    BY DEF SessionLasts
  <2>1. token[p].until + age[p] > Window - Timeout
    BY DEF IInv, Clock, ClockOf
  <2>2. token[p] \in Tokens /\ age[p] \in 0..Window + 1
    BY DEF IInv, TypeOK
  <2> QED BY <2>1, <2>2, OAuthAssumption DEF Tokens
<1> QED BY <1>1, Inductive, PTL

\* Commands that refresh the token file at the same time do not lose the login,
\* whether or not the service rotates refresh tokens.
THEOREM LoginKept == Spec => []RefreshTokenLive
<1>1. IInv => RefreshTokenLive
  BY DEF IInv
<1> QED BY <1>1, Inductive, PTL

\* Outside of write_json's window the token file can be read.
THEOREM ReadableAgain == Spec => []FileReadable
<1>1. IInv => FileReadable
  BY DEF IInv
<1> QED BY <1>1, Inductive, PTL
=============================================================================
