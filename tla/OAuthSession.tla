---------------------------- MODULE OAuthSession ----------------------------
(***************************************************************************)
(* The OAuth session of tools/navimow_live_sync.py: one token file, which  *)
(* every networked command reads once when it starts, refreshes when it is *)
(* about to expire and overwrites.  The poller, the MQTT listener and the  *)
(* one-shot commands are processes of their own and share nothing but that *)
(* file; oauth-refresh and oauth-exchange-code write it too.               *)
(*                                                                         *)
(* The service is external.  It grants access tokens for a while, and      *)
(* either lets a refresh token be used again or replaces it at every use.  *)
(* Answers may be lost, commands may be killed, and write_text empties the *)
(* file before it fills it.                                                *)
(***************************************************************************)
EXTENDS Integers

CONSTANTS
    Procs,      \* the processes, each running one command after another
    Window,     \* an access token is refreshed that long before it expires
    Timeout,    \* how long an answer may be on its way
    Lifetimes,  \* for how long the service grants an access token
    MaxGrants,  \* bound: how many refresh tokens the service gives out
    MaxFaults   \* bound: how many answers are lost and commands killed

ASSUME OAuthAssumption ==
    /\ Timeout \in Nat /\ Window \in Nat /\ Timeout < Window
    /\ Lifetimes \subseteq {t \in Nat : t > Window}
    /\ MaxGrants \in Nat /\ MaxFaults \in Nat

Absent  == "absent"     \* no file, or no access token in it
Half    == "half"       \* a file that is no JSON object
Whole   == "whole"
Unknown == -1           \* the service does not say when the token expires
NoToken == 0            \* in the place of a refresh token: there is none

\* In how long a token expires by what its file says, for how long the service
\* will really honour it (an expired one: 0), and its refresh token.  Times are
\* counted from now on, so the clock needs no bound.
Tokens == [expires : Nat \cup {Unknown}, until : Nat, refresh : 0..MaxGrants]
Blank  == [expires |-> Unknown, until |-> 0, refresh |-> NoToken]

VARIABLES
    form,     \* the token file: whole, half written, or none
    file,     \* the token in it
    live,     \* refresh tokens the service still accepts
    grants,   \* how many it has given out
    rotates,  \* whether a refresh token is good for one use only
    says,     \* whether an answer says when the access token expires
    pc, command,
    token,    \* the token the process holds
    used,     \* the refresh token it sent
    age,      \* since when it waits for the answer, or knows its token to be good
    torn,     \* those that fill the file while another does
    mishaps,  \* how many answers were lost and commands killed
    spoilt    \* history: since its last good write an answer that replaces its
              \* refresh token got lost, or a write was torn or cut short

service == <<live, grants, rotates, says>>
vars    == <<form, file, service, pc, command, token, used, age, torn,
             mishaps, spoilt>>

Commands == {"session", "oauth-refresh", "oauth-exchange-code"}
Holding  == {"obtain", "fill"}
PCs      == {"idle", "load", "ask", "running"} \cup Holding

TypeOK ==
    /\ form \in {Absent, Half, Whole} /\ file \in Tokens
    /\ live \subseteq 1..grants /\ grants \in 0..MaxGrants
    /\ rotates \in BOOLEAN /\ says \in BOOLEAN
    /\ pc \in [Procs -> PCs]
    /\ command \in [Procs -> Commands]
    /\ token \in [Procs -> Tokens]
    /\ used \in [Procs -> 0..MaxGrants]
    /\ age \in [Procs -> 0..Window + 1]
    /\ torn \subseteq {p \in Procs : pc[p] = "fill"}
    /\ mishaps \in 0..MaxFaults
    /\ spoilt \in BOOLEAN
    /\ file.refresh \in 0..grants

Init ==
    /\ form = Absent /\ file = Blank
    /\ live = {} /\ grants = 0
    /\ rotates \in BOOLEAN /\ says \in BOOLEAN
    /\ pc = [p \in Procs |-> "idle"]
    /\ command = [p \in Procs |-> "session"]
    /\ token = [p \in Procs |-> Blank]
    /\ used = [p \in Procs |-> NoToken]
    /\ age = [p \in Procs |-> 0]
    /\ torn = {} /\ mishaps = 0 /\ spoilt = FALSE

Moves(p, to) == pc' = [pc EXCEPT ![p] = to]

\* A command that is over holds nothing any more.
Ends(p) ==
    /\ Moves(p, "idle")
    /\ command' = [command EXCEPT ![p] = "session"]
    /\ token' = [token EXCEPT ![p] = Blank]
    /\ used' = [used EXCEPT ![p] = NoToken]
    /\ age' = [age EXCEPT ![p] = 0]
    /\ torn' = torn \ {p}

-----------------------------------------------------------------------------
(* The commands.                                                           *)

\* Mutant of NeedsRefresh: a token is refreshed once it has expired.
NeedsRefreshWhenExpired(t) == t.expires # Unknown /\ t.expires <= 0

\* token_needs_refresh_at: within the window, and if the expiry is known.
NeedsRefresh(t) == t.expires # Unknown /\ t.expires <= Window

\* prepare_config_for_network of every networked command, cmd_oauth_refresh and
\* cmd_oauth_exchange_code, which does not read the file.
Start(p, c) ==
    /\ pc[p] = "idle"
    /\ command' = [command EXCEPT ![p] = c]
    /\ IF c = "oauth-exchange-code"
       THEN Moves(p, "ask") ELSE Moves(p, "load")
    /\ UNCHANGED <<service, form, file, token, used, age, torn, mishaps,
                   spoilt>>

\* A file that is no JSON object, without an access token, or without the
\* refresh token that is needed ends the command.
LoadFails(p) ==
    /\ pc[p] = "load"
    /\ \/ form # Whole
       \/ command[p] = "oauth-refresh" /\ file.refresh = NoToken
    /\ Ends(p)
    /\ UNCHANGED <<service, form, file, mishaps, spoilt>>

Refreshes(p) ==
    file.refresh # NoToken /\ (command[p] = "oauth-refresh" \/ NeedsRefresh(file))

\* An access token that is not about to expire is used as it is, and so is one
\* that cannot be refreshed.
Load(p) ==
    /\ pc[p] = "load" /\ form = Whole
    /\ command[p] = "oauth-refresh" => file.refresh # NoToken
    /\ IF Refreshes(p)
       THEN /\ Moves(p, "ask") /\ used' = [used EXCEPT ![p] = file.refresh]
            /\ UNCHANGED token
       ELSE /\ Moves(p, "running") /\ token' = [token EXCEPT ![p] = file]
            /\ UNCHANGED used
    /\ UNCHANGED <<service, form, file, command, age, torn, mishaps, spoilt>>

\* The service accepts the code of a login, or a refresh token that is live.
Accepts(p) == command[p] = "oauth-exchange-code" \/ used[p] \in live

\* A fresh refresh token comes with a login, unless the service gives none, and
\* with every refresh if they are rotated.
Grants(p, refresh) ==
    /\ Accepts(p)
    /\ IF refresh = NoToken
       THEN /\ command[p] = "oauth-exchange-code" \/ ~rotates
            /\ UNCHANGED <<live, grants>>
       ELSE /\ command[p] = "oauth-exchange-code" \/ rotates
            /\ grants < MaxGrants /\ refresh = grants + 1
            /\ grants' = refresh
            /\ live' = (live \ {used[p]}) \cup {refresh}
    /\ UNCHANGED <<rotates, says>>

\* Mutant of Kept: the old refresh token is kept in any case.
KeptAlways(p, refresh) == IF used[p] # NoToken THEN used[p] ELSE refresh

\* refresh_oauth_token: an answer without a refresh token means the old one.
Kept(p, refresh) == IF refresh = NoToken THEN used[p] ELSE refresh

\* Mutant of Ask: the file is opened for writing before the answer is there.
AskFileOpen(p, refresh, life) ==
    /\ pc[p] = "ask"
    /\ Grants(p, refresh)
    /\ Moves(p, "obtain")
    /\ form' = Half /\ file' = Blank
    /\ token' = [token EXCEPT ![p] = [expires |-> IF says THEN life ELSE Unknown,
                                      until   |-> life,
                                      refresh |-> Kept(p, refresh)]]
    /\ UNCHANGED <<command, used, age, torn, mishaps, spoilt>>

\* The service answers; how long it grants the token is in the answer, or not.
Ask(p, refresh, life) ==
    /\ pc[p] = "ask"
    /\ Grants(p, refresh)
    /\ Moves(p, "obtain")
    /\ token' = [token EXCEPT ![p] = [expires |-> IF says THEN life ELSE Unknown,
                                      until   |-> life,
                                      refresh |-> Kept(p, refresh)]]
    /\ UNCHANGED <<form, file, command, used, age, torn, mishaps, spoilt>>

\* It refuses a refresh token, or is not reached.
AskFails(p) ==
    /\ pc[p] = "ask"
    /\ Ends(p)
    /\ UNCHANGED <<service, form, file, mishaps, spoilt>>

Fault == mishaps < MaxFaults /\ mishaps' = mishaps + 1

\* What is lost with a command between the answer and its last write.
Loses(p) == rotates /\ command[p] # "oauth-exchange-code"

\* The service has rotated the token all the same.
AnswerLost(p, refresh) ==
    /\ pc[p] = "ask" /\ Fault
    /\ Grants(p, refresh)
    /\ Ends(p)
    /\ spoilt' = (spoilt \/ Loses(p))
    /\ UNCHANGED <<form, file>>

\* The answer arrives.  token_with_metadata counts the expiry from then on, and
\* write_json empties the file.
Obtain(p) ==
    /\ pc[p] = "obtain"
    /\ Moves(p, "fill")
    /\ age' = [age EXCEPT ![p] = 0]
    /\ form' = Half /\ file' = Blank
    /\ LET others == {q \in Procs : pc[q] = "fill"} IN
       torn' = IF others = {} THEN torn ELSE torn \cup others \cup {p}
    /\ UNCHANGED <<service, command, token, used, mishaps, spoilt>>

\* Mutant of Fill: the next write is taken for torn too.
FillForgetsNothing(p) ==
    /\ pc[p] = "fill"
    /\ \/ form' = Whole /\ file' = token[p]
       \/ p \in torn /\ form' = Half /\ file' = Blank
    /\ spoilt' = (p \in torn)
    /\ IF command[p] = "session"
       THEN Moves(p, "running") /\ UNCHANGED <<command, token, used, age, torn>>
       ELSE Ends(p)
    /\ UNCHANGED <<service, mishaps>>

\* Of two that fill it at once the longer may outlast the shorter.
Fill(p) ==
    /\ pc[p] = "fill"
    /\ \/ form' = Whole /\ file' = token[p]
       \/ p \in torn /\ form' = Half /\ file' = Blank
    /\ spoilt' = (p \in torn)
    /\ IF command[p] = "session"
       THEN /\ Moves(p, "running") /\ torn' = torn \ {p}
            /\ UNCHANGED <<command, token, used, age>>
       ELSE Ends(p)
    /\ UNCHANGED <<service, mishaps>>

\* A session keeps the token it began with, whatever becomes of the file.
Finish(p) ==
    /\ pc[p] = "running"
    /\ Ends(p)
    /\ UNCHANGED <<service, form, file, mishaps, spoilt>>

Kill(p) ==
    /\ pc[p] # "idle" /\ Fault
    /\ Ends(p)
    /\ spoilt' = (spoilt \/ pc[p] = "fill" \/ (pc[p] \in Holding /\ Loses(p)))
    /\ UNCHANGED <<service, form, file>>

\* A unit of time passes for everybody; age counts where it matters.
Clocked == Holding \cup {"running"}

Shorter(n) == IF n > 0 THEN n - 1 ELSE n
Older(t)   == [t EXCEPT !.expires = Shorter(@), !.until = Shorter(@)]
OnItsWay(t) == [t EXCEPT !.until = Shorter(@)]

Tick ==
    /\ \A p \in Procs : pc[p] = "obtain" => age[p] < Timeout
    /\ file' = Older(file)
    /\ token' = [p \in Procs |-> IF pc[p] = "obtain" THEN OnItsWay(token[p])
                                 ELSE Older(token[p])]
    /\ age' = [p \in Procs |->
                 IF pc[p] \in Clocked /\ age[p] <= Window THEN age[p] + 1
                 ELSE age[p]]
    /\ UNCHANGED <<service, form, pc, command, used, torn, mishaps, spoilt>>

Answers(p) ==
    \E refresh \in {NoToken, grants + 1} :
        \/ AnswerLost(p, refresh)
        \/ \E life \in Lifetimes : Ask(p, refresh, life)

Next ==
    \/ Tick
    \/ \E p \in Procs :
          \/ \E c \in Commands : Start(p, c)
          \/ LoadFails(p) \/ Load(p) \/ Answers(p) \/ AskFails(p) \/ Obtain(p)
          \/ Fill(p) \/ Finish(p) \/ Kill(p)

Spec == Init /\ [][Next]_vars

-----------------------------------------------------------------------------
(* What must hold.                                                         *)

\* A command that checked or obtained its token is not refused for an expired
\* one before the window is over, less the time an answer may take: the expiry
\* in the file may be late by that much.  This holds for every command that
\* runs beside it, and for a token that can be refreshed and says when it
\* expires.  A longer session may outlive its token.
SessionLasts ==
    \A p \in Procs :
        /\ pc[p] = "running"
        /\ token[p].expires # Unknown /\ token[p].refresh # NoToken
        /\ age[p] <= Window - Timeout
        => token[p].until > 0

\* Whatever commands refresh at the same time, the refresh token in the file is
\* one the service accepts, or the command that has replaced it is about to
\* write the next one.  Only an answer that is lost, a kill before the write
\* and two writes at once can log the user out.
RefreshTokenLive ==
    form = Whole /\ file.refresh # NoToken =>
        \/ file.refresh \in live
        \/ \E p \in Procs : pc[p] \in Holding /\ used[p] = file.refresh
        \/ spoilt

\* A file that cannot be read is being written.
FileReadable ==
    form = Half => spoilt \/ \E p \in Procs : pc[p] = "fill"
=============================================================================
