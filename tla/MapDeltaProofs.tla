--------------------------- MODULE MapDeltaProofs ---------------------------
(***************************************************************************)
(* Proofs about MapDelta, for any number of overlapping commands, map      *)
(* versions, failures and kills.                                           *)
(***************************************************************************)
EXTENDS MapDelta, SequenceTheorems, TLAPS

\* A command that put a URL into the database is on its way to a download.
Owned ==
    \A u \in urls : u[2] # Left =>
        pc[u[2]] # "idle" /\ Keeps(u[2]) /\ planned[u[2]] /\ downloads[u[2]]

\* No command that keeps URLs asks for one unless it will download.
Routed ==
    \A r \in Runs :
        /\ pc[r] = "plan" => ~planned[r]
        /\ pc[r] \in {"request", "ingest"} /\ Keeps(r) =>
              \A i \in 1..Len(todo[r]) :
                 todo[r][i] = "get-iot-file" => planned[r] /\ downloads[r]

\* A version that only one command at a time has downloaded is whole wherever
\* it is: its temporary file is that command's own until it is replaced.
Alone ==
    \A v \in Versions \ clashed :
        /\ file[v] # "part" /\ newest[v] # "part" /\ "part" \notin artifacts[v]
        /\ \A r \in Runs : draft[r][v] # "part"
        /\ \A q, r \in Runs : at[q] = v /\ at[r] = v => q = r
        /\ \A r \in Runs : at[r] = v =>
              /\ pc[r] = "write" => inode[r] = "tmp"
              /\ pc[r] = "replace" => tmp[v] # "part"

IInv == TypeOK /\ Owned /\ Routed /\ Alone

-----------------------------------------------------------------------------
LEMMA VersionFacts ==
    /\ Versions \subseteq Nat /\ 0 \notin Versions /\ Versions \subseteq 0..MaxVersion
    /\ 0..MaxVersion = Versions \cup {0}
BY MapDeltaAssumption DEF Versions

LEMMA ExceptFacts ==
    ASSUME NEW A, NEW B, NEW f \in [A -> B], NEW a, NEW b \in B
    PROVE  [f EXCEPT ![a] = b] \in [A -> B]
OBVIOUS

LEMMA ContentFacts == None \notin Content
BY DEF None, Content

LEMMA InitIInv == Init => IInv
<1> SUFFICES ASSUME Init PROVE IInv
  OBVIOUS
<1>1. TypeOK
  <2>1. /\ published \in 0..MaxVersion /\ elsewhere \in Wishes
        /\ latest \in [version : 0..MaxVersion, behind : BOOLEAN]
        /\ urls \subseteq Versions \X (Runs \cup {Left})
        /\ artifacts \in [Versions -> SUBSET Content]
        /\ newest \in [Versions -> Content \cup {None}]
        /\ \A v \in Versions : newest[v] # None <=> newest[v] \in artifacts[v]
        /\ detailed \in BOOLEAN /\ writer \in Runs \cup {None}
        /\ file \in [Versions -> Content \cup {None}]
        /\ tmp \in [Versions -> Content \cup {None}]
    BY VersionFacts DEF Init
  <2>2. /\ pc \in [Runs -> PCs] /\ command \in [Runs -> AllCommands \cup {None}]
        /\ todo \in [Runs -> Seq(Routes)]
        /\ \A r \in Runs : pc[r] \in {"request", "ingest"} => todo[r] # <<>>
        /\ planned \in [Runs -> BOOLEAN] /\ downloads \in [Runs -> BOOLEAN]
        /\ answer \in [Runs -> 0..MaxVersion]
    BY VersionFacts DEF Init, PCs
  <2>3. /\ rows \in [Runs -> SUBSET Versions]
        /\ at \in [Runs -> 0..MaxVersion]
        /\ \A r \in Runs : at[r] # 0 <=> pc[r] \in Loop \ {"next"}
        /\ inode \in [Runs -> {None, "tmp", "file"}]
        /\ \A r \in Runs : inode[r] # None => pc[r] = "write"
        /\ draft \in [Runs -> [Versions -> Content \cup {None}]]
        /\ cleared \in [Runs -> SUBSET Versions]
        /\ events \in 0..MaxEvents
        /\ clashed \subseteq Versions
    BY VersionFacts, MapDeltaAssumption DEF Init, Loop
  <2> QED BY <2>1, <2>2, <2>3 DEF TypeOK
<1>2. Owned /\ Routed /\ Alone
  BY VersionFacts DEF Init, Owned, Routed, Alone, None
<1> QED BY <1>1, <1>2 DEF IInv

-----------------------------------------------------------------------------
\* The routes of a plan.
LEMMA RoutesForFacts ==
    ASSUME NEW needs
    PROVE  /\ RoutesFor(needs) \in Seq(Routes)
           /\ \A i \in 1..Len(RoutesFor(needs)) :
                 RoutesFor(needs)[i] = "get-iot-file" => "artifact" \in needs
<1> DEFINE s == IF "detail" \in needs THEN <<"map-list", "map-detail">> ELSE <<>>
           t == IF "artifact" \in needs THEN <<"get-iot-file">> ELSE <<>>
<1>1. /\ s \in Seq(Routes) /\ \A i \in 1..Len(s) : s[i] # "get-iot-file"
  <2>1. CASE "detail" \in needs
    BY <2>1 DEF Routes
  <2>2. CASE "detail" \notin needs
    BY <2>2
  <2> QED BY <2>1, <2>2
<1>2. /\ t \in Seq(Routes) /\ \A i \in 1..Len(t) : "artifact" \in needs
  <2>1. CASE "artifact" \in needs
    BY <2>1 DEF Routes
  <2>2. CASE "artifact" \notin needs
    BY <2>2
  <2> QED BY <2>1, <2>2
<1>3. RoutesFor(needs) = s \o t
  BY DEF RoutesFor
<1> HIDE DEF s, t
<1>4. /\ s \o t \in Seq(Routes)
      /\ \A i \in 1..Len(s \o t) : (s \o t)[i] = "get-iot-file" => "artifact" \in needs
  <2>1. s \o t \in Seq(Routes) /\ Len(s \o t) = Len(s) + Len(t)
        /\ \A i \in 1..Len(s) + Len(t) :
              (s \o t)[i] = IF i <= Len(s) THEN s[i] ELSE t[i - Len(s)]
    BY <1>1, <1>2, ConcatProperties
  <2>2. Len(s) \in Nat /\ Len(t) \in Nat
    BY <1>1, <1>2
  <2> SUFFICES ASSUME NEW i \in 1..Len(s \o t), (s \o t)[i] = "get-iot-file"
               PROVE  "artifact" \in needs
    BY <2>1
  <2>3. CASE i <= Len(s)
    BY <1>1, <2>1, <2>2, <2>3
  <2>4. CASE i > Len(s)
    <3>1. i - Len(s) \in 1..Len(t)
      BY <2>1, <2>2, <2>4
    <3> QED BY <1>2, <3>1
  <2> QED BY <2>2, <2>3, <2>4
<1> QED BY <1>3, <1>4

LEMMA DeltaRoutesFacts ==
    /\ DeltaRoutes \in Seq(Routes)
    /\ \A i \in 1..Len(DeltaRoutes) :
          DeltaRoutes[i] = "get-iot-file" => ArtifactNeeded \/ "artifact" \in elsewhere
<1> DEFINE s == RoutesFor(elsewhere)
           t == RoutesFor(Needs \ elsewhere)
<1>1. /\ s \in Seq(Routes)
      /\ \A i \in 1..Len(s) : s[i] = "get-iot-file" => "artifact" \in elsewhere
  BY RoutesForFacts
<1>2. /\ t \in Seq(Routes)
      /\ \A i \in 1..Len(t) : t[i] = "get-iot-file" => ArtifactNeeded
  <2>1. "artifact" \in Needs \ elsewhere => ArtifactNeeded
    BY DEF Needs
  <2> QED BY <2>1, RoutesForFacts
<1>3. DeltaRoutes = s \o t
  BY DEF DeltaRoutes
<1> HIDE DEF s, t
<1>4. s \o t \in Seq(Routes) /\ Len(s \o t) = Len(s) + Len(t)
      /\ \A i \in 1..Len(s) + Len(t) :
            (s \o t)[i] = IF i <= Len(s) THEN s[i] ELSE t[i - Len(s)]
  BY <1>1, <1>2, ConcatProperties
<1>5. Len(s) \in Nat /\ Len(t) \in Nat
  BY <1>1, <1>2
<1> SUFFICES ASSUME NEW i \in 1..Len(s \o t), (s \o t)[i] = "get-iot-file"
             PROVE  ArtifactNeeded \/ "artifact" \in elsewhere
  BY <1>3, <1>4
<1>6. CASE i <= Len(s)
  BY <1>1, <1>4, <1>5, <1>6
<1>7. CASE i > Len(s)
  <2>1. i - Len(s) \in 1..Len(t)
    BY <1>4, <1>5, <1>7
  <2> QED BY <1>2, <1>4, <1>5, <1>7, <2>1
<1> QED BY <1>5, <1>6, <1>7

-----------------------------------------------------------------------------
(* Types.  They fall into those of the shared state and those of a command. *)

SharedOK ==
    /\ published \in 0..MaxVersion /\ elsewhere \in Wishes
    /\ latest \in [version : 0..MaxVersion, behind : BOOLEAN]
    /\ urls \subseteq Versions \X (Runs \cup {Left})
    /\ artifacts \in [Versions -> SUBSET Content]
    /\ newest \in [Versions -> Content \cup {None}]
    /\ \A v \in Versions : newest[v] # None <=> newest[v] \in artifacts[v]
    /\ detailed \in BOOLEAN
    /\ writer \in Runs \cup {None}
    /\ file \in [Versions -> Content \cup {None}]
    /\ tmp \in [Versions -> Content \cup {None}]
    /\ events \in 0..MaxEvents
    /\ clashed \subseteq Versions

JobOK ==
    /\ command \in [Runs -> AllCommands \cup {None}]
    /\ todo \in [Runs -> Seq(Routes)]
    /\ planned \in [Runs -> BOOLEAN] /\ downloads \in [Runs -> BOOLEAN]
    /\ answer \in [Runs -> 0..MaxVersion]

LoopOK ==
    /\ rows \in [Runs -> SUBSET Versions]
    /\ at \in [Runs -> 0..MaxVersion]
    /\ inode \in [Runs -> {None, "tmp", "file"}]
    /\ draft \in [Runs -> [Versions -> Content \cup {None}]]
    /\ cleared \in [Runs -> SUBSET Versions]

PcOK ==
    /\ pc \in [Runs -> PCs]
    /\ \A r \in Runs :
          /\ pc[r] \in {"request", "ingest"} => todo[r] # <<>>
          /\ at[r] # 0 <=> pc[r] \in Loop \ {"next"}
          /\ inode[r] # None => pc[r] = "write"

LEMMA TypeParts ==
    /\ TypeOK <=> SharedOK /\ JobOK /\ LoopOK /\ PcOK
    /\ TypeOK' <=> SharedOK' /\ JobOK' /\ LoopOK' /\ PcOK'
BY DEF TypeOK, SharedOK, JobOK, LoopOK, PcOK

LEMMA EndedFacts ==
    ASSUME NEW r \in Runs, JobOK, LoopOK, PcOK, Ended(r)
    PROVE  /\ JobOK' /\ LoopOK' /\ PcOK'
           /\ pc'[r] = "idle" /\ at'[r] = 0 /\ inode'[r] = None
           /\ draft'[r] = [v \in Versions |-> None]
           /\ \A q \in Runs \ {r} :
                 /\ pc'[q] = pc[q] /\ command'[q] = command[q] /\ todo'[q] = todo[q]
                 /\ planned'[q] = planned[q] /\ downloads'[q] = downloads[q]
                 /\ at'[q] = at[q] /\ inode'[q] = inode[q] /\ draft'[q] = draft[q]
<1>1. JobOK' /\ todo'[r] = <<>>
  BY VersionFacts DEF JobOK, Ended
<1>2. LoopOK'
  BY VersionFacts DEF LoopOK, Ended
<1>3. /\ pc' \in [Runs -> PCs] /\ pc'[r] = "idle" /\ at'[r] = 0 /\ inode'[r] = None
      /\ draft'[r] = [v \in Versions |-> None]
      /\ \A q \in Runs \ {r} :
            /\ pc'[q] = pc[q] /\ command'[q] = command[q] /\ todo'[q] = todo[q]
            /\ planned'[q] = planned[q] /\ downloads'[q] = downloads[q]
            /\ at'[q] = at[q] /\ inode'[q] = inode[q] /\ draft'[q] = draft[q]
  BY DEF JobOK, LoopOK, PcOK, PCs, Ended
<1>4. PcOK'
  BY <1>3 DEF PcOK, Loop
<1> QED BY <1>1, <1>2, <1>3, <1>4

LEMMA GivesUpFacts ==
    ASSUME NEW r \in Runs, TypeOK, GivesUp(r), events' \in 0..MaxEvents
    PROVE  TypeOK'
<1>1. Ended(r) /\ UNCHANGED <<world, records, maps, latest, detailed, clashed>>
      /\ writer' \in {writer, None}
      /\ urls' = {IF u[2] = r THEN <<u[1], Left>> ELSE u : u \in urls}
  BY DEF GivesUp, RolledBack
<1>2. urls' \subseteq Versions \X (Runs \cup {Left})
  BY <1>1 DEF TypeOK
<1>3. SharedOK'
  BY <1>1, <1>2, TypeParts DEF SharedOK, world, records, maps
<1> QED BY <1>1, <1>3, EndedFacts, TypeParts

\* A row dealt with.
LEMMA ClearedFacts ==
    ASSUME NEW r \in Runs, NEW v \in Versions, TypeOK, Cleared(r, v), pc[r] \in Loop
    PROVE  /\ writer' = r
           /\ cleared' \in [Runs -> SUBSET Versions] /\ rows' \in [Runs -> SUBSET Versions]
           /\ at' \in [Runs -> 0..MaxVersion] /\ pc' \in [Runs -> PCs]
           /\ pc'[r] = "next" /\ at'[r] = 0
           /\ \A q \in Runs \ {r} : pc'[q] = pc[q] /\ at'[q] = at[q]
           /\ UNCHANGED <<command, todo, planned, downloads, published, elsewhere, artifacts,
                          newest, latest, urls, detailed, answer>>
BY VersionFacts DEF Cleared, TypeOK, PCs, Window, Loop, job, world, records

LEMMA AppliedFacts ==
    ASSUME NEW r \in Runs, TypeOK, Applied(r)
    PROVE  /\ artifacts' \in [Versions -> SUBSET Content]
           /\ newest' \in [Versions -> Content \cup {None}]
           /\ \A v \in Versions : newest'[v] # None <=> newest'[v] \in artifacts'[v]
           /\ writer' \in Runs \cup {None}
           /\ \A v \in Versions :
                 /\ newest'[v] \in {newest[v], draft[r][v]}
                 /\ artifacts'[v] \subseteq artifacts[v] \cup {draft[r][v]}
<1>1. /\ \A v \in Versions :
            /\ artifacts[v] \subseteq Content /\ newest[v] \in Content \cup {None}
            /\ newest[v] # None <=> newest[v] \in artifacts[v]
            /\ draft[r][v] \in Content \cup {None}
      /\ None \notin Content
  BY ContentFacts DEF TypeOK
<1>2. \A v \in Versions :
         /\ artifacts'[v] = artifacts[v] \cup ({draft[r][v]} \ {None})
         /\ newest'[v] = IF draft[r][v] \in artifacts[v] \cup {None} THEN newest[v] ELSE draft[r][v]
  BY DEF Applied
<1>3. /\ artifacts' \in [Versions -> SUBSET Content]
      /\ newest' \in [Versions -> Content \cup {None}]
  BY <1>1 DEF Applied
<1>4. writer' \in Runs \cup {None}
  BY DEF Applied, TypeOK
<1> QED BY <1>1, <1>2, <1>3, <1>4

\* A step of one command that only takes it elsewhere in the download.
LEMMA MovesFacts ==
    ASSUME NEW r \in Runs, NEW to \in PCs, PcOK, todo' = todo, inode' = inode,
           pc' = [pc EXCEPT ![r] = to], inode[r] = None,
           to \notin {"request", "ingest"},
           at'[r] # 0 <=> to \in Loop \ {"next"},
           \A q \in Runs \ {r} : at'[q] = at[q]
    PROVE  PcOK'
BY DEF PcOK

LEMMA TypeStep == TypeOK /\ [Next]_vars => TypeOK'
<1> SUFFICES ASSUME TypeOK, [Next]_vars PROVE TypeOK'
  OBVIOUS
<1>0. /\ SharedOK /\ JobOK /\ LoopOK /\ PcOK
      /\ \A r \in Runs : at[r] # 0 => at[r] \in Versions
      /\ \A r \in Runs : pc[r] # "write" => inode[r] = None
  BY TypeParts, VersionFacts DEF LoopOK, PcOK
<1>1. ASSUME Counted PROVE events' \in 0..MaxEvents
  BY <1>1, MapDeltaAssumption DEF Counted, TypeOK
<1>2. ASSUME NEW r \in Runs, NEW c \in AllCommands, Start(r, c) PROVE TypeOK'
  <2>1. UNCHANGED <<db, loop, world, maps, answer, events, clashed>> /\ pc[r] = "idle"
    BY <1>2 DEF Start
  <2>2. CASE c = "download-maps"
    <3>1. /\ pc' = [pc EXCEPT ![r] = "select"] /\ UNCHANGED <<todo, planned, downloads>>
          /\ command' = [command EXCEPT ![r] = c]
      BY <1>2, <2>2 DEF Start
    <3>2. PcOK'
      BY <2>1, <3>1, <1>0 DEF PcOK, PCs, Window, Loop, loop
    <3> QED BY <1>0, <2>1, <3>1, <3>2, TypeParts
            DEF SharedOK, JobOK, LoopOK, db, loop, world, maps, records
  <2>3. CASE c # "download-maps"
    <3>1. PICK routes \in {<<"index2">>, <<"get-iot-file">>}, withPlan \in BOOLEAN :
             Begin(r, routes, withPlan) /\ command' = [command EXCEPT ![r] = c]
      BY <1>2, <2>3 DEF Start
    <3>2. routes \in Seq(Routes) /\ routes # <<>>
      <4>1. <<"index2">> \in Seq(Routes) /\ <<"get-iot-file">> \in Seq(Routes)
        BY DEF Routes
      <4>2. <<"index2">> # <<>> /\ <<"get-iot-file">> # <<>>
        OBVIOUS
      <4> QED BY <4>1, <4>2, Zenon
    <3>3. JobOK'
      BY <1>0, <2>1, <3>1, <3>2 DEF JobOK, Begin
    <3>4. PcOK'
      BY <1>0, <2>1, <3>1, <3>2 DEF PcOK, JobOK, Begin, PCs, Loop, loop
    <3> QED BY <1>0, <2>1, <3>3, <3>4, TypeParts
            DEF SharedOK, LoopOK, db, loop, world, maps, records
  <2> QED BY <2>2, <2>3
<1>3. ASSUME NEW r \in Runs, Request(r) PROVE TypeOK'
  <2>1. PcOK' /\ JobOK'
    BY <1>0, <1>3, MapDeltaAssumption
       DEF Request, PcOK, JobOK, SharedOK, PCs, Loop, loop, job
  <2> QED BY <1>0, <1>3, <2>1, TypeParts
          DEF Request, SharedOK, LoopOK, db, loop, world, maps, records
<1>4. ASSUME NEW r \in Runs, Ingest(r) PROVE TypeOK'
  <2>1. /\ pc[r] = "ingest" /\ Stored(r, Head(todo[r]))
        /\ UNCHANGED <<world, records, maps, writer, events, clashed>>
    BY <1>4 DEF Ingest
  <2>2. /\ latest' \in [version : 0..MaxVersion, behind : BOOLEAN]
        /\ urls' \subseteq Versions \X (Runs \cup {Left}) /\ detailed' \in BOOLEAN
    <3>1. answer[r] \in 0..MaxVersion /\ (answer[r] # 0 => answer[r] \in Versions)
      BY VersionFacts DEF TypeOK
    <3>2. CASE /\ answer[r] # 0
               /\ latest' = [version |-> answer[r], behind |-> FALSE]
               /\ urls' \in {urls \cup {<<answer[r], r>>}, urls} /\ UNCHANGED detailed
      BY <3>1, <3>2 DEF TypeOK
    <3>3. CASE detailed' \in {TRUE, detailed} /\ UNCHANGED <<latest, urls>>
      BY <3>3 DEF TypeOK
    <3>4. CASE UNCHANGED <<latest, urls, detailed>>
      BY <3>4 DEF TypeOK
    <3> QED BY <2>1, <3>2, <3>3, <3>4 DEF Stored, NothingStored, DetailStored, ResourceStored
  <2>3. SharedOK'
    BY <1>0, <2>1, <2>2 DEF SharedOK, world, records, maps
  <2>4. CASE NextPc(r) = "idle"
    BY <1>0, <1>4, <2>3, <2>4, EndedFacts, TypeParts DEF Ingest
  <2>5. CASE NextPc(r) # "idle"
    <3>1. /\ pc' = [pc EXCEPT ![r] = NextPc(r)]
          /\ todo' = [todo EXCEPT ![r] = Tail(todo[r])]
          /\ answer' = [answer EXCEPT ![r] = 0]
          /\ UNCHANGED <<loop, command, planned, downloads>>
      BY <1>4, <2>5 DEF Ingest
    <3>2. Tail(todo[r]) \in Seq(Routes)
      <4>1. todo[r] \in Seq(Routes) /\ todo[r] # <<>>
        BY <1>0, <2>1 DEF JobOK, PcOK
      <4> QED BY <4>1, HeadTailProperties
    <3>3. JobOK'
      BY <1>0, <3>1, <3>2, VersionFacts DEF JobOK
    <3>4. /\ NextPc(r) \in {"request", "plan", "select"}
          /\ NextPc(r) = "request" => Tail(todo[r]) # <<>>
      BY <2>5 DEF NextPc
    <3>5. PcOK'
      BY <1>0, <2>1, <3>1, <3>4 DEF PcOK, JobOK, PCs, Window, Loop, loop
    <3> QED BY <1>0, <2>3, <3>1, <3>3, <3>5, TypeParts DEF LoopOK, loop
  <2> QED BY <2>4, <2>5
<1>5. ASSUME NEW r \in Runs, Plan(r) PROVE TypeOK'
  <2>1. UNCHANGED <<db, world, maps, events, clashed>> /\ pc[r] = "plan"
    BY <1>5 DEF Plan
  <2>2. SharedOK'
    BY <1>0, <2>1 DEF SharedOK, db, world, maps, records
  <2>3. CASE DeltaRoutes = <<>>
    BY <1>0, <1>5, <2>2, <2>3, EndedFacts, TypeParts DEF Plan
  <2>4. CASE DeltaRoutes # <<>>
    <3>1. /\ todo' = [todo EXCEPT ![r] = DeltaRoutes]
          /\ planned' = [planned EXCEPT ![r] = TRUE]
          /\ downloads' = [downloads EXCEPT
                             ![r] = Keeps(r) /\ (ArtifactNeeded \/ "artifact" \in elsewhere)]
          /\ pc' = [pc EXCEPT ![r] = "request"]
          /\ UNCHANGED <<loop, command, answer>>
      BY <1>5, <2>4 DEF Plan
    <3>2. JobOK'
      <4>1. todo' \in [Runs -> Seq(Routes)]
        BY <1>0, <3>1, DeltaRoutesFacts DEF JobOK
      <4>2. planned' \in [Runs -> BOOLEAN] /\ downloads' \in [Runs -> BOOLEAN]
        BY <1>0, <3>1, Zenon DEF JobOK, Keeps, ArtifactNeeded
      <4> QED BY <1>0, <3>1, <4>1, <4>2 DEF JobOK
    <3>3. PcOK'
      BY <1>0, <2>1, <2>4, <3>1 DEF PcOK, JobOK, PCs, Loop, loop
    <3> QED BY <1>0, <2>2, <3>1, <3>2, <3>3, TypeParts DEF LoopOK, loop
  <2> QED BY <2>3, <2>4
<1>6. ASSUME NEW r \in Runs, Select(r) PROVE TypeOK'
  <2>1. /\ rows' = [rows EXCEPT ![r] = {u[1] : u \in urls}] /\ pc[r] = "select"
        /\ pc' = [pc EXCEPT ![r] = "next"]
        /\ UNCHANGED <<db, job, world, maps, answer, at, inode, draft, cleared, events, clashed>>
    BY <1>6 DEF Select
  <2>2. {u[1] : u \in urls} \subseteq Versions
    BY DEF TypeOK
  <2>3. LoopOK'
    BY <1>0, <2>1, <2>2 DEF LoopOK
  <2>4. PcOK'
    BY <1>0, <2>1 DEF PcOK, PCs, Window, Loop, job
  <2> QED BY <1>0, <2>1, <2>3, <2>4, TypeParts
          DEF SharedOK, JobOK, db, job, world, maps, records
<1>7. ASSUME NEW r \in Runs, NEW v \in Versions, Skip(r, v) \/ Invalid(r, v) PROVE TypeOK'
  <2>1. /\ Cleared(r, v) /\ pc[r] = "next" /\ UNCHANGED <<maps, inode, draft, clashed>>
        /\ events' = events \/ Counted
    BY <1>7 DEF Skip, Invalid
  <2>2. PcOK' /\ LoopOK'
    <3>1. pc[r] \in Loop
      BY <2>1 DEF Loop
    <3> QED BY <1>0, <2>1, <3>1, ClearedFacts DEF PcOK, LoopOK, Loop
  <2>3. SharedOK' /\ JobOK'
    <3>1. pc[r] \in Loop /\ events' \in 0..MaxEvents
      BY <1>0, <1>1, <2>1 DEF Loop, SharedOK
    <3> QED BY <1>0, <2>1, <3>1, ClearedFacts DEF SharedOK, JobOK, maps
  <2> QED BY <2>2, <2>3, TypeParts
<1>8. ASSUME NEW r \in Runs, NEW v \in Versions, Open(r, v) PROVE TypeOK'
  <2>1. /\ at' = [at EXCEPT ![r] = v] /\ pc' = [pc EXCEPT ![r] = "fetch"] /\ pc[r] = "next"
        /\ UNCHANGED <<db, job, world, maps, answer, rows, inode, draft, cleared, events>>
        /\ clashed' \in {clashed, clashed \cup {v}}
    BY <1>8 DEF Open
  <2>2. LoopOK' /\ PcOK'
    BY <1>0, <2>1, VersionFacts DEF LoopOK, PcOK, PCs, Window, Loop, job
  <2> QED BY <1>0, <2>1, <2>2, TypeParts
          DEF SharedOK, JobOK, db, job, world, maps, records
<1>9. ASSUME NEW r \in Runs, Write(r) PROVE TypeOK'
  <2>1. /\ tmp' = [tmp EXCEPT ![at[r]] = "part"] /\ inode' = [inode EXCEPT ![r] = "tmp"]
        /\ pc' = [pc EXCEPT ![r] = "write"] /\ pc[r] = "fetch"
        /\ UNCHANGED <<db, job, world, file, answer, rows, at, draft, cleared, events, clashed>>
    BY <1>9 DEF Write
  <2>2. LoopOK' /\ PcOK'
    BY <1>0, <2>1 DEF LoopOK, PcOK, PCs, Window, Loop, job
  <2>3. SharedOK'
    BY <1>0, <2>1 DEF SharedOK, db, world, records, Content
  <2> QED BY <1>0, <2>1, <2>2, <2>3, TypeParts DEF JobOK, job
<1>10. ASSUME NEW r \in Runs, Written(r) PROVE TypeOK'
  <2>1. /\ inode' = [inode EXCEPT ![r] = None]
        /\ pc' = [pc EXCEPT ![r] = "replace"] /\ pc[r] = "write"
        /\ UNCHANGED <<db, job, world, answer, rows, at, draft, cleared, events, clashed>>
    BY <1>10 DEF Written
  <2>2. LoopOK' /\ PcOK'
    BY <1>0, <2>1 DEF LoopOK, PcOK, PCs, Window, Loop, job
  <2>3. /\ file' \in [Versions -> Content \cup {None}]
        /\ tmp' \in [Versions -> Content \cup {None}]
    <3>1. /\ tmp' = tmp \/ tmp' = [tmp EXCEPT ![at[r]] = Filled(r, "tmp")]
          /\ file' = file \/ file' = [file EXCEPT ![at[r]] = Filled(r, "file")]
      BY <1>10 DEF Written
    <3>2. Filled(r, "tmp") \in Content /\ Filled(r, "file") \in Content
      BY DEF Filled, Content
    <3>3. tmp' \in [Versions -> Content \cup {None}]
      <4>1. [tmp EXCEPT ![at[r]] = Filled(r, "tmp")] \in [Versions -> Content \cup {None}]
        BY <1>0, <3>2, ExceptFacts DEF SharedOK
      <4> QED BY <1>0, <3>1, <4>1, Zenon DEF SharedOK
    <3>4. file' \in [Versions -> Content \cup {None}]
      <4>1. [file EXCEPT ![at[r]] = Filled(r, "file")] \in [Versions -> Content \cup {None}]
        BY <1>0, <3>2, ExceptFacts DEF SharedOK
      <4> QED BY <1>0, <3>1, <4>1, Zenon DEF SharedOK
    <3> QED BY <3>3, <3>4
  <2>4. SharedOK'
    BY <1>0, <2>1, <2>3 DEF SharedOK, db, world, records
  <2> QED BY <1>0, <2>1, <2>2, <2>4, TypeParts DEF JobOK, job
<1>11. ASSUME NEW r \in Runs, Fails(r) PROVE TypeOK'
  <2>1. /\ Cleared(r, at[r]) /\ pc[r] = "fetch" /\ pc[r] \in Loop /\ Counted
        /\ tmp' = [tmp EXCEPT ![at[r]] = None] /\ UNCHANGED <<file, draft, clashed>>
        /\ \A q \in Runs : inode'[q] \in {inode[q], None}
        /\ inode' \in [Runs -> {None, "tmp", "file"}]
    BY <1>0, <1>11 DEF Fails, Loop, LoopOK
  <2>2. at[r] \in Versions
    BY <1>0, <2>1 DEF PcOK, Loop
  <2>3. LoopOK' /\ PcOK'
    BY <1>0, <2>1, <2>2, ClearedFacts DEF LoopOK, PcOK, Loop
  <2>4. SharedOK' /\ JobOK'
    BY <1>0, <1>1, <2>1, <2>2, ClearedFacts DEF SharedOK, JobOK
  <2> QED BY <2>3, <2>4, TypeParts
<1>12. ASSUME NEW r \in Runs, Replace(r) PROVE TypeOK'
  <2>1. /\ pc' = [pc EXCEPT ![r] = "inspect"] /\ pc[r] = "replace"
        /\ file' = [file EXCEPT ![at[r]] = tmp[at[r]]]
        /\ tmp' = [tmp EXCEPT ![at[r]] = None]
        /\ UNCHANGED <<db, job, world, answer, rows, at, draft, cleared, events, clashed>>
    BY <1>12 DEF Replace
  <2>2. /\ inode' \in [Runs -> {None, "tmp", "file"}]
        /\ \A q \in Runs : inode'[q] # None => inode[q] # None
    BY <1>0, <1>12 DEF Replace, Writers, LoopOK, None
  <2>3. LoopOK' /\ PcOK'
    BY <1>0, <2>1, <2>2 DEF LoopOK, PcOK, PCs, Window, Loop, job
  <2>4. SharedOK'
    <3>1. at[r] \in Versions
      BY <1>0, <2>1 DEF PcOK, Loop
    <3> QED BY <1>0, <2>1, <3>1 DEF SharedOK, db, world, records
  <2> QED BY <1>0, <2>1, <2>3, <2>4, TypeParts DEF JobOK, job
<1>13. ASSUME NEW r \in Runs, FileLost(r) \/ LoopLocked(r) PROVE TypeOK'
  <2>1. Raises(r) /\ UNCHANGED events /\ pc[r] \in Loop /\ pc[r] # "write"
    BY <1>13 DEF FileLost, LoopLocked, Loop
  <2>2. CASE command[r] = "download-maps"
    <3>1. Ended(r) /\ UNCHANGED <<world, records, maps, latest, detailed, clashed, urls>>
          /\ writer' \in {writer, None}
      BY <2>1, <2>2 DEF Raises, RolledBack
    <3>2. SharedOK'
      BY <1>0, <2>1, <3>1 DEF SharedOK, world, records, maps
    <3> QED BY <1>0, <3>1, <3>2, EndedFacts, TypeParts
  <2>3. CASE command[r] # "download-maps"
    <3>1. /\ pc' = [pc EXCEPT ![r] = "discard"] /\ rows' = [rows EXCEPT ![r] = {}]
          /\ at' = [at EXCEPT ![r] = 0] /\ inode' = [inode EXCEPT ![r] = None]
          /\ UNCHANGED <<db, job, world, maps, answer, draft, cleared, clashed>>
      BY <2>1, <2>3 DEF Raises
    <3>2. LoopOK' /\ PcOK'
      BY <1>0, <3>1, VersionFacts DEF LoopOK, PcOK, PCs, Window, Loop, job
    <3> QED BY <1>0, <2>1, <3>1, <3>2, TypeParts
            DEF SharedOK, JobOK, db, job, world, maps, records
  <2> QED BY <2>2, <2>3
<1>14. ASSUME NEW r \in Runs, Record(r) \/ Refuse(r) PROVE TypeOK'
  <2>1. /\ Cleared(r, at[r]) /\ pc[r] = "inspect" /\ pc[r] \in Loop
        /\ UNCHANGED <<maps, inode, events, clashed>>
        /\ draft' \in {draft, [draft EXCEPT ![r][at[r]] = file[at[r]]]}
    BY <1>14 DEF Record, Refuse, Loop
  <2>2. at[r] \in Versions
    BY <1>0, <2>1 DEF PcOK, Loop
  <2>3. draft' \in [Runs -> [Versions -> Content \cup {None}]]
    <3>1. file[at[r]] \in Content \cup {None}
      BY <1>0, <2>2 DEF SharedOK
    <3>2. [draft EXCEPT ![r][at[r]] = file[at[r]]] \in [Runs -> [Versions -> Content \cup {None}]]
      BY <1>0, <2>2, <3>1 DEF LoopOK
    <3> QED BY <1>0, <2>1, <3>2, Zenon DEF LoopOK
  <2>4. LoopOK' /\ PcOK'
    BY <1>0, <2>1, <2>2, <2>3, ClearedFacts DEF LoopOK, PcOK, Loop
  <2>5. SharedOK' /\ JobOK'
    BY <1>0, <2>1, <2>2, ClearedFacts DEF SharedOK, JobOK, maps
  <2> QED BY <2>4, <2>5, TypeParts
<1>15. ASSUME NEW r \in Runs, Commit(r) \/ Discard(r) PROVE TypeOK'
  <2>1. /\ Applied(r) /\ urls' \subseteq urls
        /\ UNCHANGED <<world, maps, latest, detailed, events, clashed>>
    BY <1>15 DEF Commit, Discard
  <2>2. SharedOK'
    BY <1>0, <2>1, AppliedFacts DEF SharedOK, world, maps
  <2>3. CASE Ended(r)
    BY <1>0, <2>2, <2>3, EndedFacts, TypeParts
  <2>4. CASE ~Ended(r)
    <3>1. /\ pc[r] = "next" /\ pc' = [pc EXCEPT ![r] = "discard"]
          /\ draft' = [draft EXCEPT ![r] = [v \in Versions |-> None]]
          /\ cleared' = [cleared EXCEPT ![r] = {}]
          /\ UNCHANGED <<job, answer, rows, at, inode>>
      BY <1>15, <2>4 DEF Commit, Discard
    <3>2. LoopOK' /\ PcOK'
      BY <1>0, <3>1 DEF LoopOK, PcOK, PCs, Window, Loop, job
    <3> QED BY <1>0, <2>2, <3>1, <3>2, TypeParts DEF JobOK, job
  <2> QED BY <2>3, <2>4
<1>16. ASSUME NEW r \in Runs,
              \/ RequestFails(r) \/ IngestLocked(r) \/ DiscardLocked(r) \/ Kill(r)
       PROVE  TypeOK'
  <2>1. GivesUp(r) /\ (events' = events \/ Counted)
    BY <1>16 DEF RequestFails, IngestLocked, DiscardLocked, Kill
  <2>2. events' \in 0..MaxEvents
    BY <1>0, <1>1, <2>1 DEF SharedOK
  <2> QED BY <2>1, <2>2, GivesUpFacts
<1>17. ASSUME NEW v \in Versions, DeleteFile(v) PROVE TypeOK'
  <2>1. /\ file' = [file EXCEPT ![v] = None] /\ Counted
        /\ UNCHANGED <<db, job, world, tmp, pc, answer, rows, at, draft, cleared, clashed>>
        /\ \A q \in Runs : inode'[q] \in {inode[q], None}
        /\ inode' \in [Runs -> {None, "tmp", "file"}]
    BY <1>0, <1>17 DEF DeleteFile, LoopOK
  <2>2. LoopOK' /\ PcOK'
    BY <1>0, <2>1 DEF LoopOK, PcOK, job
  <2>3. SharedOK'
    BY <1>0, <1>1, <2>1 DEF SharedOK, db, world, records
  <2> QED BY <1>0, <2>1, <2>2, <2>3, TypeParts DEF JobOK, job
<1>18. CASE Publish
  <2>1. published' \in 0..MaxVersion
    BY <1>18, MapDeltaAssumption DEF Publish, TypeOK
  <2> QED BY <1>0, <1>18, <2>1, TypeParts
          DEF Publish, SharedOK, JobOK, LoopOK, PcOK, db, loop, job, maps, records
<1>19. ASSUME NEW v \in Versions, NEW behind \in BOOLEAN, NEW keep \in BOOLEAN,
              IngestLog(v, behind, keep)
       PROVE  TypeOK'
  <2>1. /\ urls' \in {urls, urls \cup {<<v, Left>>}}
        /\ latest' = [version |-> v, behind |-> behind] /\ Counted
        /\ UNCHANGED <<loop, job, world, records, maps, detailed, writer, pc, answer, clashed>>
    BY <1>19 DEF IngestLog
  <2>2. SharedOK'
    BY <1>0, <1>1, <2>1, VersionFacts DEF SharedOK, world, records, maps
  <2> QED BY <1>0, <2>1, <2>2, TypeParts DEF JobOK, LoopOK, PcOK, loop, job
<1>20. CASE UNCHANGED vars
  BY <1>0, <1>20, TypeParts
     DEF vars, SharedOK, JobOK, LoopOK, PcOK, world, db, maps, job, loop, records
<1>21. ASSUME NEW r \in Runs, Step(r) PROVE TypeOK'
  BY <1>3, <1>4, <1>5, <1>6, <1>7, <1>8, <1>9, <1>10, <1>11, <1>12, <1>13, <1>14, <1>15,
     <1>16, <1>21 DEF Step
<1> QED BY <1>2, <1>16, <1>17, <1>18, <1>19, <1>20, <1>21 DEF Next

-----------------------------------------------------------------------------
(* Signed URLs.                                                            *)

\* A step that stores no URL of a command that runs, and takes none of those
\* that own one back to idle.
LEMMA OwnedKept ==
    ASSUME TypeOK, Owned,
           \A u \in urls' : u \in urls \/ u[2] = Left,
           \A u \in urls' : u[2] # Left =>
              /\ pc'[u[2]] # "idle" /\ command'[u[2]] = command[u[2]]
              /\ planned'[u[2]] = planned[u[2]] /\ downloads'[u[2]] = downloads[u[2]]
    PROVE  Owned'
BY DEF Owned, Keeps

\* A command at rest, before its plan or without one owns none.
LEMMA OwnsNone ==
    ASSUME NEW r \in Runs, Owned,
           pc[r] = "idle" \/ ~Keeps(r) \/ ~planned[r] \/ ~downloads[r]
    PROVE  \A u \in urls : u[2] # r
<1>1. Left # r
  BY MapDeltaAssumption
<1> QED BY <1>1 DEF Owned

LEMMA OwnedStep == TypeOK /\ Owned /\ Routed /\ [Next]_vars => Owned'
<1> SUFFICES ASSUME TypeOK, Owned, Routed, [Next]_vars PROVE Owned'
  OBVIOUS
<1>0. /\ JobOK /\ LoopOK /\ PcOK /\ Left \notin Runs
      /\ \A u \in urls : u[2] # Left => u[2] \in Runs
  BY TypeParts, MapDeltaAssumption DEF SharedOK
\* The steps on the way of one command, which keep what it is.
<1>1. ASSUME NEW r \in Runs, urls' \subseteq urls, UNCHANGED job, pc'[r] # "idle",
             \A q \in Runs \ {r} : pc'[q] = pc[q]
      PROVE  Owned'
  <2>1. UNCHANGED <<command, planned, downloads>>
    BY <1>1 DEF job
  <2> QED BY <1>0, <1>1, <2>1, OwnedKept DEF Owned
\* The end of a command that owns none, or of all of them.
<1>2. ASSUME NEW r \in Runs, Ended(r), urls' \subseteq urls, \A u \in urls' : u[2] # r
      PROVE  Owned'
  BY <1>0, <1>2, EndedFacts, OwnedKept DEF Owned
<1>3. ASSUME NEW r \in Runs, GivesUp(r) PROVE Owned'
  <2>1. Ended(r) /\ urls' = {IF u[2] = r THEN <<u[1], Left>> ELSE u : u \in urls}
    BY <1>3 DEF GivesUp, RolledBack
  <2>2. \A u \in urls' : (u \in urls /\ u[2] # r) \/ u[2] = Left
    BY <2>1
  <2> QED BY <1>0, <2>1, <2>2, EndedFacts, OwnedKept DEF Owned
<1>4. ASSUME NEW r \in Runs, NEW c \in AllCommands, Start(r, c) PROVE Owned'
  <2>1. pc[r] = "idle" /\ urls' = urls
    BY <1>4 DEF Start, db
  <2>2. \A u \in urls : u[2] # r
    BY <2>1, OwnsNone
  <2>3. \A q \in Runs \ {r} : /\ pc'[q] = pc[q] /\ command'[q] = command[q]
                              /\ planned'[q] = planned[q] /\ downloads'[q] = downloads[q]
    BY <1>0, <1>4 DEF Start, Begin, PcOK, JobOK
  <2> QED BY <1>0, <2>1, <2>2, <2>3, OwnedKept DEF Owned
<1>5. ASSUME NEW r \in Runs, Ingest(r) PROVE Owned'
  <2>1. pc[r] = "ingest" /\ Stored(r, Head(todo[r])) /\ todo[r] \in Seq(Routes) /\ todo[r] # <<>>
    BY <1>0, <1>5 DEF Ingest, PcOK, JobOK
  <2>2. \/ urls' = urls
        \/ urls' = urls \cup {<<answer[r], r>>} /\ Keeps(r) /\ planned[r] /\ downloads[r]
    <3>1. Head(todo[r]) = todo[r][1] /\ 1 \in 1..Len(todo[r])
      BY <2>1
    <3>2. Head(todo[r]) = "get-iot-file" /\ Keeps(r) => planned[r] /\ downloads[r]
      BY <2>1, <3>1 DEF Routed
    <3>3. urls' = urls \/ (/\ urls' = urls \cup {<<answer[r], r>>} /\ Keeps(r)
                           /\ Head(todo[r]) = "get-iot-file")
      BY <2>1 DEF Stored, NothingStored, DetailStored, ResourceStored
    <3> QED BY <3>2, <3>3
  <2>3. CASE NextPc(r) = "idle"
    <3>1. Ended(r) /\ ~downloads[r]
      BY <1>5, <2>3 DEF Ingest, NextPc
    <3>2. urls' = urls /\ \A u \in urls : u[2] # r
      BY <2>2, <3>1, OwnsNone
    <3> QED BY <1>2, <3>1, <3>2
  <2>4. CASE NextPc(r) # "idle"
    <3>1. /\ pc'[r] # "idle" /\ UNCHANGED <<command, planned, downloads>>
          /\ \A q \in Runs \ {r} : pc'[q] = pc[q]
      BY <1>0, <1>5, <2>4 DEF Ingest, PcOK
    <3>2. ASSUME NEW u \in urls', u[2] # Left
          PROVE  pc'[u[2]] # "idle" /\ Keeps(u[2])' /\ planned'[u[2]] /\ downloads'[u[2]]
      <4>1. CASE u \in urls
        <5>1. u[2] \in Runs /\ pc[u[2]] # "idle" /\ Keeps(u[2]) /\ planned[u[2]] /\ downloads[u[2]]
          BY <1>0, <3>2, <4>1 DEF Owned
        <5> QED BY <3>1, <5>1 DEF Keeps
      <4>2. CASE u = <<answer[r], r>> /\ Keeps(r) /\ planned[r] /\ downloads[r]
        BY <3>1, <4>2 DEF Keeps
      <4> QED BY <2>2, <3>2, <4>1, <4>2
    <3> QED BY <3>2 DEF Owned
  <2> QED BY <2>3, <2>4
<1>6. ASSUME NEW r \in Runs, Plan(r) PROVE Owned'
  <2>1. urls' = urls /\ \A u \in urls : u[2] # r
    BY <1>6, OwnsNone DEF Plan, db, Routed
  <2>2. CASE DeltaRoutes = <<>>
    BY <1>2, <1>6, <2>1, <2>2 DEF Plan
  <2>3. CASE DeltaRoutes # <<>>
    <3>1. \A q \in Runs \ {r} : /\ pc'[q] = pc[q] /\ command'[q] = command[q]
                                /\ planned'[q] = planned[q] /\ downloads'[q] = downloads[q]
      BY <1>0, <1>6, <2>3 DEF Plan, PcOK, JobOK
    <3> QED BY <1>0, <2>1, <3>1, OwnedKept DEF Owned
  <2> QED BY <2>2, <2>3
<1>7. ASSUME NEW r \in Runs, NEW v \in Versions, Cleared(r, v) PROVE Owned'
  BY <1>0, <1>1, <1>7 DEF Cleared, PcOK
<1>8. ASSUME NEW r \in Runs,
             \/ Request(r) \/ Select(r) \/ \E v \in Versions : Skip(r, v) \/ Open(r, v) \/ Invalid(r, v)
             \/ Write(r) \/ Written(r) \/ Fails(r) \/ Replace(r) \/ Record(r) \/ Refuse(r)
      PROVE  Owned'
  <2>1. CASE Request(r) \/ Select(r) \/ Write(r) \/ Written(r) \/ Replace(r)
    BY <1>0, <1>1, <2>1 DEF Request, Select, Write, Written, Replace, PcOK, db
  <2>2. ASSUME NEW v \in Versions, Open(r, v) PROVE Owned'
    BY <1>0, <1>1, <2>2 DEF Open, PcOK, db
  <2>3. ASSUME NEW v \in Versions, Skip(r, v) \/ Invalid(r, v) PROVE Owned'
    BY <1>7, <2>3 DEF Skip, Invalid
  <2>4. CASE Fails(r) \/ Record(r) \/ Refuse(r)
    <3>1. at[r] \in Versions
      BY <1>0, <2>4, VersionFacts DEF Fails, Record, Refuse, PcOK, LoopOK, Loop
    <3> QED BY <1>7, <2>4, <3>1 DEF Fails, Record, Refuse
  <2> QED BY <1>8, <2>1, <2>2, <2>3, <2>4
<1>9. ASSUME NEW r \in Runs, FileLost(r) \/ LoopLocked(r) PROVE Owned'
  <2>1. Raises(r)
    BY <1>9 DEF FileLost, LoopLocked
  <2>2. CASE command[r] = "download-maps"
    <3>1. Ended(r) /\ urls' = urls
      BY <2>1, <2>2 DEF Raises, RolledBack
    <3>2. \A u \in urls : u[2] # r
      BY <2>2, OwnsNone DEF Keeps
    <3> QED BY <1>2, <3>1, <3>2
  <2>3. CASE command[r] # "download-maps"
    BY <1>0, <1>1, <2>1, <2>3 DEF Raises, PcOK, db
  <2> QED BY <2>2, <2>3
<1>10. ASSUME NEW r \in Runs, Commit(r) PROVE Owned'
  <2>1. urls' \subseteq urls
    BY <1>10 DEF Commit
  <2>2. CASE command[r] = "download-maps"
    <3>1. \A u \in urls : u[2] # r
      BY <2>2, OwnsNone DEF Keeps
    <3> QED BY <1>2, <1>10, <2>1, <2>2, <3>1 DEF Commit
  <2>3. CASE command[r] # "download-maps"
    BY <1>0, <1>1, <1>10, <2>1, <2>3 DEF Commit, PcOK
  <2> QED BY <2>2, <2>3
<1>11. ASSUME NEW r \in Runs, Discard(r) PROVE Owned'
  BY <1>11 DEF Discard, Owned
<1>12. ASSUME NEW r \in Runs,
              RequestFails(r) \/ IngestLocked(r) \/ DiscardLocked(r) \/ Kill(r)
       PROVE  Owned'
  BY <1>3, <1>12 DEF RequestFails, IngestLocked, DiscardLocked, Kill
<1>13. ASSUME UNCHANGED <<pc, job>>, \A u \in urls' : u \in urls \/ u[2] = Left PROVE Owned'
  BY <1>13, OwnedKept DEF Owned, job
<1>14. ASSUME \/ \E v \in Versions : DeleteFile(v)
              \/ Publish
              \/ \E v \in Versions, behind \in BOOLEAN, keep \in BOOLEAN : IngestLog(v, behind, keep)
       PROVE  Owned'
  BY <1>13, <1>14 DEF DeleteFile, Publish, IngestLog, db
<1>15. CASE UNCHANGED vars
  BY <1>13, <1>15 DEF vars, db
<1>16. ASSUME NEW r \in Runs, Step(r) PROVE Owned'
  BY <1>5, <1>6, <1>8, <1>9, <1>10, <1>11, <1>12, <1>16 DEF Step
<1> QED BY <1>4, <1>12, <1>14, <1>15, <1>16 DEF Next

\* What Routed says of one command.
RoutedRun(r) ==
    /\ pc[r] = "plan" => ~planned[r]
    /\ pc[r] \in {"request", "ingest"} /\ Keeps(r) =>
          \A i \in 1..Len(todo[r]) :
             todo[r][i] = "get-iot-file" => planned[r] /\ downloads[r]

LEMMA RoutedStep == TypeOK /\ Routed /\ [Next]_vars => Routed'
<1> SUFFICES ASSUME TypeOK, Routed, [Next]_vars PROVE Routed'
  OBVIOUS
<1>0. /\ JobOK /\ LoopOK /\ PcOK /\ \A r \in Runs : RoutedRun(r)
  BY TypeParts DEF Routed, RoutedRun
\* A step of one command, with the others as they were.
<1>1. ASSUME NEW r \in Runs, RoutedRun(r)',
             \A q \in Runs \ {r} : /\ pc'[q] = pc[q] /\ command'[q] = command[q]
                                   /\ todo'[q] = todo[q] /\ planned'[q] = planned[q]
                                   /\ downloads'[q] = downloads[q]
      PROVE  Routed'
  <2>1. ASSUME NEW q \in Runs \ {r} PROVE RoutedRun(q)'
    BY <1>0, <1>1 DEF RoutedRun, Keeps
  <2>2. \A q \in Runs : RoutedRun(q)'
    BY <1>1, <2>1
  <2> QED BY <2>2 DEF Routed, RoutedRun
<1>2. ASSUME NEW r \in Runs, Ended(r) PROVE Routed'
  BY <1>0, <1>1, <1>2, EndedFacts DEF RoutedRun
<1>3. ASSUME NEW r \in Runs, NEW to \in PCs \ {"plan", "request", "ingest"},
             pc' = [pc EXCEPT ![r] = to], UNCHANGED job
      PROVE  Routed'
  <2>1. pc'[r] = to /\ \A q \in Runs \ {r} : pc'[q] = pc[q]
    BY <1>0, <1>3 DEF PcOK
  <2>2. UNCHANGED <<command, todo, planned, downloads>>
    BY <1>3 DEF job
  <2> QED BY <1>1, <1>3, <2>1, <2>2 DEF RoutedRun
<1>4. ASSUME NEW r \in Runs, NEW c \in AllCommands, Start(r, c) PROVE Routed'
  <2>1. \A q \in Runs \ {r} : /\ pc'[q] = pc[q] /\ command'[q] = command[q]
                              /\ todo'[q] = todo[q] /\ planned'[q] = planned[q]
                              /\ downloads'[q] = downloads[q]
    BY <1>0, <1>4 DEF Start, Begin, PcOK, JobOK
  <2>2. CASE c = "download-maps"
    BY <1>0, <1>1, <1>4, <2>1, <2>2 DEF Start, PcOK, RoutedRun
  <2>3. CASE c = "artifacts"
    <3>1. planned'[r] = TRUE /\ downloads'[r] = TRUE /\ pc'[r] = "request"
      BY <1>0, <1>4, <2>3 DEF Start, Begin, PcOK, JobOK
    <3> QED BY <1>1, <2>1, <3>1 DEF RoutedRun
  <2>4. CASE c \in {"delta", "delta-only"}
    <3>1. todo'[r] = <<"index2">> /\ pc'[r] = "request"
      BY <1>0, <1>4, <2>4 DEF Start, Begin, PcOK, JobOK
    <3>2. \A i \in 1..Len(todo'[r]) : todo'[r][i] # "get-iot-file"
      BY <3>1
    <3> QED BY <1>1, <2>1, <3>1, <3>2 DEF RoutedRun
  <2> QED BY <2>2, <2>3, <2>4 DEF AllCommands
<1>5. ASSUME NEW r \in Runs, Request(r) PROVE Routed'
  <2>1. /\ pc[r] = "request" /\ pc'[r] = "ingest" /\ UNCHANGED <<command, todo, planned, downloads>>
        /\ \A q \in Runs \ {r} : pc'[q] = pc[q]
    BY <1>0, <1>5 DEF Request, PcOK, job
  <2>2. RoutedRun(r)'
    BY <1>0, <2>1 DEF RoutedRun, Keeps
  <2> QED BY <1>1, <2>1, <2>2
<1>6. ASSUME NEW r \in Runs, Ingest(r) PROVE Routed'
  <2>1. CASE NextPc(r) = "idle"
    BY <1>2, <1>6, <2>1 DEF Ingest
  <2>2. CASE NextPc(r) # "idle"
    <3>1. /\ pc[r] = "ingest" /\ pc'[r] = NextPc(r) /\ todo'[r] = Tail(todo[r])
          /\ UNCHANGED <<command, planned, downloads>>
          /\ \A q \in Runs \ {r} : pc'[q] = pc[q] /\ todo'[q] = todo[q]
          /\ todo[r] \in Seq(Routes) /\ todo[r] # <<>>
      BY <1>0, <1>6, <2>2 DEF Ingest, PcOK, JobOK
    <3>2. \A i \in 1..Len(Tail(todo[r])) :
             Tail(todo[r])[i] = todo[r][i + 1] /\ i + 1 \in 1..Len(todo[r])
      BY <3>1
    <3>3. NextPc(r) = "plan" => ~planned[r]
      BY DEF NextPc
    <3>4. RoutedRun(r)'
      BY <1>0, <3>1, <3>2, <3>3 DEF RoutedRun, Keeps
    <3> QED BY <1>1, <3>1, <3>4
  <2> QED BY <2>1, <2>2
<1>7. ASSUME NEW r \in Runs, Plan(r) PROVE Routed'
  <2>1. CASE DeltaRoutes = <<>>
    BY <1>2, <1>7, <2>1 DEF Plan
  <2>2. CASE DeltaRoutes # <<>>
    <3>1. /\ pc'[r] = "request" /\ todo'[r] = DeltaRoutes /\ planned'[r] = TRUE
          /\ downloads'[r] = (Keeps(r) /\ (ArtifactNeeded \/ "artifact" \in elsewhere))
          /\ command' = command
          /\ \A q \in Runs \ {r} : /\ pc'[q] = pc[q] /\ todo'[q] = todo[q]
                                   /\ planned'[q] = planned[q] /\ downloads'[q] = downloads[q]
      BY <1>0, <1>7, <2>2 DEF Plan, PcOK, JobOK
    <3>2. RoutedRun(r)'
      BY <3>1, DeltaRoutesFacts DEF RoutedRun, Keeps
    <3> QED BY <1>1, <3>1, <3>2
  <2> QED BY <2>1, <2>2
<1>8. ASSUME NEW r \in Runs, NEW v \in Versions, Cleared(r, v) PROVE Routed'
  BY <1>3, <1>8 DEF Cleared, PCs, Window, Loop
<1>9. ASSUME NEW r \in Runs,
             \/ Select(r) \/ \E v \in Versions : Skip(r, v) \/ Open(r, v) \/ Invalid(r, v)
             \/ Write(r) \/ Written(r) \/ Fails(r) \/ Replace(r) \/ Record(r) \/ Refuse(r)
      PROVE  Routed'
  <2>1. CASE Select(r)
    BY <1>3, <2>1 DEF Select, PCs, Window, Loop
  <2>2. CASE Write(r)
    BY <1>3, <2>2 DEF Write, PCs, Window, Loop
  <2>3. CASE Written(r)
    BY <1>3, <2>3 DEF Written, PCs, Window, Loop
  <2>4. CASE Replace(r)
    BY <1>3, <2>4 DEF Replace, PCs, Window, Loop
  <2>5. ASSUME NEW v \in Versions, Open(r, v) PROVE Routed'
    BY <1>3, <2>5 DEF Open, PCs, Window, Loop
  <2>6. ASSUME NEW v \in Versions, Skip(r, v) \/ Invalid(r, v) PROVE Routed'
    BY <1>8, <2>6 DEF Skip, Invalid
  <2>7. CASE Fails(r) \/ Record(r) \/ Refuse(r)
    <3>1. at[r] \in Versions
      BY <1>0, <2>7, VersionFacts DEF Fails, Record, Refuse, PcOK, LoopOK, Loop
    <3> QED BY <1>8, <2>7, <3>1 DEF Fails, Record, Refuse
  <2> QED BY <1>9, <2>1, <2>2, <2>3, <2>4, <2>5, <2>6, <2>7
<1>10. ASSUME NEW r \in Runs,
              \/ FileLost(r) \/ LoopLocked(r) \/ Commit(r) \/ Discard(r)
              \/ RequestFails(r) \/ IngestLocked(r) \/ DiscardLocked(r) \/ Kill(r)
       PROVE  Routed'
  <2>1. Ended(r) \/ (pc' = [pc EXCEPT ![r] = "discard"] /\ UNCHANGED job)
    BY <1>10 DEF FileLost, LoopLocked, Raises, Commit, Discard, RequestFails, IngestLocked,
                 DiscardLocked, Kill, GivesUp, RolledBack
  <2> QED BY <1>2, <1>3, <2>1 DEF PCs, Window
<1>11. ASSUME UNCHANGED <<pc, job>> PROVE Routed'
  BY <1>11 DEF Routed, Keeps, job
<1>12. ASSUME \/ \E v \in Versions : DeleteFile(v)
              \/ Publish
              \/ \E v \in Versions, behind \in BOOLEAN, keep \in BOOLEAN : IngestLog(v, behind, keep)
       PROVE  Routed'
  BY <1>11, <1>12 DEF DeleteFile, Publish, IngestLog
<1>13. CASE UNCHANGED vars
  BY <1>11, <1>13 DEF vars
<1>14. ASSUME NEW r \in Runs, Step(r) PROVE Routed'
  BY <1>5, <1>6, <1>7, <1>9, <1>10, <1>14 DEF Step
<1> QED BY <1>4, <1>10, <1>12, <1>13, <1>14 DEF Next

-----------------------------------------------------------------------------
(* Map files.                                                              *)

\* What Alone says of one version.
AloneAt(v) ==
    /\ file[v] # "part" /\ newest[v] # "part" /\ "part" \notin artifacts[v]
    /\ \A r \in Runs : draft[r][v] # "part"
    /\ \A q, r \in Runs : at[q] = v /\ at[r] = v => q = r
    /\ \A r \in Runs : at[r] = v =>
          /\ pc[r] = "write" => inode[r] = "tmp"
          /\ pc[r] = "replace" => tmp[v] # "part"

\* A step that writes no file of the version, and opens none.
LEMMA AloneKept ==
    ASSUME NEW v \in Versions, AloneAt(v),
           file'[v] \in {file[v], None}, tmp'[v] \in {tmp[v], None},
           \/ newest'[v] = newest[v] /\ artifacts'[v] = artifacts[v]
           \/ \E r \in Runs : /\ newest'[v] \in {newest[v], draft[r][v]}
                              /\ artifacts'[v] \subseteq artifacts[v] \cup {draft[r][v]},
           \A r \in Runs : draft'[r][v] \in {draft[r][v], None, file[v]},
           \A r \in Runs : at'[r] = v =>
              /\ at[r] = v
              /\ pc'[r] \in {"write", "replace"} => pc'[r] = pc[r] /\ inode'[r] = inode[r]
    PROVE  AloneAt(v)'
<1>1. file'[v] # "part" /\ newest'[v] # "part" /\ "part" \notin artifacts'[v]
  BY DEF AloneAt, None
<1>2. \A r \in Runs : draft'[r][v] # "part"
  BY DEF AloneAt, None
<1>3. \A q, r \in Runs : at'[q] = v /\ at'[r] = v => q = r
  BY DEF AloneAt
<1>4. \A r \in Runs : at'[r] = v =>
         /\ pc'[r] = "write" => inode'[r] = "tmp"
         /\ pc'[r] = "replace" => tmp'[v] # "part"
  BY DEF AloneAt, None
<1> QED BY <1>1, <1>2, <1>3, <1>4 DEF AloneAt

LEMMA AloneStep == TypeOK /\ Alone /\ [Next]_vars => Alone'
<1> SUFFICES ASSUME TypeOK, Alone, [Next]_vars, NEW v \in Versions \ clashed' PROVE AloneAt(v)'
  BY DEF Alone, AloneAt
<1>0. /\ SharedOK /\ JobOK /\ LoopOK /\ PcOK /\ v # 0
      /\ v \notin clashed => AloneAt(v)
  BY TypeParts, VersionFacts DEF Alone, AloneAt
\* The end of a command.
<1>1. ASSUME NEW r \in Runs, Ended(r), UNCHANGED <<maps, clashed>>,
             UNCHANGED records \/ Applied(r)
      PROVE  AloneAt(v)'
  <2>1. \A q \in Runs : at'[q] = v => at[q] = v /\ pc'[q] = pc[q] /\ inode'[q] = inode[q]
    BY <1>0, <1>1, EndedFacts
  <2>2. \A q \in Runs : draft'[q][v] \in {draft[q][v], None}
    BY <1>0, <1>1, EndedFacts
  <2>3. \/ newest'[v] = newest[v] /\ artifacts'[v] = artifacts[v]
        \/ /\ newest'[v] \in {newest[v], draft[r][v]}
           /\ artifacts'[v] \subseteq artifacts[v] \cup {draft[r][v]}
    BY <1>1, AppliedFacts DEF records
  <2> QED BY <1>0, <1>1, <2>1, <2>2, <2>3, AloneKept DEF maps
\* A step outside of the window in which files are written.
<1>2. ASSUME UNCHANGED <<maps, records, at, inode, draft, clashed>>,
             \A r \in Runs : pc'[r] \in {"write", "replace"} => pc'[r] = pc[r]
      PROVE  AloneAt(v)'
  BY <1>0, <1>2, AloneKept DEF maps, records
\* A row dealt with.
<1>3. ASSUME NEW r \in Runs, NEW w \in Versions, Cleared(r, w), pc[r] \in Loop,
             UNCHANGED <<file, clashed>>, tmp'[v] \in {tmp[v], None},
             \A q \in Runs : draft'[q][v] \in {draft[q][v], None, file[v]},
             \A q \in Runs \ {r} : at[q] = v => inode'[q] = inode[q]
      PROVE  AloneAt(v)'
  <2>1. \A q \in Runs : at'[q] = v => at[q] = v /\ pc'[q] = pc[q] /\ inode'[q] = inode[q]
    BY <1>0, <1>3, ClearedFacts
  <2>2. newest'[v] = newest[v] /\ artifacts'[v] = artifacts[v]
    BY <1>3, ClearedFacts
  <2> QED BY <1>0, <1>3, <2>1, <2>2, AloneKept
<1>4. ASSUME NEW r \in Runs, NEW c \in AllCommands, Start(r, c) PROVE AloneAt(v)'
  <2>1. UNCHANGED <<maps, records, at, inode, draft, clashed>>
    BY <1>4 DEF Start, db, loop
  <2>2. \A q \in Runs : pc'[q] \in {"write", "replace"} => pc'[q] = pc[q]
    BY <1>0, <1>4 DEF Start, Begin, PcOK
  <2> QED BY <1>2, <2>1, <2>2
<1>5. ASSUME NEW r \in Runs, Request(r) \/ Select(r) PROVE AloneAt(v)'
  <2>1. UNCHANGED <<maps, records, at, inode, draft, clashed>>
    BY <1>5 DEF Request, Select, db, loop
  <2>2. \A q \in Runs : pc'[q] \in {"write", "replace"} => pc'[q] = pc[q]
    BY <1>0, <1>5 DEF Request, Select, PcOK
  <2> QED BY <1>2, <2>1, <2>2
<1>6. ASSUME NEW r \in Runs, Ingest(r) \/ Plan(r) PROVE AloneAt(v)'
  <2>1. UNCHANGED <<maps, records, clashed>>
    BY <1>6 DEF Ingest, Plan, db
  <2>2. CASE Ended(r)
    BY <1>1, <2>1, <2>2
  <2>3. CASE ~Ended(r)
    <3>1. UNCHANGED <<at, inode, draft>>
      BY <1>6, <2>3 DEF Ingest, Plan, loop
    <3>2. \A q \in Runs : pc'[q] \in {"write", "replace"} => pc'[q] = pc[q]
      BY <1>0, <1>6, <2>3 DEF Ingest, Plan, PcOK, NextPc
    <3> QED BY <1>2, <2>1, <3>1, <3>2
  <2> QED BY <2>2, <2>3
<1>7. ASSUME NEW r \in Runs, NEW w \in Versions, Skip(r, w) \/ Invalid(r, w) PROVE AloneAt(v)'
  <2>1. Cleared(r, w) /\ pc[r] \in Loop /\ UNCHANGED <<maps, inode, draft, clashed>>
    BY <1>7 DEF Skip, Invalid, Loop
  <2> QED BY <1>3, <2>1 DEF maps
<1>8. ASSUME NEW r \in Runs, NEW w \in Versions, Open(r, w) PROVE AloneAt(v)'
  <2>1. /\ at'[r] = w /\ pc'[r] = "fetch" /\ at[r] = 0
        /\ \A q \in Runs \ {r} : at'[q] = at[q] /\ pc'[q] = pc[q]
        /\ UNCHANGED <<db, maps, inode, draft>>
        /\ clashed' = IF \E q \in Runs \ {r} : at[q] = w THEN clashed \cup {w} ELSE clashed
    BY <1>0, <1>8 DEF Open, PcOK, LoopOK, Loop
  <2>2. AloneAt(v)
    BY <1>0, <2>1
  <2>3. CASE w # v
    BY <2>1, <2>2, <2>3, AloneKept DEF db, maps, records
  <2>4. CASE w = v
    <3>1. \A q \in Runs \ {r} : at[q] # v
      BY <2>1, <2>4
    <3> QED BY <2>1, <2>2, <3>1 DEF AloneAt, db, maps, records
  <2> QED BY <2>3, <2>4
<1>9. ASSUME NEW r \in Runs, Write(r) PROVE AloneAt(v)'
  <2>1. /\ pc[r] = "fetch" /\ at[r] \in Versions
        /\ tmp'[v] = (IF v = at[r] THEN "part" ELSE tmp[v])
        /\ inode'[r] = "tmp" /\ pc'[r] = "write"
        /\ \A q \in Runs \ {r} : inode'[q] = inode[q] /\ pc'[q] = pc[q]
        /\ UNCHANGED <<db, file, at, draft, clashed>>
    BY <1>0, <1>9, VersionFacts DEF Write, PcOK, LoopOK, SharedOK, Loop
  <2>2. AloneAt(v)
    BY <1>0, <2>1
  <2> QED BY <2>1, <2>2 DEF AloneAt, db, records
<1>10. ASSUME NEW r \in Runs, Written(r) PROVE AloneAt(v)'
  <2>1. /\ pc[r] = "write" /\ at[r] \in Versions
        /\ inode'[r] = None /\ pc'[r] = "replace"
        /\ \A q \in Runs \ {r} : inode'[q] = inode[q] /\ pc'[q] = pc[q]
        /\ UNCHANGED <<db, at, draft, clashed>>
    BY <1>0, <1>10, VersionFacts DEF Written, PcOK, LoopOK, Loop
  <2>2. AloneAt(v)
    BY <1>0, <2>1
  <2>3. CASE at[r] # v
    <3>1. tmp'[v] = tmp[v] /\ file'[v] = file[v]
      BY <1>0, <1>10, <2>3 DEF Written, SharedOK
    <3> QED BY <2>1, <2>2, <2>3, <3>1, AloneKept DEF db, records
  <2>4. CASE at[r] = v
    <3>1. inode[r] = "tmp" /\ \A q \in Runs : at[q] = v => q = r
      BY <2>1, <2>2, <2>4 DEF AloneAt
    <3>2. Writers(v, "tmp") = {r}
      BY <2>4, <3>1 DEF Writers
    <3>3. tmp'[v] = "whole" /\ file'[v] = file[v]
      BY <1>0, <1>10, <2>4, <3>1, <3>2 DEF Written, Filled, SharedOK
    <3> QED BY <2>1, <2>2, <2>4, <3>1, <3>3 DEF AloneAt, db, records
  <2> QED BY <2>3, <2>4
<1>11. ASSUME NEW r \in Runs, Fails(r) PROVE AloneAt(v)'
  <2>1. /\ Cleared(r, at[r]) /\ pc[r] \in Loop /\ UNCHANGED <<file, draft, clashed>>
        /\ at[r] \in Versions /\ tmp'[v] \in {tmp[v], None}
    BY <1>0, <1>11, VersionFacts DEF Fails, PcOK, LoopOK, SharedOK, Loop
  <2>2. \A q \in Runs \ {r} : at[q] = v => inode'[q] = inode[q]
    <3>1. AloneAt(v)
      BY <1>0, <2>1
    <3> QED BY <1>11, <3>1 DEF Fails, Writers, AloneAt
  <2> QED BY <1>3, <2>1, <2>2
<1>12. ASSUME NEW r \in Runs, Replace(r) PROVE AloneAt(v)'
  <2>1. /\ pc[r] = "replace" /\ at[r] \in Versions /\ pc'[r] = "inspect"
        /\ \A q \in Runs \ {r} : pc'[q] = pc[q]
        /\ UNCHANGED <<db, at, draft, clashed>>
    BY <1>0, <1>12, VersionFacts DEF Replace, PcOK, LoopOK, Loop
  <2>2. AloneAt(v)
    BY <1>0, <2>1
  <2>3. CASE at[r] # v
    <3>1. tmp'[v] = tmp[v] /\ file'[v] = file[v]
      BY <1>0, <1>12, <2>3 DEF Replace, SharedOK
    <3>2. \A q \in Runs : at[q] = v => inode'[q] = inode[q]
      BY <1>12, <2>3 DEF Replace, Writers
    <3> QED BY <2>1, <2>2, <2>3, <3>1, <3>2, AloneKept DEF db, records
  <2>4. CASE at[r] = v
    <3>1. file'[v] = tmp[v] /\ tmp[v] # "part"
      BY <1>0, <1>12, <2>1, <2>2, <2>4 DEF Replace, SharedOK, AloneAt
    <3>2. \A q \in Runs : at[q] = v => q = r
      BY <2>2, <2>4 DEF AloneAt
    <3> QED BY <2>1, <2>2, <3>1, <3>2 DEF AloneAt, db, records
  <2> QED BY <2>3, <2>4
<1>13. ASSUME NEW r \in Runs, Record(r) \/ Refuse(r) PROVE AloneAt(v)'
  <2>1. /\ Cleared(r, at[r]) /\ pc[r] \in Loop /\ UNCHANGED <<maps, inode, clashed>>
        /\ at[r] \in Versions
        /\ draft' = draft \/ draft' = [draft EXCEPT ![r][at[r]] = file[at[r]]]
    BY <1>0, <1>13, VersionFacts DEF Record, Refuse, PcOK, LoopOK, Loop
  <2>2. \A q \in Runs : draft'[q][v] \in {draft[q][v], file[v]}
    BY <1>0, <2>1 DEF LoopOK
  <2> QED BY <1>3, <2>1, <2>2 DEF maps
<1>14. ASSUME NEW r \in Runs,
              \/ FileLost(r) \/ LoopLocked(r) \/ Commit(r) \/ Discard(r)
              \/ RequestFails(r) \/ IngestLocked(r) \/ DiscardLocked(r) \/ Kill(r)
       PROVE  AloneAt(v)'
  <2>1. UNCHANGED <<maps, clashed>> /\ (UNCHANGED records \/ Applied(r))
    BY <1>14 DEF FileLost, LoopLocked, Raises, Commit, Discard, RequestFails, IngestLocked,
                 DiscardLocked, Kill, GivesUp, RolledBack, db
  <2>2. CASE Ended(r)
    BY <1>1, <2>1, <2>2
  <2>3. CASE ~Ended(r)
    <3>1. /\ pc' = [pc EXCEPT ![r] = "discard"] /\ pc[r] # "write"
          /\ draft' \in {draft, [draft EXCEPT ![r] = [w \in Versions |-> None]]}
          /\ at' \in {at, [at EXCEPT ![r] = 0]}
          /\ inode' \in {inode, [inode EXCEPT ![r] = None]}
      BY <1>14, <2>3 DEF FileLost, LoopLocked, Raises, Commit, Discard, RequestFails, IngestLocked,
                         DiscardLocked, Kill, GivesUp, RolledBack
    <3>2. \A q \in Runs : at'[q] = v =>
             /\ at[q] = v
             /\ pc'[q] \in {"write", "replace"} => pc'[q] = pc[q] /\ inode'[q] = inode[q]
      BY <1>0, <3>1 DEF PcOK, LoopOK
    <3>3. \A q \in Runs : draft'[q][v] \in {draft[q][v], None}
      BY <1>0, <3>1 DEF LoopOK
    <3>4. \/ newest'[v] = newest[v] /\ artifacts'[v] = artifacts[v]
          \/ /\ newest'[v] \in {newest[v], draft[r][v]}
             /\ artifacts'[v] \subseteq artifacts[v] \cup {draft[r][v]}
      BY <2>1, AppliedFacts DEF records
    <3> QED BY <1>0, <2>1, <3>2, <3>3, <3>4, AloneKept DEF maps
  <2> QED BY <2>2, <2>3
<1>15. ASSUME NEW w \in Versions, DeleteFile(w) PROVE AloneAt(v)'
  <2>1. /\ UNCHANGED <<records, tmp, pc, at, draft, clashed>>
        /\ file'[v] \in {file[v], None}
    BY <1>0, <1>15 DEF DeleteFile, SharedOK, db
  <2>2. \A q \in Runs : at[q] = v /\ pc[q] \in {"write", "replace"} => inode'[q] = inode[q]
    <3>1. AloneAt(v)
      BY <1>0, <2>1
    <3> QED BY <1>0, <1>15, <3>1 DEF DeleteFile, Writers, AloneAt, PcOK, None
  <2> QED BY <1>0, <2>1, <2>2, AloneKept DEF records
<1>16. ASSUME \/ Publish
              \/ \E w \in Versions, behind \in BOOLEAN, keep \in BOOLEAN : IngestLog(w, behind, keep)
       PROVE  AloneAt(v)'
  <2>1. UNCHANGED <<maps, records, at, inode, draft, clashed, pc>>
    BY <1>16 DEF Publish, IngestLog, db, loop
  <2> QED BY <1>2, <2>1
<1>17. CASE UNCHANGED vars
  BY <1>2, <1>17 DEF vars, db, loop
<1>18. ASSUME NEW r \in Runs, Step(r) PROVE AloneAt(v)'
  BY <1>5, <1>6, <1>7, <1>8, <1>9, <1>10, <1>11, <1>12, <1>13, <1>14, <1>18 DEF Step
<1> QED BY <1>4, <1>14, <1>15, <1>16, <1>17, <1>18 DEF Next

-----------------------------------------------------------------------------
\* The inductive invariant: who owns a signed URL and where that command is, and
\* that a version nobody else downloads is whole in every file and row.
THEOREM Inductive == Spec => []IInv
<1>1. IInv /\ [Next]_vars => IInv'
  BY TypeStep, OwnedStep, RoutedStep, AloneStep DEF IInv
<1> QED BY InitIInv, <1>1, PTL DEF Spec

\* The map commands are well typed, whatever overlaps, fails or is killed.
THEOREM TypeCorrect == Spec => []TypeOK
<1>1. IInv => TypeOK
  BY DEF IInv
<1> QED BY <1>1, Inductive, PTL

\* download_map_artifacts_and_discard and the routes before it leave no URL in
\* the database that a command which ended on its own has put there.
THEOREM UrlsDiscarded == Spec => []UrlsAreTransient
<1>1. IInv => UrlsAreTransient
  BY DEF IInv, Owned, UrlsAreTransient
<1> QED BY <1>1, Inductive, PTL

\* Wherever download_map_artifacts is interrupted, the newest row of a version
\* that it alone downloaded has the digest of the file, if there is one.
THEOREM RowAgrees == Spec => []RowMatchesFile
<1>1. IInv => RowMatchesFile
  <2> SUFFICES ASSUME IInv, NEW v \in Versions \ clashed, newest[v] # None
               PROVE  file[v] \in {None, newest[v]}
    BY DEF RowMatchesFile
  <2>1. file[v] \in Content \cup {None} /\ newest[v] \in Content
    BY DEF IInv, TypeOK
  <2>2. file[v] # "part" /\ newest[v] # "part"
    BY DEF IInv, Alone
  <2> QED BY <2>1, <2>2 DEF Content
<1> QED BY <1>1, Inductive, PTL
=============================================================================
