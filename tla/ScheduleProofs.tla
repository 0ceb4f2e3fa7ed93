--------------------------- MODULE ScheduleProofs ---------------------------
(***************************************************************************)
(* Proofs about Schedule, for any schedules, maps, trails, reports and     *)
(* arguments, and any number of snapshots and runs.                        *)
(***************************************************************************)
EXTENDS Schedule, Induction, SequenceTheorems, TLAPS

\* Numbers in order: each of the set once, ascending.
LEMMA NumbersInOrder ==
    ASSUME NEW S \in SUBSET Int, IsFiniteSet(S)
    PROVE  /\ Cardinality(S) \in Nat
           /\ InOrder(S, <) \in [1..Cardinality(S) -> S]
           /\ \A x \in S : \E k \in 1..Cardinality(S) : InOrder(S, <)[k] = x
           /\ \A i, j \in 1..Cardinality(S) : i < j => InOrder(S, <)[i] < InOrder(S, <)[j]
<1> DEFINE R == {p \in Int \X Int : p[1] < p[2]}
           f == InOrder(S, <)
<1>1. \A x, y \in S : <<x, y>> \in R <=> x < y
  OBVIOUS
<1>2. \A x \in S : {y \in S : <<y, x>> \in R} = {y \in S : y < x}
  BY <1>1
<1>3. /\ \A x \in S : <<x, x>> \notin R
      /\ \A x, y \in S : x = y \/ <<x, y>> \in R \/ <<y, x>> \in R
      /\ \A x, y, z \in S : <<x, y>> \in R /\ <<y, z>> \in R => <<x, z>> \in R
  <2>1. \A x, y, z \in S : x \in Int /\ y \in Int /\ z \in Int
    OBVIOUS
  <2> HIDE DEF R
  <2> QED BY <1>1, <2>1
<1>4. f = [k \in 1..Cardinality(S) |-> CHOOSE x \in S : Cardinality({y \in S : y < x}) = k - 1]
  BY DEF InOrder
<1>5. f = [k \in 1..Cardinality(S) |-> f[k]]
  <2> DEFINE kth(k) == CHOOSE x \in S : Cardinality({y \in S : y < x}) = k - 1
  <2>1. f = [k \in 1..Cardinality(S) |-> kth(k)]
    BY <1>4
  <2> HIDE DEF f, kth
  <2> QED BY <2>1
<1> HIDE DEF f, R
<1>6. ASSUME NEW k \in 1..Cardinality(S), NEW x \in S,
             Cardinality({y \in S : <<y, x>> \in R}) = k - 1
      PROVE  f[k] \in S /\ Cardinality({y \in S : <<y, f[k]>> \in R}) = k - 1
  <2>1. Cardinality({y \in S : y < x}) = k - 1
    BY <1>2, <1>6
  <2>2. f[k] \in S /\ Cardinality({y \in S : y < f[k]}) = k - 1
    BY <1>4, <2>1
  <2> QED BY <1>2, <2>2
<1>7. /\ Cardinality(S) \in Nat
      /\ f \in [1..Cardinality(S) -> S]
      /\ \A x \in S : \E k \in 1..Cardinality(S) : f[k] = x
      /\ \A i, j \in 1..Cardinality(S) : i < j => <<f[i], f[j]>> \in R
  BY <1>3, <1>5, <1>6, RankFacts
<1> QED BY <1>1, <1>7 DEF f

\* A sum is the last of its partial sums.
LEMMA TotalRecursion ==
    ASSUME NEW f \in Seq(Int)
    PROVE  \E sum \in [0..Len(f) -> Int] :
              /\ sum[0] = 0
              /\ \A n \in 1..Len(f) : sum[n] = sum[n - 1] + f[n]
              /\ Total(f) = sum[Len(f)]
<1> DEFINE G == [p \in (1..Len(f)) \X Int |-> p[2] + f[p[1]]]
           Sums(sum) == sum = [n \in 0..Len(f) |-> IF n = 0 THEN 0 ELSE sum[n - 1] + f[n]]
<1>1. Len(f) \in Nat /\ \A n \in 1..Len(f) : f[n] \in Int
  OBVIOUS
<1>2. G \in [(1..Len(f)) \X Int -> Int]
  BY <1>1
<1>3. \A n \in 1..Len(f), i \in Int : G[<<n, i>>] = i + f[n]
  OBVIOUS
<1> HIDE DEF G
<1>4. PICK sum \in [0..Len(f) -> Int] :
         sum[0] = 0 /\ \A n \in 1..Len(f) : sum[n] = G[<<n, sum[n - 1]>>]
  <2>1. \E sum : RecursionOf(sum, Int, 0, Len(f), G)
    BY <1>1, <1>2, 0 \in Int, RecursionExists
  <2> QED BY <2>1 DEF RecursionOf
<1>5. Sums(sum)
  <2>1. \A n \in 0..Len(f) : n # 0 => n \in 1..Len(f) /\ n - 1 \in 0..Len(f)
    BY <1>1
  <2>2. \A n \in 0..Len(f) : sum[n] = IF n = 0 THEN 0 ELSE sum[n - 1] + f[n]
    BY <1>3, <1>4, <2>1
  <2> QED BY <1>4, <2>2
<1> DEFINE chosen == CHOOSE s : Sums(s)
<1>6. Total(f) = chosen[Len(f)]
  BY DEF Total
<1>7. Sums(chosen)
  BY <1>5
<1> HIDE DEF chosen
<1>8. chosen = sum
  <2> DEFINE Same == {n \in 0..Len(f) : chosen[n] = sum[n]}
  <2>1. 0 \in Same
    BY <1>1, <1>5, <1>7
  <2>2. ASSUME NEW n \in 1..Len(f), n - 1 \in Same PROVE n \in Same
    <3>1. n \in 0..Len(f) /\ n # 0
      BY <1>1
    <3>2. chosen[n] = chosen[n - 1] + f[n] /\ sum[n] = sum[n - 1] + f[n]
      BY <1>5, <1>7, <3>1
    <3> QED BY <2>2, <3>1, <3>2
  <2> HIDE DEF Same
  <2>3. 0..Len(f) \subseteq Same
    BY <1>1, <2>1, <2>2, NatsUpTo
  <2> QED BY <1>5, <1>7, <2>3 DEF Same
<1>9. sum[0] = 0 /\ \A n \in 1..Len(f) : sum[n] = sum[n - 1] + f[n]
  BY <1>1, <1>5
<1> QED BY <1>6, <1>8, <1>9

LEMMA TotalType == ASSUME NEW f \in Seq(Int) PROVE Total(f) \in Int
<1>1. Len(f) \in 0..Len(f)
  OBVIOUS
<1> QED BY <1>1, TotalRecursion

-----------------------------------------------------------------------------
\* What a capture and the store hold.
Plan == [Days -> Seq([start : Nat, end : Nat, areas : SUBSET Nat, mode : {"custom", "all_zones"}])]

LEMMA ScheduleType == Schedules \subseteq Plan /\ Logs \subseteq Seq(Schedules)
<1>1. \A log \in Logs : log \in Seq(Plan)
  BY ScheduleAssumption DEF Plan
<1>2. Schedules \subseteq Plan
  BY <1>1 DEF Schedules, ToSet
<1>3. ASSUME NEW log \in Logs PROVE log \in Seq(Schedules)
  <2>1. \A i \in 1..Len(log) : log[i] \in Schedules
    BY <1>1 DEF Schedules, ToSet
  <2> QED BY <1>1, <2>1
<1> QED BY <1>2, <1>3

LEMMA UniqueType == ASSUME NEW log \in Logs PROVE Unique(log) \in Seq(Schedules)
<1> DEFINE S == {i \in DOMAIN log : \A j \in 1..(i - 1) : log[j] # log[i]}
           kept == InOrder(S, <)
<1>1. log \in Seq(Schedules)
  BY ScheduleType
<1>2. IsFiniteSet(1..Len(log)) /\ Len(log) \in Nat
  <2>1. Len(log) \in Nat
    BY <1>1
  <2> QED BY <2>1, FS_Interval, 1 \in Int
<1>3. S \in SUBSET (1..Len(log)) /\ S \in SUBSET Int
  BY <1>1
<1> HIDE DEF S
<1>4. IsFiniteSet(S)
  BY <1>2, <1>3, FS_Subset
<1>5. kept \in [1..Cardinality(S) -> S] /\ Cardinality(S) \in Nat
  BY <1>3, <1>4, NumbersInOrder
<1>6. Unique(log) = [k \in DOMAIN kept |-> log[kept[k]]]
  BY DEF Unique, S
<1> HIDE DEF kept
<1>7. \A k \in 1..Cardinality(S) : log[kept[k]] \in Schedules
  <2>1. \A i \in 1..Len(log) : log[i] \in Schedules
    BY <1>1
  <2>2. \A k \in 1..Cardinality(S) : kept[k] \in 1..Len(log)
    BY <1>3, <1>5
  <2> QED BY <2>1, <2>2
<1>8. DOMAIN kept = 1..Cardinality(S)
  BY <1>5
<1> QED BY <1>5, <1>6, <1>7, <1>8

LEMMA CustomPeriodsType == ASSUME NEW s \in Schedules PROVE CustomPeriods(s) \in Int
<1> DEFINE Custom(d) == {i \in DOMAIN s[d] : s[d][i].areas # {}}
           f == [d \in Days |-> Cardinality(Custom(d))]
<1>1. s \in Plan
  BY ScheduleType
<1>2. ASSUME NEW d \in Days PROVE Cardinality(Custom(d)) \in Int
  <2>1. DOMAIN s[d] = 1..Len(s[d]) /\ Len(s[d]) \in Int /\ 1 \in Int
    BY <1>1 DEF Plan
  <2>2. IsFiniteSet(DOMAIN s[d])
    BY <2>1, FS_Interval
  <2>3. IsFiniteSet(Custom(d))
    BY <2>2, FS_Subset
  <2>4. Cardinality(Custom(d)) \in Nat
    BY <2>3, FS_CardinalityType
  <2> QED BY <2>4
<1> HIDE DEF Custom
<1>3. f \in Seq(Int)
  BY <1>2 DEF Days
<1>4. CustomPeriods(s) = Total(f)
  BY DEF CustomPeriods, Custom
<1> HIDE DEF f
<1> QED BY <1>3, <1>4, TotalType

\* load_schedule finds one of the snapshots, and none has more custom periods or as
\* many and came later.
LEMMA LoadedFacts ==
    ASSUME snapshots \in Seq(Schedules), snapshots # <<>>
    PROVE  /\ Loaded \in DOMAIN snapshots
           /\ \A i \in DOMAIN snapshots : CustomPeriods(snapshots[i]) \in Int
           /\ \A j \in DOMAIN snapshots \ {Loaded} :
                 \/ CustomPeriods(snapshots[j]) < CustomPeriods(snapshots[Loaded])
                 \/ CustomPeriods(snapshots[j]) = CustomPeriods(snapshots[Loaded]) /\ j < Loaded
<1> DEFINE S == DOMAIN snapshots
           Count(i) == CustomPeriods(snapshots[i])
           Over(i, j) == Count(j) < Count(i) \/ (Count(j) = Count(i) /\ j < i)
           R == {p \in S \X S : p[1] = p[2] \/ Over(p[2], p[1])}
<1>1. S = 1..Len(snapshots) /\ S # {} /\ Len(snapshots) \in Int /\ 1 \in Int
  OBVIOUS
<1>2. IsFiniteSet(S)
  BY <1>1, FS_Interval
<1>3. \A i \in S : Count(i) \in Int /\ i \in Int
  BY CustomPeriodsType
<1> HIDE DEF Count, S
<1>4. \A j, i \in S : <<j, i>> \in R <=> j = i \/ Over(i, j)
  OBVIOUS
<1>5. \A i, j \in S : i = j \/ Over(i, j) \/ Over(j, i)
  BY <1>3
<1>6. \A i, j, k \in S : Over(j, i) /\ Over(k, j) => Over(k, i)
  BY <1>3
<1> HIDE DEF R, Over
<1>7. \E i \in S : \A j \in S : <<j, i>> \in R
  <2>1. /\ \A i, j \in S : <<i, j>> \in R \/ <<j, i>> \in R
        /\ \A i, j, k \in S : <<i, j>> \in R /\ <<j, k>> \in R => <<i, k>> \in R
    BY <1>4, <1>5, <1>6
  <2> QED BY <1>1, <1>2, <2>1, GreatestBy
<1>8. \E i \in S : \A j \in S \ {i} : Over(i, j)
  BY <1>4, <1>7
<1>9. Loaded = CHOOSE i \in S : \A j \in S \ {i} : Over(i, j)
  BY DEF Loaded, S, Over, Count
<1>10. Loaded \in S /\ \A j \in S \ {Loaded} : Over(Loaded, j)
  BY <1>8, <1>9
<1> QED BY <1>3, <1>10 DEF S, Over, Count

\* If none of the older ones has more, it finds the newest.
LEMMA LoadedNewest ==
    ASSUME snapshots \in Seq(Schedules), snapshots # <<>>,
           \A i \in DOMAIN snapshots :
              CustomPeriods(snapshots[i]) <= CustomPeriods(snapshots[Len(snapshots)])
    PROVE  Loaded = Len(snapshots)
<1>1. DOMAIN snapshots = 1..Len(snapshots) /\ Len(snapshots) \in 1..Len(snapshots)
  OBVIOUS
<1> DEFINE n == Len(snapshots)
           Count(i) == CustomPeriods(snapshots[i])
<1>2. /\ Loaded \in 1..n /\ Count(Loaded) \in Int /\ Count(n) \in Int
      /\ Count(Loaded) <= Count(n)
      /\ n # Loaded => Count(n) < Count(Loaded) \/ (Count(n) = Count(Loaded) /\ n < Loaded)
  BY <1>1, LoadedFacts
<1>3. n \in Int /\ \A i \in 1..n : i \in Int /\ i <= n
  BY <1>1
<1> HIDE DEF Count, n
<1>4. CASE n # Loaded
  BY <1>2, <1>3, <1>4
<1> QED BY <1>4 DEF n

-----------------------------------------------------------------------------
(* The inductive invariant.                                                *)

\* A draft holds what was exported, but for the days that were changed.
OfItsBase(d) ==
    /\ DOMAIN d.days = Days
    /\ d.base # 0 => \A day \in Days \ d.edited : d.days[day] = snapshots[d.base][day]

JobInv ==
    job # NoJob =>
        /\ job.command \in {"optimize", "optimize-weekly"} /\ file.base # 0
        /\ job.command = "optimize" => job.args \in DayArgs
        /\ job.command = "optimize-weekly" => job.args \in WeekArgs
        /\ OfItsBase(job.draft) /\ job.draft.base # 0
        /\ ~missed /\ ~job.draft.warned => job.draft.base = Loaded

StoreInv ==
    /\ snapshots \in Seq(Schedules) /\ trails \in Seq(TrailSets)
    /\ Len(snapshots) + Len(trails) <= MaxStored

IInv == TypeOK /\ StoreInv /\ OfItsBase(file) /\ JobInv

LEMMA InitInv == Init => IInv
<1> SUFFICES ASSUME Init PROVE IInv
  OBVIOUS
<1>1. /\ snapshots = <<>> /\ trails = <<>> /\ map \in Maps /\ report \in Reports
      /\ file = NoDraft /\ output = NoDraft /\ job = NoJob /\ outcome = ""
      /\ runs = 0 /\ missed = FALSE
  BY DEF Init
<1>2. /\ Len(snapshots) = 0 /\ 0 \in 0..0 /\ DOMAIN snapshots = {} /\ DOMAIN trails = {}
      /\ snapshots \in Seq(Schedules) /\ trails \in Seq(TrailSets)
  <2>1. <<>> \in Seq(Schedules) /\ <<>> \in Seq(TrailSets) /\ Len(<<>>) = 0
    BY EmptySeq
  <2>2. DOMAIN <<>> = {}
    OBVIOUS
  <2>3. 0 \in 0..0
    OBVIOUS
  <2> QED BY <1>1, <2>1, <2>2, <2>3, Zenon
<1>3. IsDraft(NoDraft)
  <2>1. \A day \in Days : DOMAIN NoDraft.days[day] = {}
    BY DEF NoDraft
  <2>2. /\ DOMAIN NoDraft = {"base", "days", "plan", "warned", "edited"}
        /\ NoDraft.base = 0 /\ NoDraft.plan = "none" /\ NoDraft.warned = FALSE
        /\ NoDraft.edited = {}
    BY DEF NoDraft
  <2> QED BY <1>2, <2>1, <2>2 DEF IsDraft
<1>4. OfItsBase(NoDraft)
  BY DEF NoDraft, OfItsBase
<1>5. TypeOK
  <2>1. 0 \in 0..MaxSnapshots /\ 0 \in 0..MaxRuns
    BY ScheduleAssumption
  <2> QED BY <1>1, <1>2, <1>3, <2>1 DEF TypeOK, Outcomes
<1>6. StoreInv
  <2>1. Len(trails) = 0 /\ MaxStored \in Nat
    BY <1>1, EmptySeq, ScheduleAssumption
  <2> QED BY <1>2, <2>1 DEF StoreInv
<1>7. JobInv
  BY <1>1 DEF JobInv
<1> QED BY <1>1, <1>4, <1>5, <1>6, <1>7 DEF IInv

\* What is appended to the snapshots leaves a draft what it is.
LEMMA DraftStays ==
    ASSUME snapshots \in Seq(Schedules), NEW t \in Seq(Schedules), snapshots' = snapshots \o t,
           NEW CONSTANT d
    PROVE  /\ snapshots' \in Seq(Schedules)
           /\ IsDraft(d) => IsDraft(d)'
           /\ IsDraft(d) /\ OfItsBase(d) => OfItsBase(d)'
<1>1. /\ snapshots' \in Seq(Schedules) /\ Len(snapshots) \in Nat /\ Len(snapshots') \in Nat
      /\ Len(snapshots) <= Len(snapshots')
      /\ \A i \in 1..Len(snapshots) : snapshots'[i] = snapshots[i]
  OBVIOUS
<1>2. IsDraft(d) => IsDraft(d)'
  BY <1>1 DEF IsDraft
<1>3. IsDraft(d) /\ OfItsBase(d) => OfItsBase(d)'
  <2> SUFFICES ASSUME IsDraft(d), OfItsBase(d), d.base # 0, NEW day \in Days \ d.edited
               PROVE  d.days[day] = snapshots'[d.base][day]
    BY DEF OfItsBase
  <2>1. d.base \in 1..Len(snapshots)
    BY <1>1 DEF IsDraft
  <2> QED BY <1>1, <2>1 DEF OfItsBase
<1> QED BY <1>1, <1>2, <1>3

LEMMA CaptureStep == ASSUME IInv, NEW log \in Logs, Capture(log) PROVE IInv'
<1>1. /\ snapshots \in Seq(Schedules) /\ Unique(log) \in Seq(Schedules)
      /\ snapshots' = snapshots \o Unique(log) /\ Len(snapshots') <= MaxSnapshots
      /\ Len(snapshots') + Len(trails) <= MaxStored
      /\ missed' = (job # NoJob)
      /\ UNCHANGED <<map, trails, report, file, output, job, outcome, runs>>
  BY UniqueType DEF IInv, StoreInv, Capture, Bounded
<1>2. /\ snapshots' \in Seq(Schedules) /\ Len(snapshots') \in 0..MaxSnapshots
      /\ \A i \in DOMAIN snapshots' : snapshots'[i] \in Schedules
  <2>1. snapshots' \in Seq(Schedules)
    BY <1>1
  <2>2. Len(snapshots') \in Nat /\ MaxSnapshots \in Nat
    BY <2>1, ScheduleAssumption
  <2> QED BY <1>1, <2>1, <2>2
<1>3. IsDraft(file) /\ IsDraft(output) /\ (job # NoJob => IsDraft(job.draft)) /\ OfItsBase(file)
  BY DEF IInv, TypeOK
<1>4. /\ IsDraft(file)' /\ IsDraft(output)' /\ (job # NoJob => IsDraft(job.draft)')
      /\ OfItsBase(file)'
  <2>1. \A d : /\ IsDraft(d) => IsDraft(d)'
               /\ IsDraft(d) /\ OfItsBase(d) => OfItsBase(d)'
    BY <1>1, DraftStays
  <2> QED BY <1>1, <1>3, <2>1 DEF IsDraft, OfItsBase
<1>5. TypeOK'
  BY <1>1, <1>2, <1>4 DEF IInv, TypeOK
<1>6. StoreInv'
  BY <1>1, <1>2 DEF IInv, StoreInv
<1>7. JobInv'
  <2>1. \A d : IsDraft(d) /\ OfItsBase(d) => OfItsBase(d)'
    BY <1>1, DraftStays
  <2>2. job # NoJob => OfItsBase(job.draft)'
    BY <1>1, <1>3, <2>1 DEF IInv, JobInv, IsDraft, OfItsBase
  <2> QED BY <1>1, <2>2 DEF IInv, JobInv
<1> QED BY <1>4, <1>5, <1>6, <1>7 DEF IInv

LEMMA TrailsStep == ASSUME IInv, NEW entries \in TrailSets, Trails(entries) PROVE IInv'
<1>1. /\ trails \in Seq(TrailSets) /\ trails' = Append(trails, entries)
      /\ Len(snapshots) + Len(trails') <= MaxStored
      /\ UNCHANGED <<snapshots, map, report, file, output, job, outcome, runs, missed>>
  BY DEF IInv, StoreInv, Trails, history, Bounded
<1>2. trails' \in Seq(TrailSets) /\ \A i \in DOMAIN trails' : trails'[i] \in TrailSets
  BY <1>1
<1>3. TypeOK'
  BY <1>1, <1>2 DEF IInv, TypeOK, IsDraft
<1>4. StoreInv' /\ OfItsBase(file)'
  BY <1>1, <1>2 DEF IInv, StoreInv, OfItsBase
<1>5. JobInv'
  BY <1>1 DEF IInv, JobInv, OfItsBase, Loaded
<1> QED BY <1>3, <1>4, <1>5 DEF IInv

LEMMA ReportStep == ASSUME IInv, NEW r \in Reports, Report(r) PROVE IInv'
<1>1. /\ report' = r
      /\ UNCHANGED <<snapshots, map, trails, file, output, job, outcome, runs, missed>>
  BY DEF Report, history
<1>2. TypeOK'
  BY <1>1 DEF IInv, TypeOK, IsDraft
<1>3. StoreInv' /\ OfItsBase(file)'
  BY <1>1 DEF IInv, StoreInv, OfItsBase
<1>4. JobInv'
  BY <1>1 DEF IInv, JobInv, OfItsBase, Loaded
<1> QED BY <1>2, <1>3, <1>4 DEF IInv

-----------------------------------------------------------------------------
(* The commands.                                                           *)

\* What a command writes has the periods that IsDraft asks for.
LEMMA ValidModes ==
    ASSUME NEW days, Valid(days)
    PROVE  \A day \in Days : \A i \in DOMAIN days[day] : days[day][i].mode \in {"custom", "all_zones"}
  BY DEF Valid, ValidPeriod

LEMMA PlanModes ==
    ASSUME NEW days \in Plan
    PROVE  \A day \in Days : \A i \in DOMAIN days[day] : days[day][i].mode \in {"custom", "all_zones"}
<1> DEFINE Periods == [start : Nat, end : Nat, areas : SUBSET Nat, mode : {"custom", "all_zones"}]
<1> SUFFICES ASSUME NEW day \in Days, NEW i \in DOMAIN days[day]
             PROVE  days[day][i].mode \in {"custom", "all_zones"}
  OBVIOUS
<1>1. days[day] \in Seq(Periods)
  BY DEF Plan
<1>2. \A p \in Periods : p.mode \in {"custom", "all_zones"}
  OBVIOUS
<1> HIDE DEF Periods
<1>3. days[day][i] \in Periods
  BY <1>1
<1> QED BY <1>2, <1>3

LEMMA ExportStep == ASSUME IInv, Export PROVE IInv'
<1>1. /\ job = NoJob /\ snapshots # <<>> /\ outcome' = "written"
      /\ file' = [NoDraft EXCEPT !.base = Loaded, !.days = snapshots[Loaded]]
      /\ UNCHANGED <<snapshots, map, trails, report, output, job, runs, missed>>
  BY DEF Export, Ends, store, history
<1>2. Loaded \in 1..Len(snapshots) /\ snapshots[Loaded] \in Plan
  <2>1. snapshots \in Seq(Schedules)
    BY DEF IInv, StoreInv
  <2>2. Loaded \in DOMAIN snapshots
    BY <1>1, <2>1, LoadedFacts
  <2> QED BY <2>1, <2>2, ScheduleType
<1>3. /\ DOMAIN file' = {"base", "days", "plan", "warned", "edited"}
      /\ file'.base = Loaded /\ file'.days = snapshots[Loaded] /\ file'.plan = "none"
      /\ file'.warned = FALSE /\ file'.edited = {}
  BY <1>1 DEF NoDraft
<1>4. IsDraft(file)'
  <2>1. \A day \in Days : \A i \in DOMAIN snapshots[Loaded][day] :
           snapshots[Loaded][day][i].mode \in {"custom", "all_zones"}
    BY <1>2, PlanModes
  <2>2. Loaded \in 0..Len(snapshots')
    BY <1>1, <1>2
  <2> QED BY <1>3, <2>1, <2>2 DEF IsDraft
<1>5. OfItsBase(file)'
  BY <1>1, <1>2, <1>3 DEF OfItsBase, Plan
<1>6. file'.base # 0 /\ Len(snapshots) \in Nat
  BY <1>2, <1>3 DEF IInv, StoreInv
<1>7. TypeOK'
  BY <1>1, <1>4, <1>6 DEF IInv, TypeOK, IsDraft, Outcomes
<1>8. StoreInv' /\ JobInv'
  BY <1>1 DEF IInv, StoreInv, JobInv
<1> QED BY <1>5, <1>7, <1>8 DEF IInv

LEMMA AddPeriodStep ==
    ASSUME IInv, NEW addition \in Additions, NEW replace \in BOOLEAN,
           AddPeriod(addition[1], addition[2], replace)
    PROVE  IInv'
<1> DEFINE day  == addition[1]
           days == Added(file.days, day, addition[2], replace)
<1>1. /\ job = NoJob /\ file.base # 0 /\ day \in Days
      /\ UNCHANGED <<snapshots, map, trails, report, output, job, runs, missed>>
  BY ScheduleAssumption DEF AddPeriod, Ends, store, history
<1>2. CASE Valid(days)
  <2>1. file' = [file EXCEPT !.days = days, !.edited = @ \cup {day}] /\ outcome' = "written"
    BY <1>2 DEF AddPeriod, Ends
  <2>2. IsDraft(file) /\ OfItsBase(file)
    BY DEF IInv, TypeOK
  <2>3. DOMAIN days = Days /\ \A d \in Days : d # day => days[d] = file.days[d]
    BY <2>2 DEF Added, OfItsBase
  <2> HIDE DEF days, day
  <2>4. /\ DOMAIN file' = {"base", "days", "plan", "warned", "edited"}
        /\ file'.base = file.base /\ file'.days = days /\ file'.plan = file.plan
        /\ file'.warned = file.warned /\ file'.edited = file.edited \cup {day}
    BY <2>1, <2>2 DEF IsDraft
  <2>5. IsDraft(file)'
    BY <1>1, <1>2, <2>2, <2>4, ValidModes DEF IsDraft
  <2>6. OfItsBase(file)'
    BY <1>1, <2>2, <2>3, <2>4 DEF OfItsBase
  <2>7. TypeOK'
    BY <1>1, <2>1, <2>4, <2>5 DEF IInv, TypeOK, IsDraft, Outcomes
  <2>8. StoreInv' /\ JobInv'
    BY <1>1 DEF IInv, StoreInv, JobInv
  <2> QED BY <2>6, <2>7, <2>8 DEF IInv
<1>3. CASE ~Valid(days)
  <2>1. UNCHANGED file /\ outcome' = "invalid"
    BY <1>3 DEF AddPeriod, Ends
  <2>2. TypeOK'
    BY <1>1, <2>1 DEF IInv, TypeOK, IsDraft, Outcomes
  <2>3. StoreInv' /\ OfItsBase(file)' /\ JobInv'
    BY <1>1, <2>1 DEF IInv, StoreInv, JobInv, OfItsBase
  <2> QED BY <2>2, <2>3 DEF IInv
<1> QED BY <1>2, <1>3

LEMMA BeginStep ==
    ASSUME IInv, NEW command \in {"optimize", "optimize-weekly"}, NEW args,
           command = "optimize" => args \in DayArgs,
           command = "optimize-weekly" => args \in WeekArgs,
           NEW warn \in BOOLEAN, NEW ignore \in BOOLEAN, Begin(command, args, warn, ignore)
    PROVE  IInv'
<1>1. /\ job = NoJob /\ file.base # 0 /\ runs < MaxRuns
      /\ UNCHANGED <<snapshots, map, trails, report, file, output>>
  BY DEF Begin, Ends, store
<1>2. CASE Valid(file.days) /\ (warn \/ ~Stale(file))
  <2> DEFINE draft == [file EXCEPT !.warned = Stale(file)]
  <2>1. /\ job' = [command |-> command, args |-> args, ignore |-> ignore, draft |-> draft]
        /\ missed' = FALSE /\ runs' = runs + 1 /\ outcome' = outcome
    BY <1>2 DEF Begin
  <2>2. IsDraft(file) /\ OfItsBase(file)
    BY DEF IInv, TypeOK
  <2>3. /\ DOMAIN draft = {"base", "days", "plan", "warned", "edited"}
        /\ draft.base = file.base /\ draft.days = file.days /\ draft.plan = file.plan
        /\ draft.warned = (file.base # Loaded) /\ draft.edited = file.edited
    BY <2>2 DEF IsDraft, Stale
  <2> HIDE DEF draft
  <2>4. job'.command = command /\ job'.args = args /\ job'.draft = draft
    BY <2>1
  <2>5. IsDraft(job.draft)' /\ OfItsBase(job.draft)'
    BY <1>1, <2>2, <2>3, <2>4 DEF IsDraft, OfItsBase
  <2>6. Valid(job'.draft.days)
    BY <1>2, <2>3, <2>4
  <2>7. TypeOK'
    <3>1. runs + 1 \in 0..MaxRuns
      BY <1>1, ScheduleAssumption DEF IInv, TypeOK
    <3> QED BY <1>1, <2>1, <2>5, <2>6, <3>1 DEF IInv, TypeOK, IsDraft
  <2>8. Loaded' = Loaded
    BY <1>1 DEF Loaded
  <2>9. JobInv'
    BY <1>1, <2>3, <2>4, <2>5, <2>8 DEF JobInv
  <2>10. StoreInv' /\ OfItsBase(file)'
    BY <1>1 DEF IInv, StoreInv, OfItsBase
  <2> QED BY <2>7, <2>9, <2>10 DEF IInv
<1>3. CASE ~(Valid(file.days) /\ (warn \/ ~Stale(file)))
  <2>1. UNCHANGED <<job, runs, missed>> /\ outcome' \in {"stale", "invalid"}
    BY <1>3 DEF Begin, Ends, history
  <2>2. TypeOK'
    BY <1>1, <2>1 DEF IInv, TypeOK, IsDraft, Outcomes
  <2>3. StoreInv' /\ OfItsBase(file)' /\ JobInv'
    BY <1>1, <2>1 DEF IInv, StoreInv, JobInv, OfItsBase
  <2> QED BY <2>2, <2>3 DEF IInv
<1> QED BY <1>2, <1>3

\* An optimizer that ends without a plan.
LEMMA EndsStep ==
    ASSUME IInv, NEW how \in Outcomes, Ends(how), UNCHANGED <<file, output>>, job' = NoJob
    PROVE  IInv'
<1>1. UNCHANGED <<snapshots, map, trails, report, runs, missed>> /\ outcome' = how
  BY DEF Ends, store, history
<1>2. TypeOK'
  BY <1>1 DEF IInv, TypeOK, IsDraft
<1>3. StoreInv' /\ OfItsBase(file)' /\ JobInv'
  BY <1>1 DEF IInv, StoreInv, JobInv, OfItsBase
<1> QED BY <1>2, <1>3 DEF IInv

\* What an optimizer writes, if it does.
LEMMA WritesStep ==
    ASSUME IInv, job # NoJob, NEW days, NEW edited \in SUBSET Days, Writes(days, edited),
           job' = NoJob, UNCHANGED file
    PROVE  IInv'
<1>1. CASE ~Valid(days)
  <2>1. Ends("unfit") /\ UNCHANGED output
    BY <1>1 DEF Writes
  <2> QED BY <2>1, EndsStep DEF Outcomes
<1>2. CASE Valid(days)
  <2>1. /\ output' = [job.draft EXCEPT !.days = days, !.plan = job.command, !.edited = edited]
        /\ UNCHANGED <<snapshots, map, trails, report, runs, missed>> /\ outcome' = "written"
    BY <1>2 DEF Writes, Ends, store, history
  <2>2. IsDraft(job.draft) /\ job.command \in {"optimize", "optimize-weekly"} /\ file.base # 0
    BY DEF IInv, TypeOK, JobInv
  <2>3. /\ DOMAIN output' = {"base", "days", "plan", "warned", "edited"}
        /\ output'.base = job.draft.base /\ output'.days = days /\ output'.plan = job.command
        /\ output'.warned = job.draft.warned /\ output'.edited = edited
    BY <2>1, <2>2 DEF IsDraft
  <2>4. IsDraft(output)'
    BY <1>2, <2>1, <2>2, <2>3, ValidModes DEF IsDraft
  <2>5. TypeOK'
    <3>1. UNCHANGED <<snapshots, map, trails, report, file, runs, missed>>
      BY <2>1
    <3>2. /\ Len(snapshots') \in 0..MaxSnapshots
          /\ \A i \in DOMAIN snapshots' : snapshots'[i] \in Schedules
          /\ map' \in Maps /\ report' \in Reports
          /\ \A i \in DOMAIN trails' : trails'[i] \in TrailSets
          /\ runs' \in 0..MaxRuns /\ missed' \in BOOLEAN
      BY <3>1 DEF IInv, TypeOK
    <3>3. IsDraft(file)'
      BY <3>1 DEF IInv, TypeOK, IsDraft
    <3>4. file'.base # 0 /\ output'.plan # "none" /\ outcome' \in Outcomes
      BY <2>1, <2>2, <2>3, <3>1 DEF Outcomes
    <3> QED BY <2>4, <3>2, <3>3, <3>4 DEF TypeOK
  <2>6. StoreInv' /\ OfItsBase(file)' /\ JobInv'
    BY <2>1 DEF IInv, StoreInv, JobInv, OfItsBase
  <2> QED BY <2>5, <2>6 DEF IInv
<1> QED BY <1>1, <1>2

LEMMA OptimizeStep == ASSUME IInv, Optimize PROVE IInv'
<1>1. job # NoJob /\ job' = NoJob /\ UNCHANGED file /\ job.args \in DayArgs
  BY DEF Optimize, NoJob, IInv, JobInv
<1>2. CASE Blocked /\ ~job.ignore
  BY <1>1, <1>2, EndsStep DEF Optimize, Outcomes
<1>3. CASE ~(Blocked /\ ~job.ignore) /\ ~DayArgsOk(job.args)
  BY <1>1, <1>3, EndsStep DEF Optimize, Outcomes
<1>4. CASE ~(Blocked /\ ~job.ignore) /\ DayArgsOk(job.args)
  <2> DEFINE edited == job.draft.edited \cup {job.args.day}
             days   == [job.draft.days EXCEPT ![job.args.day] = DayPlan(areas, job.args)]
  <2>1. Writes(days, edited)
    BY <1>4 DEF Optimize
  <2>2. edited \in SUBSET Days
    <3>1. job.args.day \in Days /\ job.draft.edited \subseteq Days
      BY <1>1, ScheduleAssumption DEF IsDayArgs, IInv, TypeOK, IsDraft
    <3> QED BY <3>1
  <2> HIDE DEF edited, days
  <2> QED BY <1>1, <2>1, <2>2, WritesStep
<1> QED BY <1>2, <1>3, <1>4

\* The plan for a week is the one of the areas known.
LEMMA PlanOfTheWeek ==
    ASSUME IInv, job.command = "optimize-weekly"
    PROVE  job.args \in WeekArgs /\ WeekPlans[areas][job.args] = WeekPlan(areas, job.args)
<1>1. job.args \in WeekArgs /\ map \in Maps
  BY DEF IInv, TypeOK, JobInv, NoJob
<1>2. trails \in BoundedSeq(TrailSets, MaxStored)
  <2>1. /\ trails \in Seq(TrailSets) /\ snapshots \in Seq(Schedules)
        /\ Len(snapshots) + Len(trails) <= MaxStored
    BY DEF IInv, StoreInv
  <2>2. Len(trails) \in 0..MaxStored /\ trails \in [1..Len(trails) -> TrailSets]
    BY <2>1, ScheduleAssumption
  <2> QED BY <2>2 DEF BoundedSeq, SeqOf
<1>3. areas \in Histories
  BY <1>1, <1>2 DEF areas, Histories
<1> QED BY <1>1, <1>3 DEF WeekPlans

LEMMA OptimizeWeeklyStep == ASSUME IInv, OptimizeWeekly PROVE IInv'
<1> DEFINE plan == WeekPlan(areas, job.args)
<1>1. /\ job # NoJob /\ job' = NoJob /\ UNCHANGED file
      /\ WeekPlans[areas][job.args] = plan
  <2>1. job.command = "optimize-weekly" /\ job' = NoJob /\ UNCHANGED file
    BY DEF OptimizeWeekly
  <2> QED BY <2>1, PlanOfTheWeek DEF NoJob
<1>2. plan.refused \in {"", "arguments", "too short", "constraint", "every area"}
  BY DEF WeekPlan
<1> HIDE DEF plan
<1>3. CASE Blocked /\ ~job.ignore
  BY <1>1, <1>3, EndsStep DEF OptimizeWeekly, Outcomes
<1>4. CASE ~(Blocked /\ ~job.ignore) /\ plan.refused # ""
  BY <1>1, <1>2, <1>4, EndsStep DEF OptimizeWeekly, Outcomes
<1>5. CASE ~(Blocked /\ ~job.ignore) /\ plan.refused = ""
  <2>1. Writes(plan.days, Days)
    BY <1>1, <1>5 DEF OptimizeWeekly
  <2> QED BY <1>1, <2>1, WritesStep
<1> QED BY <1>3, <1>4, <1>5

LEMMA InvStep == ASSUME IInv, [Next]_vars PROVE IInv'
<1>1. ASSUME NEW log \in Logs, Capture(log) PROVE IInv'
  BY <1>1, CaptureStep
<1>2. ASSUME NEW entries \in TrailSets, Trails(entries) PROVE IInv'
  BY <1>2, TrailsStep
<1>3. ASSUME NEW r \in Reports, Report(r) PROVE IInv'
  BY <1>3, ReportStep
<1>4. ASSUME Export PROVE IInv'
  BY <1>4, ExportStep
<1>5. ASSUME NEW a \in Additions, NEW replace \in BOOLEAN, AddPeriod(a[1], a[2], replace)
      PROVE  IInv'
  BY <1>5, AddPeriodStep
<1>6. ASSUME NEW warn \in BOOLEAN, NEW ignore \in BOOLEAN, NEW args \in DayArgs,
             Begin("optimize", args, warn, ignore)
      PROVE  IInv'
  BY <1>6, BeginStep
<1>7. ASSUME NEW warn \in BOOLEAN, NEW ignore \in BOOLEAN, NEW args \in WeekArgs,
             Begin("optimize-weekly", args, warn, ignore)
      PROVE  IInv'
  BY <1>7, BeginStep
<1>8. ASSUME Optimize PROVE IInv'
  BY <1>8, OptimizeStep
<1>9. ASSUME OptimizeWeekly PROVE IInv'
  BY <1>9, OptimizeWeeklyStep
<1>10. CASE UNCHANGED vars
  <2>1. UNCHANGED <<snapshots, map, trails, report, file, output, job, outcome, runs, missed>>
    BY <1>10 DEF vars, store, history
  <2>2. TypeOK'
    BY <2>1 DEF IInv, TypeOK, IsDraft
  <2>3. StoreInv' /\ OfItsBase(file)'
    BY <2>1 DEF IInv, StoreInv, OfItsBase
  <2>4. JobInv'
    BY <2>1 DEF IInv, JobInv, OfItsBase, Loaded
  <2> QED BY <2>2, <2>3, <2>4 DEF IInv
<1> QED
  BY <1>1, <1>2, <1>3, <1>4, <1>5, <1>6, <1>7, <1>8, <1>9, <1>10 DEF Next

LEMMA Invariant == Spec => []IInv
<1> QED BY InitInv, InvStep, PTL DEF Spec

\* The variables of the store, of the draft and of the optimizer keep their types,
\* whatever is captured, ingested and asked for.
THEOREM TypeCorrect == Spec => []TypeOK
<1>1. IInv => TypeOK
  BY DEF IInv
<1> QED BY <1>1, Invariant, PTL

-----------------------------------------------------------------------------
\* Only an optimizer that is through writes a plan, if nothing blocks it, and it is
\* the one it has computed for the draft it read.
LEMMA WhatIsWritten ==
    ASSUME IInv, [Next]_vars, output' # output
    PROVE  /\ job # NoJob /\ (job.ignore \/ ~Blocked)
           /\ output'.warned = job.draft.warned
           /\ \/ /\ job.command = "optimize" /\ job.args \in DayArgs /\ DayArgsOk(job.args)
                 /\ output'.plan = "optimize"
                 /\ output'.edited = job.draft.edited \cup {job.args.day}
                 /\ output'.days = [job.draft.days EXCEPT
                                      ![job.args.day] = DayPlan(areas, job.args)]
              \/ /\ job.command = "optimize-weekly" /\ job.args \in WeekArgs
                 /\ output'.plan = "optimize-weekly" /\ output'.edited = Days
                 /\ WeekPlan(areas, job.args).refused = ""
                 /\ output'.days = WeekPlan(areas, job.args).days
<1>1. Optimize \/ OptimizeWeekly
  <2>1. output' # output
    OBVIOUS
  <2>2. CASE UNCHANGED vars
    BY <2>1, <2>2 DEF vars
  <2>3. CASE Next
    BY <2>1, <2>3
       DEF Next, Capture, Trails, Report, Export, AddPeriod, Begin
  <2> QED BY <2>2, <2>3
<1>2. ASSUME NEW days, NEW edited, Writes(days, edited), job # NoJob
      PROVE  /\ output'.warned = job.draft.warned /\ output'.plan = job.command
             /\ output'.edited = edited /\ output'.days = days
  <2>1. output' = [job.draft EXCEPT !.days = days, !.plan = job.command, !.edited = edited]
    BY <1>2 DEF Writes, Ends
  <2>2. DOMAIN job.draft = {"base", "days", "plan", "warned", "edited"}
    BY <1>2 DEF IInv, TypeOK, IsDraft
  <2> QED BY <2>1, <2>2
<1>3. CASE Optimize
  <2>1. job # NoJob /\ job.command = "optimize" /\ job.args \in DayArgs
    BY <1>3 DEF Optimize, NoJob, IInv, JobInv
  <2>2. /\ job.ignore \/ ~Blocked
        /\ DayArgsOk(job.args)
        /\ Writes([job.draft.days EXCEPT ![job.args.day] = DayPlan(areas, job.args)],
                  job.draft.edited \cup {job.args.day})
    BY <1>3 DEF Optimize
  <2> QED BY <1>2, <2>1, <2>2
<1>4. CASE OptimizeWeekly
  <2>1. job.command = "optimize-weekly"
    BY <1>4 DEF OptimizeWeekly
  <2>2. /\ job # NoJob /\ job.args \in WeekArgs
        /\ WeekPlans[areas][job.args] = WeekPlan(areas, job.args)
    BY <2>1, PlanOfTheWeek DEF NoJob
  <2>3. /\ job.ignore \/ ~Blocked
        /\ WeekPlan(areas, job.args).refused = ""
        /\ Writes(WeekPlan(areas, job.args).days, Days)
    BY <1>4, <2>2 DEF OptimizeWeekly
  <2> QED BY <1>2, <2>1, <2>2, <2>3
<1> QED BY <1>1, <1>3, <1>4

\* A plan without a warning is laid over the schedule load_schedule finds, if none
\* came while the optimizer ran: the base is compared with it at the beginning, and
\* what others write into the store in between is seen.
LEMMA PlannedOnLoaded ==
    ASSUME IInv, [Next]_vars, output' # output, ~output'.warned, ~missed,
           NEW d \in Days \ output'.edited
    PROVE  Loaded # 0 /\ output'.days[d] = snapshots[Loaded][d]
<1>1. /\ job # NoJob /\ ~job.draft.warned
      /\ output'.edited = job.draft.edited \cup {job.args.day} /\ job.args \in DayArgs
      /\ output'.days = [job.draft.days EXCEPT ![job.args.day] = DayPlan(areas, job.args)]
  BY WhatIsWritten
<1>2. job.draft.base = Loaded /\ job.draft.base # 0 /\ OfItsBase(job.draft)
  BY <1>1 DEF IInv, JobInv
<1>3. d # job.args.day /\ d \in Days \ job.draft.edited
  BY <1>1
<1>4. output'.days[d] = job.draft.days[d]
  BY <1>1, <1>2, <1>3 DEF OfItsBase
<1> QED BY <1>2, <1>3, <1>4 DEF OfItsBase

\* If no older schedule has more custom periods than the newest, a plan without a
\* warning is laid over the newest, if none came while the optimizer ran.
THEOREM PlansAreOnNewest == Spec => PlansOnNewest
<1> DEFINE newest == Len(snapshots)
           Fullest == \A i \in DOMAIN snapshots :
                         CustomPeriods(snapshots[i]) <= CustomPeriods(snapshots[newest])
           OnNewest == output' # output /\ ~output'.warned /\ ~missed /\ Fullest =>
                          \A d \in Days \ output'.edited : output'.days[d] = snapshots[newest][d]
<1>1. ASSUME IInv, [Next]_vars, output' # output, ~output'.warned, ~missed, Fullest,
             NEW d \in Days \ output'.edited
      PROVE  output'.days[d] = snapshots[newest][d]
  <2>1. Loaded # 0 /\ output'.days[d] = snapshots[Loaded][d]
    BY <1>1, PlannedOnLoaded
  <2>2. snapshots \in Seq(Schedules) /\ snapshots # <<>>
    BY <1>1, <2>1 DEF IInv, StoreInv, Loaded
  <2>3. Loaded = newest
    BY <1>1, <2>2, LoadedNewest
  <2> QED BY <2>1, <2>3
<1>2. IInv /\ [Next]_vars => [OnNewest]_output
  BY <1>1
<1> QED BY <1>2, Invariant, PTL DEF Spec, PlansOnNewest

\* What the viewer shows as at work because mower-state says so, the optimizer takes
\* for at work.
LEMMA ConsumerActive ==
    ASSUME NEW r, IsReport(r), Shown(r) = "consumer"
    PROVE  \E t \in StateTexts(r) : LooksActive(t)
<1> DEFINE showing == {i \in 1..3 : r[Sources[i]].area # None /\ CandidateActive(r[Sources[i]])}
<1>1. showing # {} /\ Sources[Min(showing)] = "consumer"
  BY DEF Shown
<1>2. showing \in SUBSET (1..3) /\ showing \in SUBSET Nat
  OBVIOUS
<1> HIDE DEF showing
<1>3. Min(showing) \in showing
  <2>1. \E n \in showing : \A m \in showing : n <= m
    BY <1>1, <1>2, LeastNat
  <2> QED BY <2>1 DEF Min
<1>4. Sources[1] = "mqtt" /\ Sources[2] = "consumer" /\ Sources[3] = "location"
  BY DEF Sources
<1>5. CandidateActive(r.consumer)
  BY <1>1, <1>2, <1>3, <1>4 DEF showing
<1>6. PICK t \in r.consumer.texts : LiveClass(t) = "active"
  BY <1>5 DEF CandidateActive, IsReport
<1>7. IsText(t) /\ t \in StateTexts(r)
  BY DEF IsReport, StateTexts
<1>8. PICK word \in DOMAIN TermIn : word = t.norm \/ word \in t.tokens
  BY <1>6 DEF LiveClass, LiveActiveExact, LiveActiveTokens, TermIn
<1>9. TermIn[word] \in ActiveTerms
  BY DEF TermIn, ActiveTerms
<1>10. TermIn[word] \in t.terms
  BY <1>7, <1>8 DEF IsText
<1> QED BY <1>7, <1>9, <1>10 DEF LooksActive

\* No plan is written while the viewer shows an area at work because mower-state says
\* so, unless the user ignores that, for every text: the words the viewer knows as
\* active all hold a term of the optimizer's.
THEOREM MowingBlocks == Spec => NoPlanWhileMowing
<1>1. ASSUME IInv, [Next]_vars, output' # output, Shown(report) = "consumer" PROVE job.ignore
  <2>1. IsReport(report)
    BY <1>1, ScheduleAssumption DEF IInv, TypeOK
  <2>2. Blocked
    BY <1>1, <2>1, ConsumerActive DEF Blocked
  <2> QED BY <1>1, <2>2, WhatIsWritten
<1>2. IInv /\ [Next]_vars =>
         [output' # output => job.ignore \/ Shown(report) # "consumer"]_output
  BY <1>1
<1> QED BY <1>2, Invariant, PTL DEF Spec, NoPlanWhileMowing

-----------------------------------------------------------------------------
(* What is known of the areas.                                             *)

\* The entries of an area: finitely many, told apart by snapshot and row.
LEMMA EntriesFacts ==
    ASSUME trails \in Seq(TrailSets), NEW id
    PROVE  /\ IsFiniteSet(Entries(trails, id))
           /\ \A x \in Entries(trails, id) :
                 x[1] \in Int /\ IsEntry(x[2]) /\ x[2].id = id
           /\ \A x, y \in Entries(trails, id) : x[1] = y[1] /\ x[2].row = y[2].row => x = y
<1> DEFINE E == Entries(trails, id)
           I == DOMAIN trails
           stored == {trails[i] : i \in I}
<1>1. \A i \in I : trails[i] \in TrailSets /\ i \in Int
  OBVIOUS
<1>2. \A x \in E : /\ x[1] \in I /\ x[2] \in trails[x[1]] /\ x[2].id = id
                   /\ x = <<x[1], x[2]>>
  BY DEF Entries
<1>3. \A i \in I : /\ IsFiniteSet(trails[i])
                   /\ \A e, f \in trails[i] : IsEntry(e) /\ (e.row = f.row => e = f)
  BY <1>1, ScheduleAssumption
<1>4. ASSUME NEW x \in E, NEW y \in E, x[1] = y[1], x[2].row = y[2].row PROVE x = y
  <2>1. x[2] = y[2]
    BY <1>2, <1>3, <1>4
  <2> QED BY <1>2, <1>4, <2>1
<1>5. IsFiniteSet(E)
  <2>1. I = 1..Len(trails) /\ 1 \in Int /\ Len(trails) \in Int
    OBVIOUS
  <2>2. IsFiniteSet(I)
    BY <2>1, FS_Interval
  <2>3. trails = [i \in I |-> trails[i]]
    OBVIOUS
  <2> HIDE DEF I
  <2>4. IsFiniteSet(stored)
    BY <2>2, <2>3, FiniteImage
  <2>5. IsFiniteSet(UNION stored)
    BY <1>3, <2>4, FS_UNION
  <2>6. IsFiniteSet(I \X UNION stored)
    BY <2>2, <2>5, FS_Product
  <2>7. \A x \in E : x \in I \X UNION stored
    BY <1>2
  <2> HIDE DEF E, stored
  <2> QED BY <2>6, <2>7, FS_Subset
<1>6. \A x \in E : x[1] \in Int /\ IsEntry(x[2]) /\ x[2].id = id
  BY <1>1, <1>2, <1>3
<1> QED BY <1>4, <1>5, <1>6

\* The last of them is one of them, and later than all others or, of the same time,
\* stored after them.
LEMMA LastEntryFacts ==
    ASSUME trails \in Seq(TrailSets), NEW id, Entries(trails, id) # {}
    PROVE  LET last == LastEntry(Entries(trails, id)) IN
           /\ last \in Entries(trails, id)
           /\ \A y \in Entries(trails, id) \ {last} :
                 Later(last[2], y[2]) \/ (last[2].age = y[2].age /\ StoredAfter(last, y))
<1> DEFINE E == Entries(trails, id)
           Over(x, y) == Later(x[2], y[2]) \/ (x[2].age = y[2].age /\ StoredAfter(x, y))
           R == {p \in E \X E : p[1] = p[2] \/ Over(p[2], p[1])}
<1>1. /\ IsFiniteSet(E)
      /\ \A x \in E : x[1] \in Int /\ x[2].row \in Nat /\ x[2].age \in Nat \cup {None}
      /\ \A x, y \in E : x[1] = y[1] /\ x[2].row = y[2].row => x = y
  BY EntriesFacts DEF IsEntry
<1>2. LastEntry(E) = CHOOSE x \in E : \A y \in E \ {x} : Over(x, y)
  BY DEF LastEntry
<1>3. E # {}
  OBVIOUS
<1> HIDE DEF E
<1>4. \A x, y \in E : <<x, y>> \in R <=> x = y \/ Over(y, x)
  OBVIOUS
<1>5. \A x, y \in E : x = y \/ Over(x, y) \/ Over(y, x)
  <2>1. \A x, y \in E : x[2].age = y[2].age \/ Later(x[2], y[2]) \/ Later(y[2], x[2])
    BY <1>1 DEF Later, None
  <2>2. \A x, y \in E : x = y \/ StoredAfter(x, y) \/ StoredAfter(y, x)
    BY <1>1 DEF StoredAfter
  <2> HIDE DEF R
  <2> QED BY <2>1, <2>2
<1>6. \A x, y, z \in E : Over(y, x) /\ Over(z, y) => Over(z, x)
  <2> SUFFICES ASSUME NEW x \in E, NEW y \in E, NEW z \in E, Over(y, x), Over(z, y)
               PROVE  Over(z, x)
    OBVIOUS
  <2>1. Later(y[2], x[2]) /\ Later(z[2], y[2]) => Later(z[2], x[2])
    BY <1>1 DEF Later, None
  <2>2. StoredAfter(y, x) /\ StoredAfter(z, y) => StoredAfter(z, x)
    BY <1>1 DEF StoredAfter
  <2>3. /\ Later(y[2], x[2]) /\ z[2].age = y[2].age => Later(z[2], x[2])
        /\ Later(z[2], y[2]) /\ y[2].age = x[2].age => Later(z[2], x[2])
    BY DEF Later
  <2> HIDE DEF R
  <2> QED BY <2>1, <2>2, <2>3
<1> HIDE DEF R, Over
<1>7. \E x \in E : \A y \in E : <<y, x>> \in R
  <2>1. /\ \A x, y \in E : <<x, y>> \in R \/ <<y, x>> \in R
        /\ \A x, y, z \in E : <<x, y>> \in R /\ <<y, z>> \in R => <<x, z>> \in R
    BY <1>4, <1>5, <1>6
  <2> QED BY <1>1, <1>3, <2>1, GreatestBy
<1>8. \E x \in E : \A y \in E \ {x} : Over(x, y)
  BY <1>4, <1>7
<1>9. LastEntry(E) \in E /\ \A y \in E \ {LastEntry(E)} : Over(LastEntry(E), y)
  BY <1>2, <1>8
<1> QED BY <1>9 DEF E, Over

\* What an optimizer reads of an area.
IsKnown(a) ==
    /\ a.id \in Nat /\ a.size \in Nat \ {0} /\ a.height \in Nat
    /\ a.percentage \in Nat /\ a.covered \in Nat /\ a.age \in Nat \cup {None}

LEMMA LastMownFacts ==
    ASSUME trails \in Seq(TrailSets), NEW a, IsArea(a)
    PROVE  /\ IsKnown(LastMown(a, trails)) /\ LastMown(a, trails).id = a.id
           /\ IF Entries(trails, a.id) = {} THEN LastMown(a, trails).age = None
              ELSE LET last == LastEntry(Entries(trails, a.id))[2]
                       b    == LastMown(a, trails)
                   IN  /\ b.age = last.age /\ b.percentage = last.percentage
                       /\ b.covered = last.covered
<1> DEFINE b == LastMown(a, trails)
           last == LastEntry(Entries(trails, a.id))[2]
<1>1. CASE Entries(trails, a.id) = {}
  <2>1. b = a
    BY <1>1 DEF LastMown
  <2> QED BY <1>1, <2>1 DEF IsArea, IsKnown
<1>2. CASE Entries(trails, a.id) # {}
  <2>1. IsEntry(last)
    BY <1>2, EntriesFacts, LastEntryFacts
  <2>2. b = [a EXCEPT !.percentage = last.percentage, !.covered = last.covered,
                      !.age = last.age]
    BY <1>2 DEF LastMown
  <2> HIDE DEF last
  <2>3. /\ b.id = a.id /\ b.size = a.size /\ b.height = a.height
        /\ b.percentage = last.percentage /\ b.covered = last.covered /\ b.age = last.age
    BY <2>2 DEF IsArea
  <2> HIDE DEF b
  <2>4. IsKnown(b)
    BY <2>1, <2>3 DEF IsArea, IsEntry, IsKnown
  <2> QED BY <1>2, <2>3, <2>4 DEF b, last
<1> QED BY <1>1, <1>2

\* The areas of a plan: a finite set, by their ids.
IsMap(S) ==
    IsFiniteSet(S) /\ \A a, b \in S : IsKnown(a) /\ (a.id = b.id => a = b)

LEMMA AreasKnown ==
    ASSUME IInv
    PROVE  /\ IsMap(areas)
           /\ \A a \in map : /\ IsArea(a) /\ LastMown(a, trails) \in areas
                             /\ LastMown(a, trails).id = a.id
<1> DEFINE f == [a \in map |-> LastMown(a, trails)]
<1>1. trails \in Seq(TrailSets) /\ map \in Maps
  BY DEF IInv, TypeOK, StoreInv
<1>2. IsFiniteSet(map) /\ \A a, b \in map : IsArea(a) /\ (a.id = b.id => a = b)
  BY <1>1, ScheduleAssumption
<1>3. \A a \in map : f[a] = LastMown(a, trails) /\ IsKnown(f[a]) /\ f[a].id = a.id
  BY <1>1, <1>2, LastMownFacts
<1>4. areas = {f[a] : a \in map} /\ f = [a \in map |-> f[a]]
  BY DEF areas, Known
<1> HIDE DEF f
<1>5. IsFiniteSet(areas)
  BY <1>2, <1>4, FiniteImage
<1>6. \A a, b \in areas : IsKnown(a) /\ (a.id = b.id => a = b)
  BY <1>2, <1>3, <1>4
<1> QED BY <1>2, <1>3, <1>4, <1>5, <1>6 DEF IsMap

-----------------------------------------------------------------------------
(* The order of the areas, and the plan for one day.                       *)

LEMMA StatusType == ASSUME NEW a PROVE Status(a) \in {"completed", "partial", "no_mow_in_history"}
  BY DEF Status

LEMMA ScoreType == ASSUME NEW a, IsKnown(a) PROVE Score(a) \in Int
<1>1. a.size \div 25 \in Int
  BY DEF IsKnown
<1>2. a.percentage \in Int
  BY DEF IsKnown
<1>3. (100 - a.percentage) \div 2 \in Int
  BY <1>2
<1>4. a.age \in Int
  BY DEF IsKnown, None
<1>5. 3 * AtMost(a.age, 30) \in Int
  BY <1>4 DEF AtMost
<1>6. (IF Status(a) = "no_mow_in_history" THEN 120
       ELSE IF Status(a) = "partial" THEN 90 + (100 - a.percentage) \div 2
       ELSE IF a.age = None THEN 40 ELSE 3 * AtMost(a.age, 30)) \in Int
  BY <1>3, <1>5
<1>7. (IF a.height >= 60 THEN 8 ELSE 0) \in Int
  OBVIOUS
<1> QED BY <1>1, <1>6, <1>7 DEF Score

\* An area is laid out for at least a quarter of an hour.
LEMMA DurationType ==
    ASSUME NEW a, IsKnown(a), NEW perHour \in Nat \ {0}
    PROVE  Duration(a, perHour) \in Nat \ {0}
<1> DEFINE x == -4 * a.size * (120 + Tall(a))
           d == 120 * perHour
<1>1. Tall(a) \in Int
  BY DEF Tall, AtLeast, IsKnown
<1>2. x \in Int
  BY <1>1 DEF IsKnown
<1>3. d \in Nat \ {0}
  OBVIOUS
<1> HIDE DEF x, d
<1>4. -(x \div d) \in Int
  BY <1>2, <1>3
<1>5. Duration(a, perHour) = AtLeast(1, -(x \div d))
  BY DEF Duration, x, d
<1> QED BY <1>4, <1>5 DEF AtLeast

\* Ahead orders any two areas.
LEMMA AheadOrders ==
    ASSUME NEW S, IsMap(S)
    PROVE  /\ \A a \in S : ~Ahead(a, a)
           /\ \A a, b \in S : a = b \/ Ahead(a, b) \/ Ahead(b, a)
           /\ \A a, b, c \in S : Ahead(a, b) /\ Ahead(b, c) => Ahead(a, c)
<1>1. \A a \in S : Score(a) \in Int /\ a.size \in Int /\ a.id \in Int
  BY ScoreType DEF IsMap, IsKnown
<1>2. \A a, b \in S : a.id = b.id => a = b
  BY DEF IsMap
<1> QED BY <1>1, <1>2 DEF Ahead

\* All of them, each once, the one that is ahead first.
LEMMA RankedFacts ==
    ASSUME NEW S, IsMap(S)
    PROVE  /\ Cardinality(S) \in Nat
           /\ Ranked(S) \in [1..Cardinality(S) -> S]
           /\ \A a \in S : \E k \in 1..Cardinality(S) : Ranked(S)[k] = a
           /\ \A i, j \in 1..Cardinality(S) : i < j => Ahead(Ranked(S)[i], Ranked(S)[j])
<1> DEFINE R == {p \in S \X S : Ahead(p[1], p[2])}
           f == Ranked(S)
<1>1. \A x, y \in S : <<x, y>> \in R <=> Ahead(x, y)
  OBVIOUS
<1>2. \A x \in S : {y \in S : <<y, x>> \in R} = {y \in S : Ahead(y, x)}
  BY <1>1
<1>3. /\ \A x \in S : <<x, x>> \notin R
      /\ \A x, y \in S : x = y \/ <<x, y>> \in R \/ <<y, x>> \in R
      /\ \A x, y, z \in S : <<x, y>> \in R /\ <<y, z>> \in R => <<x, z>> \in R
  <2> HIDE DEF R
  <2> QED BY <1>1, AheadOrders
<1>4. f = [k \in 1..Cardinality(S) |->
             CHOOSE x \in S : Cardinality({y \in S : Ahead(y, x)}) = k - 1]
  BY DEF Ranked, InOrder
<1>5. f = [k \in 1..Cardinality(S) |-> f[k]]
  BY SMTT(30) DEF Ranked, InOrder
<1> HIDE DEF f, R
<1>6. ASSUME NEW k \in 1..Cardinality(S), NEW x \in S,
             Cardinality({y \in S : <<y, x>> \in R}) = k - 1
      PROVE  f[k] \in S /\ Cardinality({y \in S : <<y, f[k]>> \in R}) = k - 1
  <2>1. Cardinality({y \in S : Ahead(y, x)}) = k - 1
    BY <1>2, <1>6
  <2>2. f[k] \in S /\ Cardinality({y \in S : Ahead(y, f[k])}) = k - 1
    BY <1>4, <2>1
  <2> QED BY <1>2, <2>2
<1>7. IsFiniteSet(S)
  BY DEF IsMap
<1>8. /\ Cardinality(S) \in Nat
      /\ f \in [1..Cardinality(S) -> S]
      /\ \A x \in S : \E k \in 1..Cardinality(S) : f[k] = x
      /\ \A i, j \in 1..Cardinality(S) : i < j => <<f[i], f[j]>> \in R
  BY <1>3, <1>5, <1>6, <1>7, RankFacts
<1> QED BY <1>1, <1>8 DEF f

\* The candidates of a plan for one day, a set; the plan takes them in this order.
Wanted(S, args) ==
    {a \in S : ~(args.rest > 0 /\ a.age # None /\ a.age < args.rest /\ Status(a) = "completed")}

LEMMA CandidatesFacts ==
    ASSUME NEW S, IsMap(S), NEW args
    PROVE  LET targets == Candidates(S, args) IN
           /\ targets \in Seq(Wanted(S, args)) /\ DOMAIN targets = 1..Len(targets)
           /\ Len(targets) \in Nat
           /\ \A a \in Wanted(S, args) : \E k \in 1..Len(targets) : targets[k] = a
           /\ \A i, j \in 1..Len(targets) : i < j => Ahead(targets[i], targets[j])
<1> DEFINE W == Wanted(S, args)
           targets == Candidates(S, args)
<1>1. IsMap(W)
  <2>1. W \subseteq S
    BY DEF Wanted
  <2> HIDE DEF W
  <2> QED BY <2>1, FS_Subset DEF IsMap
<1>2. targets = Ranked(W)
  BY DEF Candidates, Wanted
<1> HIDE DEF W, targets
<1>3. /\ Cardinality(W) \in Nat /\ targets \in [1..Cardinality(W) -> W]
      /\ \A a \in W : \E k \in 1..Cardinality(W) : targets[k] = a
      /\ \A i, j \in 1..Cardinality(W) : i < j => Ahead(targets[i], targets[j])
  BY <1>1, <1>2, RankedFacts
<1>4. targets \in Seq(W) /\ Len(targets) = Cardinality(W) /\ DOMAIN targets = 1..Len(targets)
  BY <1>3
<1>5. /\ targets \in Seq(W) /\ DOMAIN targets = 1..Len(targets) /\ Len(targets) \in Nat
      /\ \A a \in W : \E k \in 1..Len(targets) : targets[k] = a
      /\ \A i, j \in 1..Len(targets) : i < j => Ahead(targets[i], targets[j])
  BY <1>3, <1>4
<1> QED BY <1>5 DEF W, targets
DayPeriod == [start : Int, end : Int, areas : SUBSET Nat, mode : {"custom"}]

\* Where the next period would begin.
From(periods, args) == IF periods = <<>> THEN args.window[1] ELSE periods[Len(periods)].end
Full(periods, a, args) ==
    Len(periods) >= args.periods \/ From(periods, args) + Duration(a, args.perHour) > args.window[2]
NextPeriod(periods, a, args) ==
    Period(From(periods, args), From(periods, args) + Duration(a, args.perHour), {a.id}, "custom")

LEMMA WindowFacts ==
    ASSUME NEW w, IsWindow(w)
    PROVE  w[1] \in Int /\ w[2] \in Int /\ 0 <= w[1] /\ 0 <= w[2] /\ w[1] <= 96 /\ w[2] <= 96
<1>1. w[1] \in 0..96 /\ w[2] \in 0..96
  BY DEF IsWindow, Midnight
<1> QED BY <1>1

LEMMA LaidFacts ==
    ASSUME NEW args, IsDayArgs(args), NEW a, IsKnown(a), NEW p \in Seq(DayPeriod)
    PROVE  /\ From(p, args) \in Int /\ Duration(a, args.perHour) \in Nat \ {0}
           /\ Laid(p, a, args) = IF Full(p, a, args) THEN p ELSE Append(p, NextPeriod(p, a, args))
           /\ Laid(p, a, args) \in Seq(DayPeriod)
<1>1. args.window[1] \in Int /\ args.perHour \in Nat \ {0}
  BY WindowFacts DEF IsDayArgs
<1>2. From(p, args) \in Int
  <2>1. CASE p # <<>>
    <3>1. p[Len(p)] \in DayPeriod
      BY <2>1
    <3>2. \A d \in DayPeriod : d.end \in Int
      BY DEF DayPeriod
    <3> QED BY <2>1, <3>1, <3>2 DEF From
  <2>2. CASE p = <<>>
    BY <1>1, <2>2 DEF From
  <2> QED BY <2>1, <2>2
<1>3. Duration(a, args.perHour) \in Nat \ {0}
  BY <1>1, DurationType
<1>4. Laid(p, a, args) = IF Full(p, a, args) THEN p ELSE Append(p, NextPeriod(p, a, args))
  BY DEF Laid, Full, From, NextPeriod
<1>5. NextPeriod(p, a, args) \in DayPeriod
  <2>1. {a.id} \in SUBSET Nat
    BY DEF IsKnown
  <2> QED BY <1>2, <1>3, <2>1 DEF NextPeriod, Period, DayPeriod
<1>6. Laid(p, a, args) \in Seq(DayPeriod)
  BY <1>4, <1>5
<1> QED BY <1>2, <1>3, <1>4, <1>6

\* A plan for one day is laid out area by area.
LEMMA DayPlanRecursion ==
    ASSUME NEW S, IsMap(S), NEW args, IsDayArgs(args)
    PROVE  LET targets == Candidates(S, args) IN
           \E plan :
              /\ \A i \in 0..Len(targets) : plan[i] \in Seq(DayPeriod)
              /\ plan[0] = <<>>
              /\ \A i \in 1..Len(targets) :
                    plan[i] = IF Full(plan[i - 1], targets[i], args) THEN plan[i - 1]
                              ELSE Append(plan[i - 1], NextPeriod(plan[i - 1], targets[i], args))
              /\ DayPlan(S, args) = plan[Len(targets)]
<1> DEFINE targets == Candidates(S, args)
           n == Len(targets)
           Plans(plan) == plan = [i \in 0..n |->
                                    IF i = 0 THEN <<>> ELSE Laid(plan[i - 1], targets[i], args)]
           chosen == CHOOSE plan : Plans(plan)
           T == Seq(DayPeriod)
           G == [q \in (1..n) \X T |-> Laid(q[2], targets[q[1]], args)]
<1>1. n \in Nat /\ \A i \in 1..n : IsKnown(targets[i])
  <2>1. targets \in Seq(Wanted(S, args)) /\ n \in Nat
    BY CandidatesFacts
  <2>2. \A i \in 1..n : targets[i] \in Wanted(S, args)
    BY <2>1
  <2> QED BY <2>1, <2>2 DEF Wanted, IsMap
<1>2. DayPlan(S, args) = chosen[n]
  BY DEF DayPlan
<1> HIDE DEF targets
<1>3. \A i \in 1..n, p \in T :
         /\ Laid(p, targets[i], args) \in T
         /\ Laid(p, targets[i], args) =
               IF Full(p, targets[i], args) THEN p ELSE Append(p, NextPeriod(p, targets[i], args))
  BY <1>1, LaidFacts
<1>4. <<>> \in T
  BY EmptySeq
<1> HIDE DEF T, n
<1>5. G \in [(1..n) \X T -> T] /\ \A i \in 1..n, p \in T : G[<<i, p>>] = Laid(p, targets[i], args)
  BY <1>3
<1> HIDE DEF G
<1>6. PICK plan : RecursionOf(plan, T, <<>>, n, G)
  BY <1>1, <1>4, <1>5, RecursionExists
<1>7. plan \in [0..n -> T] /\ plan[0] = <<>>
  BY <1>6 DEF RecursionOf
<1>8. \A i \in 1..n : i - 1 \in 0..n /\ i \in 0..n
  BY <1>1
<1>9. \A i \in 1..n : plan[i] = Laid(plan[i - 1], targets[i], args)
  <2>1. \A i \in 1..n : plan[i] = G[<<i, plan[i - 1]>>]
    BY <1>6 DEF RecursionOf
  <2> QED BY <1>5, <1>7, <1>8, <2>1
<1>10. Plans(plan)
  <2>1. \A i \in 0..n : i = 0 \/ i \in 1..n
    BY <1>1
  <2>2. \A i \in 0..n : plan[i] = IF i = 0 THEN <<>> ELSE Laid(plan[i - 1], targets[i], args)
    BY <1>7, <1>9, <2>1
  <2> QED BY <1>7, <2>2
<1>11. Plans(chosen)
  BY <1>10
<1> HIDE DEF chosen
<1>12. chosen[0] = <<>> /\ \A i \in 1..n : chosen[i] = Laid(chosen[i - 1], targets[i], args)
  <2>1. 0 \in 0..n /\ \A i \in 1..n : i \in 0..n /\ i # 0
    BY <1>1
  <2> QED BY <1>11, <2>1
<1>13. \A i \in 0..n : chosen[i] \in T
  <2> DEFINE Typed == {i \in 0..n : chosen[i] \in T}
  <2>1. 0 \in Typed
    BY <1>1, <1>4, <1>12
  <2>2. ASSUME NEW i \in 1..n, i - 1 \in Typed PROVE i \in Typed
    BY <1>3, <1>8, <1>12, <2>2
  <2> HIDE DEF Typed
  <2>3. 0..n \subseteq Typed
    BY <1>1, <2>1, <2>2, NatsUpTo
  <2> QED BY <2>3 DEF Typed
<1>14. \A i \in 1..n :
          chosen[i] = IF Full(chosen[i - 1], targets[i], args) THEN chosen[i - 1]
                      ELSE Append(chosen[i - 1], NextPeriod(chosen[i - 1], targets[i], args))
  BY <1>3, <1>8, <1>12, <1>13
<1>15. \E p : /\ \A i \in 0..n : p[i] \in T
              /\ p[0] = <<>>
              /\ \A i \in 1..n :
                    p[i] = IF Full(p[i - 1], targets[i], args) THEN p[i - 1]
                           ELSE Append(p[i - 1], NextPeriod(p[i - 1], targets[i], args))
              /\ DayPlan(S, args) = p[n]
  BY <1>2, <1>12, <1>13, <1>14
<1> QED BY <1>15 DEF targets, n, T

\* Periods one after another, within the window and up to the limit.
Tidy(p, args) ==
    /\ Len(p) <= args.periods
    /\ \A j \in 1..Len(p) :
          /\ args.window[1] <= p[j].start /\ p[j].start < p[j].end /\ p[j].end <= args.window[2]
          /\ \A l \in 1..(j - 1) : p[l].end <= p[j].start

\* From is not before the end of any period, and is the window's beginning or such an end.
LEMMA FromFacts ==
    ASSUME NEW args, IsDayArgs(args), NEW p \in Seq(DayPeriod), Tidy(p, args)
    PROVE  /\ From(p, args) \in Int /\ args.window[1] <= From(p, args)
           /\ \A j \in 1..Len(p) : p[j].end <= From(p, args)
           /\ From(p, args) \in {args.window[1]} \cup {p[j].end : j \in 1..Len(p)}
<1>1. args.window[1] \in Int
  BY WindowFacts DEF IsDayArgs
<1>2. CASE p = <<>>
  <2>1. Len(p) = 0 /\ From(p, args) = args.window[1]
    BY <1>2, EmptySeq DEF From
  <2> QED BY <1>1, <2>1
<1>3. CASE p # <<>>
  <2>1. From(p, args) = p[Len(p)].end /\ Len(p) \in Nat \ {0} /\ Len(p) \in 1..Len(p)
    BY <1>3 DEF From
  <2>2. \A j \in 1..Len(p) : p[j].start \in Int /\ p[j].end \in Int
    <3>1. \A j \in 1..Len(p) : p[j] \in DayPeriod
      OBVIOUS
    <3>2. \A d \in DayPeriod : d.start \in Int /\ d.end \in Int
      BY DEF DayPeriod
    <3> QED BY <3>1, <3>2
  <2>3. ASSUME NEW j \in 1..Len(p) PROVE p[j].end <= p[Len(p)].end
    <3>1. CASE j = Len(p)
      BY <2>1, <2>2, <3>1
    <3>2. CASE j # Len(p)
      <4>1. j \in 1..(Len(p) - 1)
        BY <2>1, <3>2
      <4>2. p[j].end <= p[Len(p)].start /\ p[Len(p)].start < p[Len(p)].end
        BY <2>1, <4>1 DEF Tidy
      <4> QED BY <2>1, <2>2, <4>2
    <3> QED BY <3>1, <3>2
  <2>4. args.window[1] <= p[Len(p)].end
    <3>1. args.window[1] <= p[Len(p)].start /\ p[Len(p)].start < p[Len(p)].end
      BY <2>1 DEF Tidy
    <3> QED BY <1>1, <2>1, <2>2, <3>1
  <2> QED BY <2>1, <2>2, <2>3, <2>4
<1> QED BY <1>2, <1>3

\* An area more, and it is as tidy.
LEMMA TidyNext ==
    ASSUME NEW args, IsDayArgs(args), NEW p \in Seq(DayPeriod), Tidy(p, args),
           NEW a, IsKnown(a), ~Full(p, a, args)
    PROVE  Tidy(Append(p, NextPeriod(p, a, args)), args)
<1> DEFINE next == NextPeriod(p, a, args)
           q == Append(p, next)
<1>1. /\ From(p, args) \in Int /\ args.window[1] <= From(p, args)
      /\ \A j \in 1..Len(p) : p[j].end <= From(p, args)
  BY FromFacts
<1>2. Duration(a, args.perHour) \in Nat \ {0}
  BY LaidFacts
<1>3. args.window[1] \in Int /\ args.window[2] \in Int /\ args.periods \in Int
  BY WindowFacts DEF IsDayArgs
<1>4. /\ next.start = From(p, args) /\ next.end = From(p, args) + Duration(a, args.perHour)
      /\ Len(p) < args.periods /\ next.end <= args.window[2]
  <2>1. Len(p) \in Nat
    OBVIOUS
  <2> QED BY <1>1, <1>2, <1>3, <2>1 DEF NextPeriod, Period, Full
<1>5. /\ args.window[1] <= next.start /\ next.start < next.end /\ next.end <= args.window[2]
      /\ \A j \in 1..Len(p) : p[j].end <= next.start
  BY <1>1, <1>2, <1>4
<1> HIDE DEF next
<1>6. /\ Len(q) = Len(p) + 1 /\ Len(p) \in Nat /\ q[Len(q)] = next
      /\ \A j \in 1..Len(p) : q[j] = p[j]
  OBVIOUS
<1> HIDE DEF q
<1>7. Len(q) <= args.periods
  BY <1>3, <1>4, <1>6
<1>8. ASSUME NEW j \in 1..Len(q)
      PROVE  /\ args.window[1] <= q[j].start /\ q[j].start < q[j].end
             /\ q[j].end <= args.window[2]
             /\ \A l \in 1..(j - 1) : q[l].end <= q[j].start
  <2>1. CASE j = Len(q)
    <3>1. \A l \in 1..(j - 1) : l \in 1..Len(p)
      BY <1>6, <2>1
    <3> QED BY <1>5, <1>6, <2>1, <3>1
  <2>2. CASE j # Len(q)
    <3>1. j \in 1..Len(p) /\ \A l \in 1..(j - 1) : l \in 1..Len(p)
      BY <1>6, <2>2
    <3> QED BY <1>6, <3>1 DEF Tidy
  <2> QED BY <2>1, <2>2
<1>9. Tidy(q, args)
  BY <1>7, <1>8 DEF Tidy
<1> QED BY <1>9 DEF q, next

\* q, the beginning of a plan p, is what was laid out before the k-th target, and it
\* comes next unless it does not fit.
Before(q, p, targets, k, args) ==
    /\ Tidy(q, args) /\ Len(q) <= Len(p)
    /\ \A j \in 1..Len(q) : p[j] = q[j] /\ \E m \in 1..(k - 1) : p[j].areas = {targets[m].id}
    /\ \A j \in (Len(q) + 1)..Len(p) : \E m \in k..Len(targets) : p[j].areas = {targets[m].id}
    /\ \/ Full(q, targets[k], args)
       \/ Len(q) + 1 <= Len(p) /\ p[Len(q) + 1] = NextPeriod(q, targets[k], args)

DayPlanned(p, targets, args) ==
    /\ p \in Seq(DayPeriod) /\ Tidy(p, args)
    /\ \A j \in 1..Len(p) : \E m \in 1..Len(targets) : p[j].areas = {targets[m].id}
    /\ \A k \in 1..Len(targets) : \E q \in Seq(DayPeriod) : Before(q, p, targets, k, args)

\* What a plan for one day is: tidy, and for each candidate either a period where those
\* before it left off, or the reason why there is none.  Those of the candidates before
\* it are a prefix of the plan.
LEMMA DayPlanFacts ==
    ASSUME NEW S, IsMap(S), NEW args, IsDayArgs(args), DayArgsOk(args)
    PROVE  DayPlanned(DayPlan(S, args), Candidates(S, args), args)
<1> DEFINE targets == Candidates(S, args)
           n == Len(targets)
           Of(p, j, from, to) == \E m \in from..to : p[j].areas = {targets[m].id}
<1>1. n \in Nat /\ \A i \in 1..n : IsKnown(targets[i])
  <2>1. targets \in Seq(Wanted(S, args)) /\ n \in Nat
    BY CandidatesFacts
  <2>2. \A i \in 1..n : targets[i] \in Wanted(S, args)
    BY <2>1
  <2> QED BY <2>1, <2>2 DEF Wanted, IsMap
<1>2. PICK plan :
         /\ \A i \in 0..n : plan[i] \in Seq(DayPeriod)
         /\ plan[0] = <<>>
         /\ \A i \in 1..n :
               plan[i] = IF Full(plan[i - 1], targets[i], args) THEN plan[i - 1]
                         ELSE Append(plan[i - 1], NextPeriod(plan[i - 1], targets[i], args))
         /\ DayPlan(S, args) = plan[n]
  BY DayPlanRecursion
<1> HIDE DEF targets, n
<1>3. \A i \in 1..n : i - 1 \in 0..n /\ i \in 0..n
  BY <1>1
<1>4. \A i \in 0..n : Tidy(plan[i], args)
  <2> DEFINE Good == {i \in 0..n : Tidy(plan[i], args)}
  <2>1. 0 \in Good
    <3>1. Len(plan[0]) = 0 /\ args.periods \in Int /\ 0 <= args.periods
      BY <1>2, EmptySeq DEF DayArgsOk, MaxPeriods
    <3> QED BY <1>1, <3>1 DEF Tidy
  <2>2. ASSUME NEW i \in 1..n, i - 1 \in Good PROVE i \in Good
    <3>1. plan[i - 1] \in Seq(DayPeriod) /\ Tidy(plan[i - 1], args) /\ IsKnown(targets[i])
      BY <1>1, <1>2, <1>3, <2>2
    <3>2. CASE Full(plan[i - 1], targets[i], args)
      BY <1>2, <1>3, <3>1, <3>2
    <3>3. CASE ~Full(plan[i - 1], targets[i], args)
      BY <1>2, <1>3, <3>1, <3>3, TidyNext
    <3> QED BY <3>2, <3>3
  <2> HIDE DEF Good
  <2>3. 0..n \subseteq Good
    BY <1>1, <2>1, <2>2, NatsUpTo
  <2> QED BY <2>3 DEF Good

\* From k on, what is there stays, and what is added is of the areas behind k.
<1>5. ASSUME NEW k \in 0..n
      PROVE  \A i \in k..n :
                /\ Len(plan[k]) <= Len(plan[i])
                /\ \A j \in 1..Len(plan[k]) : plan[i][j] = plan[k][j]
                /\ \A j \in (Len(plan[k]) + 1)..Len(plan[i]) : Of(plan[i], j, k + 1, i)
  <2> DEFINE Extends(i) ==
                /\ Len(plan[k]) <= Len(plan[i])
                /\ \A j \in 1..Len(plan[k]) : plan[i][j] = plan[k][j]
                /\ \A j \in (Len(plan[k]) + 1)..Len(plan[i]) : Of(plan[i], j, k + 1, i)
             Good == {i \in 0..n : i < k \/ Extends(i)}
  <2>1. \A i \in 0..n : Len(plan[i]) \in Nat
    BY <1>2
  <2>2. Extends(k)
    BY <1>1, <2>1
  <2>3. ASSUME NEW i \in 1..n, k <= i - 1, Extends(i - 1) PROVE Extends(i)
    <3> DEFINE p == plan[i - 1]
               next == NextPeriod(p, targets[i], args)
    <3>1. /\ p \in Seq(DayPeriod) /\ Len(p) \in Nat /\ k \in Int /\ Len(plan[k]) \in Nat
      BY <1>1, <1>2, <1>3, <2>1
    <3>2. \A m \in (k + 1)..(i - 1) : m \in (k + 1)..i
      BY <1>1
    <3>3. CASE Full(p, targets[i], args)
      <4>1. plan[i] = p
        BY <1>2, <3>3
      <4> QED BY <2>3, <3>2, <4>1
    <3>4. CASE ~Full(p, targets[i], args)
      <4>1. plan[i] = Append(p, next)
        BY <1>2, <3>4
      <4>2. next.areas = {targets[i].id}
        BY DEF NextPeriod, Period
      <4> HIDE DEF next
      <4>3. /\ Len(plan[i]) = Len(p) + 1 /\ plan[i][Len(p) + 1] = next
            /\ \A j \in 1..Len(p) : plan[i][j] = p[j]
        BY <3>1, <4>1
      <4>4. i \in (k + 1)..i
        BY <1>1, <2>3
      <4>5. ASSUME NEW j \in (Len(plan[k]) + 1)..Len(plan[i]) PROVE Of(plan[i], j, k + 1, i)
        <5>1. CASE j = Len(p) + 1
          BY <4>2, <4>3, <4>4, <5>1
        <5>2. CASE j # Len(p) + 1
          <6>1. j \in (Len(plan[k]) + 1)..Len(p) /\ j \in 1..Len(p)
            BY <3>1, <4>3, <5>2
          <6> QED BY <2>3, <3>2, <4>3, <6>1
        <5> QED BY <5>1, <5>2
      <4>6. Len(plan[k]) <= Len(p) /\ \A j \in 1..Len(plan[k]) : p[j] = plan[k][j]
        BY <2>3
      <4>7. \A j \in 1..Len(plan[k]) : j \in 1..Len(p)
        BY <3>1, <4>6
      <4>8. \A j \in 1..Len(plan[k]) : plan[i][j] = plan[k][j]
        BY <4>3, <4>6, <4>7
      <4>9. Len(plan[k]) <= Len(plan[i])
        BY <3>1, <4>3, <4>6
      <4> QED BY <4>5, <4>8, <4>9
    <3> QED BY <3>3, <3>4
  <2> HIDE DEF Extends
  <2>4. 0 \in Good
    BY <1>1, <2>2
  <2>5. ASSUME NEW i \in 1..n, i - 1 \in Good PROVE i \in Good
    <3>1. CASE i - 1 < k
      BY <1>1, <1>3, <2>2, <3>1
    <3>2. CASE ~(i - 1 < k)
      BY <1>1, <1>3, <2>3, <2>5, <3>2
    <3> QED BY <3>1, <3>2
  <2> HIDE DEF Good
  <2>6. 0..n \subseteq Good
    BY <1>1, <2>4, <2>5, NatsUpTo
  <2>7. \A i \in k..n : i \in 0..n /\ ~(i < k)
    BY <1>1
  <2>8. \A i \in k..n : Extends(i)
    BY <2>6, <2>7 DEF Good
  <2> QED BY <2>8 DEF Extends
<1> DEFINE p == DayPlan(S, args)
<1>6. p = plan[n]
  BY <1>2
<1> HIDE DEF p
<1>7. p \in Seq(DayPeriod) /\ Tidy(p, args) /\ Len(p) \in Nat
  BY <1>1, <1>2, <1>4, <1>6
<1>8. \A j \in 1..Len(p) : Of(p, j, 1, n)
  <2>1. 0 \in 0..n /\ n \in 0..n /\ Len(plan[0]) = 0 /\ 0 + 1 = 1
    BY <1>1, <1>2, EmptySeq
  <2>2. \A j \in (Len(plan[0]) + 1)..Len(plan[n]) : Of(plan[n], j, 0 + 1, n)
    BY <1>5, <2>1
  <2> QED BY <1>6, <2>1, <2>2
<1>9. ASSUME NEW k \in 1..n PROVE \E q \in Seq(DayPeriod) : Before(q, p, targets, k, args)
  <2> DEFINE q == plan[k - 1]
  <2>1. k - 1 \in 0..n /\ k \in 0..n /\ n \in (k - 1)..n /\ n \in k..n /\ (k - 1) + 1 = k
    BY <1>1
  <2>2. q \in Seq(DayPeriod) /\ Tidy(q, args) /\ Len(q) \in Nat
    BY <1>2, <1>4, <2>1
  <2>3. /\ Len(q) <= Len(p) /\ \A j \in 1..Len(q) : p[j] = q[j]
        /\ \A j \in (Len(q) + 1)..Len(p) : Of(p, j, k, n)
    <3>1. \A i \in (k - 1)..n :
             /\ Len(q) <= Len(plan[i]) /\ \A j \in 1..Len(q) : plan[i][j] = q[j]
             /\ \A j \in (Len(q) + 1)..Len(plan[i]) : Of(plan[i], j, (k - 1) + 1, i)
      BY <1>5, <2>1
    <3> HIDE DEF Of, q
    <3> QED BY <1>6, <2>1, <3>1
  <2>4. \A j \in 1..Len(q) : Of(q, j, 1, k - 1)
    <3>1. 0 \in 0..n /\ Len(plan[0]) = 0 /\ 0 + 1 = 1 /\ k - 1 \in 0..n
      BY <1>1, <1>2, <2>1, EmptySeq
    <3>2. \A i \in 0..n : \A j \in (Len(plan[0]) + 1)..Len(plan[i]) : Of(plan[i], j, 0 + 1, i)
      BY <1>5, <3>1
    <3> QED BY <3>1, <3>2
  <2>5. \A j \in 1..Len(q) : Of(p, j, 1, k - 1)
    <3> SUFFICES ASSUME NEW j \in 1..Len(q) PROVE Of(p, j, 1, k - 1)
      OBVIOUS
    <3>1. p[j] = q[j] /\ Of(q, j, 1, k - 1)
      BY <2>3, <2>4
    <3> HIDE DEF q
    <3> QED BY <3>1
  <2>6. \/ Full(q, targets[k], args)
        \/ Len(q) + 1 <= Len(p) /\ p[Len(q) + 1] = NextPeriod(q, targets[k], args)
    <3>1. CASE ~Full(q, targets[k], args)
      <4>1. plan[k] = Append(q, NextPeriod(q, targets[k], args))
        BY <1>2, <3>1
      <4>2. Len(plan[k]) = Len(q) + 1 /\ plan[k][Len(q) + 1] = NextPeriod(q, targets[k], args)
        BY <2>2, <4>1
      <4>3. Len(plan[k]) <= Len(p) /\ \A j \in 1..Len(plan[k]) : p[j] = plan[k][j]
        BY <1>5, <1>6, <2>1
      <4>4. Len(q) + 1 \in 1..Len(plan[k])
        BY <2>2, <4>2
      <4> QED BY <4>2, <4>3, <4>4
    <3> QED BY <3>1
  <2>7. Before(q, p, targets, k, args)
    <3> HIDE DEF q
    <3> QED BY <2>2, <2>3, <2>5, <2>6 DEF Before, n
  <2> QED BY <2>2, <2>7
<1> QED BY <1>7, <1>8, <1>9 DEF p, targets, n, DayPlanned

\* Of a candidate: where those before it leave off, and whether it comes in.
GreedyFor(a, p, args) ==
    LET behind == Max({args.window[1]} \cup {p[i].end : i \in LaidBefore(a, p)})
    IN  \/ \E i \in DOMAIN p : p[i].areas = {a.id} /\ p[i].start = behind
        \/ Cardinality(LaidBefore(a, p)) = args.periods
        \/ behind + Duration(a, args.perHour) > args.window[2]

LEMMA GreedyFacts ==
    ASSUME IInv, NEW args, IsDayArgs(args), DayArgsOk(args),
           NEW k \in 1..Len(Candidates(areas, args)), NEW p, p = DayPlan(areas, args)
    PROVE  GreedyFor(Candidates(areas, args)[k], p, args)
<1> DEFINE targets == Candidates(areas, args)
           n == Len(targets)
           a == targets[k]
           before == LaidBefore(a, p)
           behind == Max({args.window[1]} \cup {p[i].end : i \in before})
<1>1. IsMap(areas)
  BY AreasKnown
<1>2. /\ n \in Nat
      /\ \A i \in 1..n : targets[i] \in areas /\ IsKnown(targets[i])
      /\ \A i, j \in 1..n : i < j => Ahead(targets[i], targets[j])
  <2>1. /\ targets \in Seq(Wanted(areas, args)) /\ n \in Nat
        /\ \A i, j \in 1..n : i < j => Ahead(targets[i], targets[j])
    BY <1>1, CandidatesFacts
  <2>2. \A i \in 1..n : targets[i] \in Wanted(areas, args)
    BY <2>1
  <2> QED BY <1>1, <2>1, <2>2 DEF Wanted, IsMap
<1>3. k \in 1..n
  OBVIOUS
<1>4. DayPlanned(p, targets, args)
  BY <1>1, DayPlanFacts
<1>5. PICK q \in Seq(DayPeriod) :
         /\ Tidy(q, args) /\ Len(q) <= Len(p)
         /\ \A j \in 1..Len(q) : p[j] = q[j] /\ \E m \in 1..(k - 1) : p[j].areas = {targets[m].id}
         /\ \A j \in (Len(q) + 1)..Len(p) : \E m \in k..n : p[j].areas = {targets[m].id}
         /\ \/ Full(q, a, args)
            \/ Len(q) + 1 <= Len(p) /\ p[Len(q) + 1] = NextPeriod(q, a, args)
  <2> HIDE DEF targets
  <2>1. PICK q \in Seq(DayPeriod) : Before(q, p, targets, k, args)
    BY <1>3, <1>4 DEF DayPlanned
  <2> QED BY <2>1 DEF Before
<1>6. \A i \in DOMAIN p : i \in before <=> \E b \in areas : p[i].areas = {b.id} /\ Ahead(b, a)
  BY DEF LaidBefore
<1>7. before \subseteq DOMAIN p /\ DOMAIN p = 1..Len(p) /\ Len(p) \in Nat /\ Len(q) \in Nat
  BY <1>4, <1>5 DEF LaidBefore, DayPlanned
<1> HIDE DEF before, targets
<1>8. before = 1..Len(q)
  <2>1. ASSUME NEW j \in 1..Len(q) PROVE j \in before
    <3>1. PICK m \in 1..(k - 1) : p[j].areas = {targets[m].id}
      BY <1>5, <2>1
    <3>2. m \in 1..n /\ m < k /\ j \in DOMAIN p
      BY <1>3, <1>2, <1>5, <1>7, <2>1
    <3>3. targets[m] \in areas /\ Ahead(targets[m], a)
      BY <1>3, <1>2, <3>2
    <3> QED BY <1>6, <3>1, <3>2, <3>3
  <2>2. ASSUME NEW j \in before, j \notin 1..Len(q) PROVE FALSE
    <3>1. PICK b \in areas : p[j].areas = {b.id} /\ Ahead(b, a)
      BY <1>6, <1>7, <2>2
    <3>2. j \in (Len(q) + 1)..Len(p)
      BY <1>7, <2>2
    <3>3. PICK m \in k..n : p[j].areas = {targets[m].id}
      BY <1>5, <3>2
    <3>4. m \in 1..n /\ k \in 1..n
      BY <1>3, <1>2
    <3>5. b = targets[m]
      <4>1. b.id = targets[m].id /\ targets[m] \in areas
        BY <1>2, <3>1, <3>3, <3>4
      <4> QED BY <1>1, <4>1 DEF IsMap
    <3>6. CASE m = k
      BY <1>1, <1>2, <3>1, <3>4, <3>5, <3>6, AheadOrders
    <3>7. CASE m # k
      <4>1. k < m
        BY <3>4, <3>7
      <4>2. Ahead(a, b) /\ Ahead(b, a) /\ a \in areas
        BY <1>2, <3>1, <3>4, <3>5, <4>1
      <4> QED BY <1>1, <4>2, AheadOrders
    <3> QED BY <3>6, <3>7
  <2> QED BY <2>1, <2>2
<1>9. Cardinality(before) = Len(q)
  <2>1. 1 \in Int /\ Len(q) \in Int
    BY <1>7
  <2>2. Cardinality(1..Len(q)) = IF 1 > Len(q) THEN 0 ELSE Len(q) - 1 + 1
    BY <2>1, FS_Interval
  <2> QED BY <1>7, <1>8, <2>2
<1>10. /\ From(q, args) \in Int
       /\ args.window[1] <= From(q, args) /\ args.window[1] \in Int
       /\ \A j \in 1..Len(q) : q[j].end <= From(q, args)
       /\ From(q, args) \in {args.window[1]} \cup {q[j].end : j \in 1..Len(q)}
  BY <1>5, FromFacts, WindowFacts DEF IsDayArgs
<1>11. behind = From(q, args)
  <2> DEFINE ends == {args.window[1]} \cup {p[i].end : i \in before}
  <2>1. ends = {args.window[1]} \cup {q[j].end : j \in 1..Len(q)}
    <3>1. before = 1..Len(q) /\ \A i \in 1..Len(q) : p[i].end = q[i].end
      BY <1>5, <1>8
    <3> HIDE DEF before
    <3> QED BY <3>1
  <2>2. \A j \in 1..Len(q) : q[j].end \in Int
    <3>1. \A j \in 1..Len(q) : q[j] \in DayPeriod
      BY <1>5
    <3>2. \A d \in DayPeriod : d.end \in Int
      BY DEF DayPeriod
    <3> QED BY <3>1, <3>2
  <2>3. From(q, args) \in ends /\ \A e \in ends : e \in Int /\ From(q, args) >= e
    BY <1>10, <2>1, <2>2
  <2> HIDE DEF ends
  <2>4. Max(ends) \in ends /\ \A e \in ends : Max(ends) >= e
    BY <2>3 DEF Max
  <2>5. Max(ends) = From(q, args)
    BY <1>10, <2>3, <2>4
  <2> QED BY <2>5 DEF ends
<1> HIDE DEF behind
<1>12. CASE Full(q, a, args)
  <2>1. CASE Len(q) >= args.periods
    <3>1. Len(q) = args.periods
      BY <1>5, <1>7, <2>1 DEF Tidy, DayArgsOk
    <3> QED BY <1>9, <3>1 DEF before, targets, GreedyFor
  <2>2. CASE From(q, args) + Duration(a, args.perHour) > args.window[2]
    BY <1>11, <2>2 DEF behind, before, targets, GreedyFor
  <2> QED BY <1>12, <2>1, <2>2 DEF Full
<1>13. CASE Len(q) + 1 <= Len(p) /\ p[Len(q) + 1] = NextPeriod(q, a, args)
  <2>1. Len(q) + 1 \in DOMAIN p
    BY <1>7, <1>13
  <2>2. p[Len(q) + 1].areas = {a.id} /\ p[Len(q) + 1].start = behind
    BY <1>11, <1>13 DEF NextPeriod, Period
  <2> QED BY <2>1, <2>2 DEF behind, before, targets, GreedyFor
<1> QED BY <1>5, <1>12, <1>13

\* A plan for one day stays within its window, leaves a candidate out only if the day is
\* full of periods or it does not fit behind those that are ahead of it, and changes no
\* other day: for any map, trails and arguments.
THEOREM DayPlansAreGreedy == Spec => DayPlanGreedy
<1> DEFINE Greedy ==
             LET args    == job.args
                 periods == output'.days[args.day]
                 Behind(a) == Max({args.window[1]} \cup {periods[i].end : i \in LaidBefore(a, periods)})
             IN  /\ \A d \in Days \ {args.day} : output'.days[d] = job.draft.days[d]
                 /\ \A i \in DOMAIN periods : Within(periods[i], <<args.window>>)
                 /\ \A a \in {Candidates(areas, args)[i] : i \in DOMAIN Candidates(areas, args)} :
                       \/ \E i \in DOMAIN periods :
                             /\ periods[i].areas = {a.id}
                             /\ periods[i].start = Behind(a)
                       \/ Cardinality(LaidBefore(a, periods)) = args.periods
                       \/ Behind(a) + Duration(a, args.perHour) > args.window[2]
<1>1. ASSUME IInv, [Next]_vars, Written("optimize") PROVE Greedy
  <2> DEFINE args == job.args
  <2>1. /\ job # NoJob /\ args \in DayArgs /\ DayArgsOk(args)
        /\ output'.days = [job.draft.days EXCEPT ![args.day] = DayPlan(areas, args)]
    BY <1>1, WhatIsWritten DEF Written
  <2>2. IsDayArgs(args) /\ args.day \in Days /\ DOMAIN job.draft.days = Days
    BY <1>1, <2>1, ScheduleAssumption DEF IInv, JobInv, OfItsBase, IsDayArgs
  <2>3. /\ output'.days[args.day] = DayPlan(areas, args)
        /\ \A d \in Days \ {args.day} : output'.days[d] = job.draft.days[d]
    BY <2>1, <2>2
  <2>4. IsMap(areas)
    BY <1>1, AreasKnown
  <2>5. DOMAIN Candidates(areas, args) = 1..Len(Candidates(areas, args))
    BY <2>4, CandidatesFacts
  <2> DEFINE periods == output'.days[args.day]
  <2> HIDE DEF args, periods
  <2>6. ASSUME NEW k \in 1..Len(Candidates(areas, args))
        PROVE  GreedyFor(Candidates(areas, args)[k], periods, args)
    <3>1. periods = DayPlan(areas, args)
      BY <2>3 DEF periods
    <3> QED BY <1>1, <2>1, <2>2, <3>1, GreedyFacts
  <2>7. ASSUME NEW i \in DOMAIN periods PROVE Within(periods[i], <<args.window>>)
    <3>1. periods \in Seq(DayPeriod) /\ Tidy(periods, args)
      BY <2>1, <2>2, <2>3, <2>4, DayPlanFacts DEF periods, DayPlanned
    <3>2. i \in 1..Len(periods)
      BY <3>1, <2>7
    <3>3. args.window[1] <= periods[i].start /\ periods[i].end <= args.window[2]
      BY <3>1, <3>2 DEF Tidy
    <3>4. periods[i].start \in Int /\ args.window[1] \in Int
      <4>1. periods[i] \in DayPeriod
        BY <3>1, <3>2
      <4> QED BY <4>1, <2>2, WindowFacts DEF DayPeriod, IsDayArgs
    <3>5. 1 \in DOMAIN <<args.window>> /\ <<args.window>>[1] = args.window
      OBVIOUS
    <3> QED BY <3>3, <3>4, <3>5 DEF Within
  <2> QED BY <2>3, <2>5, <2>6, <2>7 DEF args, periods, GreedyFor
<1>2. IInv /\ [Next]_vars => [Written("optimize") => Greedy]_output
  BY <1>1
<1> QED BY <1>2, Invariant, PTL DEF Spec, DayPlanGreedy

\* The newest entry of an area decides whether it rests.
LEMMA RestedFacts ==
    ASSUME IInv, NEW a \in map, NEW args, IsDayArgs(args)
    PROVE  LastMown(a, trails) \in Wanted(areas, args) <=> ~Rested(a, args)
<1> DEFINE b == LastMown(a, trails)
           E == Entries(trails, a.id)
           last == LastEntry(E)
           times == {x[2].age : x \in E} \ {None}
           newest == {x \in E : x[2].age = Min(times)}
<1>1. /\ trails \in Seq(TrailSets) /\ IsArea(a) /\ b \in areas /\ IsKnown(b)
  BY AreasKnown DEF IInv, StoreInv, IsMap
<1>2. b \in Wanted(areas, args) <=>
         ~(args.rest > 0 /\ b.age # None /\ b.age < args.rest /\ Status(b) = "completed")
  BY <1>1 DEF Wanted
<1>3. Rested(a, args) <=>
         /\ times # {} /\ Min(times) < args.rest
         /\ \E x \in newest : /\ Status(x[2]) = "completed"
                             /\ \A y \in newest \ {x} : StoredAfter(x, y)
  BY DEF Rested
<1>4. args.rest \in Nat
  BY DEF IsDayArgs
<1>5. /\ IF E = {} THEN b.age = None
         ELSE /\ b.age = last[2].age /\ b.percentage = last[2].percentage
              /\ b.covered = last[2].covered
  BY <1>1, LastMownFacts
<1> HIDE DEF b
<1>6. CASE E = {}
  <2>1. times = {}
    BY <1>6
  <2> HIDE DEF E, times, newest
  <2> QED BY <1>2, <1>3, <1>5, <1>6, <2>1 DEF b
<1>7. CASE E # {}
  <2>1. /\ last \in E /\ \A y \in E \ {last} :
                            Later(last[2], y[2]) \/ (last[2].age = y[2].age /\ StoredAfter(last, y))
        /\ \A x \in E : x[1] \in Int /\ x[2].row \in Nat /\ x[2].age \in Nat \cup {None}
    BY <1>1, <1>7, LastEntryFacts, EntriesFacts DEF IsEntry
  <2>2. Status(b) = Status(last[2]) /\ b.age = last[2].age
    BY <1>5, <1>7 DEF Status
  <2>3. \A t : t \in times <=> t # None /\ \E x \in E : t = x[2].age
    OBVIOUS
  <2>4. newest = {x \in E : x[2].age = Min(times)}
    OBVIOUS
  <2> HIDE DEF E, last, times, newest
  <2>5. CASE last[2].age = None
    <3>1. \A x \in E : x[2].age = None
      BY <2>1, <2>5 DEF Later
    <3>2. times = {}
      BY <2>3, <3>1
    <3> QED BY <1>2, <1>3, <2>2, <2>5, <3>2 DEF b
  <2>6. CASE last[2].age # None
    <3>1. last[2].age \in times /\ \A t \in times : last[2].age <= t /\ t \in Nat
      BY <2>1, <2>3, <2>6 DEF Later, None
    <3>2. Min(times) \in times /\ \A t \in times : Min(times) <= t
      BY <3>1 DEF Min
    <3>3. Min(times) = last[2].age /\ last[2].age \in Nat
      BY <3>1, <3>2
    <3>4. last \in newest /\ \A y \in newest \ {last} : StoredAfter(last, y)
      BY <2>1, <2>4, <3>3 DEF Later
    <3>5. \A x \in newest \ {last} : ~StoredAfter(x, last)
      BY <2>1, <2>4, <3>4 DEF StoredAfter
    <3>6. (\E x \in newest : /\ Status(x[2]) = "completed"
                             /\ \A y \in newest \ {x} : StoredAfter(x, y))
             <=> Status(last[2]) = "completed"
      BY <3>4, <3>5
    <3> QED BY <1>2, <1>3, <1>4, <2>2, <2>6, <3>1, <3>3, <3>6 DEF b
  <2> QED BY <2>5, <2>6
<1> QED BY <1>6, <1>7

\* However the trails came in, a plan for one day leaves out no area but those whose
\* newest mow was complete and is recent, and plans none of these.
THEOREM NewestMowDecides == Spec => NewestMowCounts
<1> DEFINE Counts ==
             \A a \in map :
                IF Rested(a, job.args)
                THEN \A i \in DOMAIN output'.days[job.args.day] :
                        a.id \notin output'.days[job.args.day][i].areas
                ELSE a.id \in {Candidates(areas, job.args)[i].id :
                                 i \in DOMAIN Candidates(areas, job.args)}
<1>1. ASSUME IInv, [Next]_vars, Written("optimize") PROVE Counts
  <2> DEFINE args == job.args
             targets == Candidates(areas, args)
             p == output'.days[args.day]
  <2>1. /\ job # NoJob /\ args \in DayArgs /\ DayArgsOk(args)
        /\ output'.days = [job.draft.days EXCEPT ![args.day] = DayPlan(areas, args)]
    BY <1>1, WhatIsWritten DEF Written
  <2>2. IsDayArgs(args) /\ args.day \in Days /\ DOMAIN job.draft.days = Days
    BY <1>1, <2>1, ScheduleAssumption DEF IInv, JobInv, OfItsBase, IsDayArgs
  <2>3. p = DayPlan(areas, args)
    BY <2>1, <2>2
  <2> SUFFICES ASSUME NEW a \in map
               PROVE  /\ Rested(a, args) => \A i \in DOMAIN p : a.id \notin p[i].areas
                      /\ ~Rested(a, args) => a.id \in {targets[i].id : i \in DOMAIN targets}
    OBVIOUS
  <2> HIDE DEF p, args
  <2>4. IsMap(areas) /\ LastMown(a, trails) \in areas /\ LastMown(a, trails).id = a.id
    BY <1>1, AreasKnown
  <2>5. /\ targets \in Seq(Wanted(areas, args)) /\ DOMAIN targets = 1..Len(targets)
        /\ \A b \in Wanted(areas, args) : \E k \in 1..Len(targets) : targets[k] = b
    BY <2>4, CandidatesFacts
  <2>6. DayPlanned(p, targets, args)
    BY <2>1, <2>2, <2>3, <2>4, DayPlanFacts
  <2> HIDE DEF targets
  <2>7. LastMown(a, trails) \in Wanted(areas, args) <=> ~Rested(a, args)
    BY <1>1, <2>2, RestedFacts
  <2>8. ASSUME NEW i \in DOMAIN p, a.id \in p[i].areas
        PROVE  LastMown(a, trails) \in Wanted(areas, args)
    <3>1. i \in 1..Len(p)
      BY <2>6 DEF DayPlanned
    <3>2. PICK m \in 1..Len(targets) : p[i].areas = {targets[m].id}
      BY <2>6, <3>1 DEF DayPlanned
    <3>3. targets[m] \in Wanted(areas, args) /\ targets[m].id = LastMown(a, trails).id
      BY <2>4, <2>5, <2>8, <3>2
    <3>4. targets[m] \in areas
      BY <3>3 DEF Wanted
    <3> QED BY <2>4, <3>3, <3>4 DEF IsMap
  <2>9. ASSUME LastMown(a, trails) \in Wanted(areas, args)
        PROVE  a.id \in {targets[i].id : i \in DOMAIN targets}
    BY <2>4, <2>5, <2>9
  <2> QED BY <2>7, <2>8, <2>9
<1>2. IInv /\ [Next]_vars => [Written("optimize") => Counts]_output
  BY <1>1
<1> QED BY <1>2, Invariant, PTL DEF Spec, NewestMowCounts

\* A day laid out by the plan is one that validate_draft accepts.
LEMMA DayPlanValid ==
    ASSUME NEW S, IsMap(S), NEW args, IsDayArgs(args), DayArgsOk(args), NEW days,
           DOMAIN days = Days, Valid(days)
    PROVE  Valid([days EXCEPT ![args.day] = DayPlan(S, args)])
<1> DEFINE p == DayPlan(S, args)
           new == [days EXCEPT ![args.day] = p]
<1>1. DayPlanned(p, Candidates(S, args), args)
  BY DayPlanFacts
<1> HIDE DEF p
<1>2. p \in Seq(DayPeriod) /\ Tidy(p, args)
  BY <1>1 DEF DayPlanned
<1>3. /\ args.window[1] \in Int /\ args.window[2] \in Int
      /\ 0 <= args.window[1] /\ args.window[2] <= 96
      /\ args.periods <= MaxPeriods /\ args.periods \in Int
  BY WindowFacts DEF IsDayArgs, DayArgsOk, MaxPeriods
<1>4. Len(p) <= MaxPeriods
  BY <1>2, <1>3 DEF Tidy, MaxPeriods
<1>5. ASSUME NEW i \in DOMAIN p
      PROVE  ValidPeriod(p[i]) /\ \A j \in 1..(i - 1) : p[j].end <= p[i].start
  <2>1. i \in 1..Len(p) /\ p[i] \in DayPeriod
    BY <1>2
  <2>2. p[i].start \in Int /\ p[i].end \in Int /\ p[i].mode = "custom"
    BY <2>1 DEF DayPeriod
  <2>3. \E m \in 1..Len(Candidates(S, args)) : p[i].areas = {Candidates(S, args)[m].id}
    BY <1>1, <2>1 DEF DayPlanned
  <2>4. /\ args.window[1] <= p[i].start /\ p[i].start < p[i].end /\ p[i].end <= args.window[2]
        /\ \A j \in 1..(i - 1) : p[j].end <= p[i].start
    BY <1>2, <2>1 DEF Tidy
  <2>5. 0 <= p[i].start /\ p[i].end <= Midnight
    BY <1>3, <2>2, <2>4 DEF Midnight
  <2> QED BY <2>2, <2>3, <2>4, <2>5 DEF ValidPeriod
<1>6. new[args.day] = p /\ \A d \in Days : d # args.day => new[d] = days[d]
  BY DEF IsDayArgs
<1> HIDE DEF new
<1>7. ASSUME NEW d \in Days
      PROVE  /\ Len(new[d]) <= MaxPeriods
             /\ \A i \in DOMAIN new[d] :
                   /\ ValidPeriod(new[d][i])
                   /\ \A j \in 1..(i - 1) : new[d][j].end <= new[d][i].start
  <2>1. CASE d = args.day
    BY <1>4, <1>5, <1>6, <2>1
  <2>2. CASE d # args.day
    BY <1>6, <2>2 DEF Valid
  <2> QED BY <2>1, <2>2
<1>8. Valid(new)
  BY <1>7 DEF Valid
<1> QED BY <1>8 DEF new, p

-----------------------------------------------------------------------------
(* Sums, as the size of a set: of the n-th number, that many cells.         *)

Cells(f, n) == {c \in (1..n) \X Nat : c[2] \in 1..f[c[1]]}

LEMMA TotalIsSize ==
    ASSUME NEW f \in Seq(Nat)
    PROVE  /\ IsFiniteSet(Cells(f, Len(f))) /\ Cardinality(Cells(f, Len(f))) = Total(f)
           /\ Total(f) \in Nat
<1>1. Len(f) \in Nat /\ f \in Seq(Int) /\ \A n \in 1..Len(f) : f[n] \in Nat
  OBVIOUS
<1>2. PICK sum \in [0..Len(f) -> Int] :
         /\ sum[0] = 0
         /\ \A n \in 1..Len(f) : sum[n] = sum[n - 1] + f[n]
         /\ Total(f) = sum[Len(f)]
  BY <1>1, TotalRecursion
<1> DEFINE Right == {n \in 0..Len(f) : /\ IsFiniteSet(Cells(f, n))
                                       /\ Cardinality(Cells(f, n)) = sum[n]}
<1>3. 0 \in Right
  <2>1. Cells(f, 0) = {}
    BY DEF Cells
  <2>2. IsFiniteSet(Cells(f, 0)) /\ Cardinality(Cells(f, 0)) = 0
    BY <2>1, FS_EmptySet
  <2>3. 0 \in 0..Len(f)
    BY <1>1
  <2> QED BY <1>2, <2>2, <2>3
<1>4. ASSUME NEW n \in 1..Len(f), n - 1 \in Right PROVE n \in Right
  <2> DEFINE New == {n} \X (1..f[n])
             Old == Cells(f, n - 1)
  <2>1. f[n] \in Nat /\ 1 \in Int /\ f[n] \in Int
    BY <1>1
  <2>2. IsFiniteSet(1..f[n]) /\ Cardinality(1..f[n]) = f[n]
    <3>1. IsFiniteSet(1..f[n]) /\ Cardinality(1..f[n]) = IF 1 > f[n] THEN 0 ELSE f[n] - 1 + 1
      BY <2>1, FS_Interval
    <3> QED BY <2>1, <3>1
  <2>3. IsFiniteSet(New) /\ Cardinality(New) = 1 * f[n]
    <3>1. IsFiniteSet({n}) /\ Cardinality({n}) = 1
      BY FS_Singleton
    <3> QED BY <2>2, <3>1, FS_Product
  <2>4. New \cap Old = {}
    <3>1. \A c \in Old : c[1] \in 1..(n - 1)
      BY DEF Cells
    <3>2. \A c \in New : c[1] = n
      OBVIOUS
    <3>3. n \notin 1..(n - 1)
      OBVIOUS
    <3> HIDE DEF New, Old
    <3> QED BY <3>1, <3>2, <3>3
  <2>5. Cells(f, n) = Old \cup New
    <3>1. \A i : i \in 1..n <=> i \in 1..(n - 1) \/ i = n
      OBVIOUS
    <3>2. Cells(f, n) \subseteq Old \cup New
      BY <3>1 DEF Cells
    <3>3. Old \cup New \subseteq Cells(f, n)
      BY <3>1, <2>1 DEF Cells
    <3> QED BY <3>2, <3>3
  <2>6. IsFiniteSet(Old) /\ Cardinality(Old) = sum[n - 1] /\ n - 1 \in 0..Len(f)
    BY <1>4
  <2> HIDE DEF Old, New
  <2>7. /\ IsFiniteSet(Cells(f, n))
        /\ Cardinality(Cells(f, n)) = Cardinality(Old) + Cardinality(New) - Cardinality({})
    <3>1. Old \cap New = {}
      BY <2>4
    <3> QED BY <2>3, <2>5, <2>6, <3>1, FS_Union
  <2>8. sum[n] = sum[n - 1] + f[n] /\ sum[n - 1] \in Int /\ n \in 0..Len(f)
    <3>1. n \in 0..Len(f) /\ n - 1 \in 0..Len(f)
      BY <1>1
    <3> QED BY <1>2, <3>1
  <2> QED BY <2>1, <2>3, <2>6, <2>7, <2>8, FS_EmptySet
<1> HIDE DEF Right
<1>5. 0..Len(f) \subseteq Right
  BY <1>1, <1>3, <1>4, NatsUpTo
<1>6. Len(f) \in Right
  BY <1>1, <1>5
<1>7. IsFiniteSet(Cells(f, Len(f))) /\ Cardinality(Cells(f, Len(f))) = Total(f)
  BY <1>2, <1>6 DEF Right
<1> QED BY <1>7, FS_CardinalityType

\* A sum is no greater than one of greater numbers, and equal only if they are.
LEMMA TotalOrder ==
    ASSUME NEW f \in Seq(Nat), NEW g \in Seq(Nat), Len(f) = Len(g),
           \A i \in 1..Len(f) : f[i] <= g[i]
    PROVE  Total(f) <= Total(g) /\ (Total(f) = Total(g) => f = g)
<1>1. Len(f) \in Nat /\ \A i \in 1..Len(f) : f[i] \in Nat /\ g[i] \in Nat
  OBVIOUS
<1>2. Cells(f, Len(f)) \in SUBSET Cells(g, Len(g))
  BY <1>1 DEF Cells
<1>3. Total(f) <= Total(g) /\ (Total(f) = Total(g) => Cells(f, Len(f)) = Cells(g, Len(g)))
  BY <1>2, TotalIsSize, FS_Subset
<1>4. ASSUME Cells(f, Len(f)) = Cells(g, Len(g)), NEW i \in 1..Len(f) PROVE f[i] = g[i]
  <2>1. CASE f[i] < g[i]
    <3>1. <<i, g[i]>> \in Cells(g, Len(g)) /\ <<i, g[i]>> \notin Cells(f, Len(f))
      BY <1>1, <2>1 DEF Cells
    <3> QED BY <1>4, <3>1
  <2>2. f[i] <= g[i]
    OBVIOUS
  <2> QED BY <1>1, <2>1, <2>2
<1>5. Cells(f, Len(f)) = Cells(g, Len(g)) => f = g
  <2>1. SUFFICES ASSUME Cells(f, Len(f)) = Cells(g, Len(g)) PROVE f = g
    OBVIOUS
  <2>2. \A i \in 1..Len(f) : f[i] = g[i]
    BY <1>4, <2>1
  <2>3. f = [i \in 1..Len(f) |-> f[i]] /\ g = [i \in 1..Len(f) |-> g[i]]
    OBVIOUS
  <2> QED BY <2>2, <2>3
<1> QED BY <1>3, <1>5

\* One more somewhere is one more in all.
LEMMA TotalOneMore ==
    ASSUME NEW f \in Seq(Nat), NEW g \in Seq(Nat), Len(f) = Len(g), NEW i \in 1..Len(f),
           g[i] = f[i] + 1, \A j \in 1..Len(f) : j # i => g[j] = f[j]
    PROVE  Total(g) = Total(f) + 1
<1>1. Len(f) \in Nat /\ \A j \in 1..Len(f) : f[j] \in Nat /\ g[j] \in Nat
  <2>1. \A j \in 1..Len(f) : f[j] \in Nat
    OBVIOUS
  <2>2. \A j \in 1..Len(g) : g[j] \in Nat
    OBVIOUS
  <2> QED BY <2>1, <2>2
<1> DEFINE c == <<i, f[i] + 1>>
<1>2. c \notin Cells(f, Len(f))
  BY <1>1 DEF Cells
<1>3. Cells(g, Len(g)) \subseteq Cells(f, Len(f)) \cup {c}
  <2> SUFFICES ASSUME NEW d \in Cells(g, Len(g)), d \notin Cells(f, Len(f)) PROVE d = c
    OBVIOUS
  <2>1. /\ d = <<d[1], d[2]>> /\ d[1] \in 1..Len(f) /\ d[2] \in Nat
        /\ d[2] \in 1..g[d[1]] /\ d[2] \notin 1..f[d[1]]
    BY DEF Cells
  <2>2. d[1] = i
    BY <2>1
  <2>3. d[2] = f[i] + 1
    BY <1>1, <2>1, <2>2
  <2> QED BY <2>1, <2>2, <2>3
<1>4. Cells(f, Len(f)) \cup {c} \subseteq Cells(g, Len(g))
  <2>1. c \in Cells(g, Len(g))
    BY <1>1 DEF Cells
  <2>2. ASSUME NEW d \in Cells(f, Len(f)) PROVE d \in Cells(g, Len(g))
    <3>1. d \in (1..Len(f)) \X Nat /\ d[1] \in 1..Len(f) /\ d[2] \in 1..f[d[1]]
      BY DEF Cells
    <3>2. \A j \in 1..Len(f) : f[j] \in Nat /\ g[j] \in Nat /\ f[j] <= g[j]
      <4> SUFFICES ASSUME NEW j \in 1..Len(f) PROVE f[j] <= g[j]
        BY <1>1
      <4>1. g[j] = f[j] + 1 \/ g[j] = f[j]
        OBVIOUS
      <4> QED BY <1>1, <4>1
    <3>3. d[2] \in 1..g[d[1]]
      BY <3>1, <3>2
    <3> QED BY <3>1, <3>3 DEF Cells
  <2> QED BY <2>1, <2>2
<1>5. Cells(g, Len(g)) = Cells(f, Len(f)) \cup {c}
  BY <1>3, <1>4
<1> HIDE DEF c
<1> QED BY <1>2, <1>5, TotalIsSize, FS_AddElement

\* The numbers in another order, and without the zeros, have the same sum.
LEMMA TotalReordered ==
    ASSUME NEW f \in Seq(Nat), NEW g \in Seq(Nat), NEW p \in [1..Len(f) -> 1..Len(g)],
           \A i, j \in 1..Len(f) : p[i] = p[j] => i = j,
           \A j \in 1..Len(g) : g[j] = 0 \/ \E i \in 1..Len(f) : p[i] = j,
           \A i \in 1..Len(f) : f[i] = g[p[i]]
    PROVE  Total(f) = Total(g)
<1> DEFINE C == Cells(f, Len(f))
           D == Cells(g, Len(g))
           h == [c \in C |-> <<p[c[1]], c[2]>>]
<1>1. \A c \in C : c = <<c[1], c[2]>> /\ c[1] \in 1..Len(f) /\ c[2] \in Nat /\ c[2] \in 1..f[c[1]]
  BY DEF Cells
<1>2. \A j \in 1..Len(g), k \in Nat : <<j, k>> \in D <=> k \in 1..g[j]
  BY DEF Cells
<1>3. \A d \in D : d = <<d[1], d[2]>> /\ d[1] \in 1..Len(g) /\ d[2] \in Nat /\ d[2] \in 1..g[d[1]]
  BY DEF Cells
<1>4. \A i \in 1..Len(f), k \in Nat : <<i, k>> \in C <=> k \in 1..f[i]
  BY DEF Cells
<1>5. h = [c \in C |-> h[c]] /\ \A c \in C : h[c] = <<p[c[1]], c[2]>>
  OBVIOUS
<1> HIDE DEF C, D, h
<1>6. ASSUME NEW c \in C PROVE h[c] \in D
  <2>1. c[1] \in 1..Len(f) /\ c[2] \in Nat /\ c[2] \in 1..f[c[1]]
    BY <1>1
  <2>2. p[c[1]] \in 1..Len(g) /\ c[2] \in 1..g[p[c[1]]]
    BY <2>1
  <2>3. <<p[c[1]], c[2]>> \in D
    BY <1>2, <2>1, <2>2
  <2> QED BY <1>5, <2>3
<1>7. ASSUME NEW c \in C, NEW d \in C, h[c] = h[d] PROVE c = d
  <2>1. p[c[1]] = p[d[1]] /\ c[2] = d[2]
    BY <1>5, <1>7
  <2>2. c[1] = d[1]
    BY <1>1, <2>1
  <2>3. c = <<c[1], c[2]>> /\ d = <<d[1], d[2]>>
    BY <1>1
  <2>4. <<c[1], c[2]>> = <<d[1], d[2]>>
    BY <2>1, <2>2
  <2> QED BY <2>3, <2>4, Zenon
<1>8. ASSUME NEW d \in D PROVE \E c \in C : h[c] = d
  <2>1. PICK i \in 1..Len(f) : p[i] = d[1]
    <3>1. d[1] \in 1..Len(g) /\ g[d[1]] # 0
      BY <1>3
    <3> QED BY <3>1
  <2>2. d = <<d[1], d[2]>> /\ d[2] \in Nat /\ d[2] \in 1..f[i]
    <3>1. d[2] \in 1..g[p[i]]
      BY <1>3, <2>1
    <3> QED BY <1>3, <3>1
  <2> DEFINE c == <<i, d[2]>>
  <2>3. c \in C /\ c[1] = i /\ c[2] = d[2]
    BY <1>4, <2>2
  <2> HIDE DEF c
  <2>4. h[c] = <<p[c[1]], c[2]>>
    BY <1>5, <2>3
  <2>5. h[c] = d
    BY <2>1, <2>2, <2>3, <2>4
  <2> QED BY <2>3, <2>5
<1>9. IsFiniteSet(C) /\ Cardinality(C) = Total(f) /\ Cardinality(D) = Total(g)
  BY TotalIsSize DEF C, D
<1>10. Cardinality(D) = Cardinality(C)
  <2>1. h = [c \in C |-> h[c]] /\ IsFiniteSet(C)
    BY <1>5, <1>9
  <2>2. /\ \A c \in C : h[c] \in D
        /\ \A c, d \in C : h[c] = h[d] => c = d
        /\ \A d \in D : \E c \in C : h[c] = d
    BY <1>6, <1>7, <1>8
  <2> QED BY ONLY <2>1, <2>2, OneToOne
<1> QED BY <1>9, <1>10

\* A sum is what adding one number after the other comes to.
LEMMA TotalSteps ==
    ASSUME NEW f \in Seq(Int), NEW s, s[0] = 0, \A n \in 1..Len(f) : s[n] = s[n - 1] + f[n]
    PROVE  Total(f) = s[Len(f)]
<1>1. PICK sum \in [0..Len(f) -> Int] :
         /\ sum[0] = 0
         /\ \A n \in 1..Len(f) : sum[n] = sum[n - 1] + f[n]
         /\ Total(f) = sum[Len(f)]
  BY TotalRecursion
<1> DEFINE n == Len(f)
           Same == {i \in 0..n : sum[i] = s[i]}
<1>2. n \in Nat /\ 0 \in Same
  BY <1>1
<1>3. ASSUME NEW i \in 1..n, i - 1 \in Same PROVE i \in Same
  BY <1>1, <1>2, <1>3
<1> HIDE DEF Same
<1>4. 0..n \subseteq Same
  BY <1>2, <1>3, NatsUpTo
<1> QED BY <1>1, <1>2, <1>4 DEF Same

LEMMA TotalOnes ==
    ASSUME NEW f \in Seq(Nat), \A i \in 1..Len(f) : f[i] = 1
    PROVE  Total(f) = Len(f)
<1> DEFINE s == [i \in 0..Len(f) |-> i]
<1>1. Len(f) \in Nat /\ f \in Seq(Int)
  OBVIOUS
<1>2. s[0] = 0 /\ s[Len(f)] = Len(f)
  BY <1>1
<1>3. \A n \in 1..Len(f) : s[n] = s[n - 1] + f[n]
  BY <1>1
<1> HIDE DEF s
<1> QED BY <1>1, <1>2, <1>3, TotalSteps

LEMMA TotalSum ==
    ASSUME NEW n \in Nat, NEW f \in [1..n -> Nat], NEW g \in [1..n -> Nat]
    PROVE  Total([i \in 1..n |-> f[i] + g[i]]) = Total(f) + Total(g)
<1> DEFINE h == [i \in 1..n |-> f[i] + g[i]]
<1>1. f \in Seq(Int) /\ g \in Seq(Int) /\ h \in Seq(Int) /\ Len(f) = n /\ Len(g) = n /\ Len(h) = n
  OBVIOUS
<1>2. \A i \in 1..n : h[i] = f[i] + g[i] /\ f[i] \in Int /\ g[i] \in Int
  OBVIOUS
<1> HIDE DEF h
<1>3. PICK s \in [0..Len(f) -> Int] :
         s[0] = 0 /\ (\A i \in 1..Len(f) : s[i] = s[i - 1] + f[i]) /\ Total(f) = s[Len(f)]
  BY <1>1, TotalRecursion
<1>4. PICK t \in [0..Len(g) -> Int] :
         t[0] = 0 /\ (\A i \in 1..Len(g) : t[i] = t[i - 1] + g[i]) /\ Total(g) = t[Len(g)]
  BY <1>1, TotalRecursion
<1> DEFINE u == [i \in 0..n |-> s[i] + t[i]]
<1>5. u[0] = 0 /\ u[n] = Total(f) + Total(g)
  BY <1>1, <1>3, <1>4
<1>6. \A i \in 1..n : u[i] = u[i - 1] + h[i]
  BY <1>1, <1>2, <1>3, <1>4
<1> HIDE DEF u
<1>7. Total(h) = u[n]
  BY <1>1, <1>5, <1>6, TotalSteps
<1> QED BY <1>5, <1>7 DEF h

-----------------------------------------------------------------------------
(* Which area on which day.                                                *)

LEMMA ScoreNat == ASSUME NEW a, IsKnown(a) PROVE Score(a) \in Nat
<1>1. a.size \div 25 \in Nat
  BY DEF IsKnown
<1>2. a.percentage \in Nat /\ a.covered \in Nat /\ a.age \in Nat \cup {None}
  BY DEF IsKnown
<1>3. Status(a) = "partial" => 90 + (100 - a.percentage) \div 2 \in Nat
  <2>1. Status(a) = "partial" => a.percentage < 98
    BY <1>2 DEF Status
  <2>2. \A n \in Nat : n < 98 => 90 + (100 - n) \div 2 \in Nat
    OBVIOUS
  <2> QED BY <1>2, <2>1, <2>2
<1>4. a.age # None => 3 * AtMost(a.age, 30) \in Nat
  BY <1>2 DEF AtMost
<1>5. (IF Status(a) = "no_mow_in_history" THEN 120
       ELSE IF Status(a) = "partial" THEN 90 + (100 - a.percentage) \div 2
       ELSE IF a.age = None THEN 40 ELSE 3 * AtMost(a.age, 30)) \in Nat
  BY <1>3, <1>4
<1>6. (IF a.height >= 60 THEN 8 ELSE 0) \in Nat
  OBVIOUS
<1> QED BY <1>1, <1>5, <1>6 DEF Score

LEMMA WeightType == ASSUME NEW a, IsKnown(a) PROVE Weight(a) \in Nat \ {0}
<1> DEFINE x == 150 + Tall(a)
           y == 600 + AtMost(Score(a), 180)
<1>1. a.size \in Nat \ {0} /\ x \in Nat /\ x >= 150 /\ y \in Nat /\ y >= 600
  <2>1. Tall(a) \in Nat
    BY DEF Tall, AtLeast, IsKnown
  <2>2. AtMost(Score(a), 180) \in Nat
    BY ScoreNat DEF AtMost
  <2> QED BY <2>1, <2>2 DEF IsKnown
<1>2. Weight(a) = (a.size * x * y) \div 900
  BY DEF Weight
<1> HIDE DEF x, y
<1>3. a.size * x \in Nat /\ a.size * x >= 150
  <2>1. \A m, n \in Nat : m >= 1 => m * n \in Nat /\ m * n >= n
    OBVIOUS
  <2> QED BY <1>1, <2>1
<1>4. (a.size * x) * y \in Nat /\ (a.size * x) * y >= 900
  <2> DEFINE z == a.size * x
  <2>1. z \in Nat /\ z >= 150
    BY <1>3
  <2> HIDE DEF z
  <2>2. z * y \in Nat /\ z * y >= 150 * y
    BY <1>1, <2>1
  <2>3. z * y >= 900
    BY <1>1, <2>2
  <2> QED BY <2>2, <2>3 DEF z
<1>5. \A n \in Nat : n >= 900 => n \div 900 \in Nat \ {0}
  OBVIOUS
<1> QED BY <1>2, <1>4, <1>5

\* The buckets of one kind, one for each day, while areas are put into them.
Bucket(kind, capacity) ==
    [kind : {kind}, day : Days, areas : SUBSET Nat, weight : Nat, capacity : {capacity}]
Filling(kind, capacity) ==
    {b \in [Days -> Bucket(kind, capacity)] :
       \A d \in Days : b[d].day = d /\ (b[d].areas = {} \/ b[d].weight > 0)}

\* The day the area is put on.
DayFor(buckets, area, index, visit, visits) ==
    LET preferred == Round(index * visits + 7 * visit, visits) % 7
        Better(d, e) ==
            \/ buckets[d].weight < buckets[e].weight
            \/ /\ buckets[d].weight = buckets[e].weight
               /\ Distance(d - 1, preferred) < Distance(e - 1, preferred)
    IN  First({d \in Days : area.id \notin buckets[d].areas}, Better)

LEMMA PlacedOn ==
    ASSUME NEW kind, NEW capacity, NEW b \in Filling(kind, capacity), NEW a, IsKnown(a),
           NEW index, NEW visit, NEW visits
    PROVE  LET day == DayFor(b, a, index, visit, visits)
               new == Placed(b, a, index, visit, visits)
           IN  /\ new \in Filling(kind, capacity)
               /\ \A d \in Days : d # day => new[d] = b[d]
               /\ day \in Days => new[day].areas = b[day].areas \cup {a.id}
<1> DEFINE day == DayFor(b, a, index, visit, visits)
           new == Placed(b, a, index, visit, visits)
<1>1. new = [b EXCEPT ![day].areas = @ \cup {a.id}, ![day].weight = @ + Weight(a)]
  BY DEF Placed, DayFor
<1> HIDE DEF day, new
<1>2. /\ b \in [Days -> Bucket(kind, capacity)]
      /\ \A d \in Days : b[d].day = d /\ (b[d].areas = {} \/ b[d].weight > 0)
  BY DEF Filling
<1>3. Weight(a) \in Nat \ {0} /\ a.id \in Nat
  BY WeightType DEF IsKnown
<1>4. CASE day \notin Days
  <2>1. new = b
    BY <1>1, <1>2, <1>4
  <2> QED BY <1>4, <2>1 DEF day, new
<1>5. CASE day \in Days
  <2> DEFINE r == [b[day] EXCEPT !.areas = @ \cup {a.id}, !.weight = @ + Weight(a)]
  <2>1. new = [b EXCEPT ![day] = r]
    BY <1>1, <1>2, <1>5
  <2>2. b[day] \in Bucket(kind, capacity)
    BY <1>2, <1>5
  <2>3. /\ b[day].areas \subseteq Nat /\ b[day].weight \in Nat /\ b[day].day \in Days
        /\ b[day].kind = kind /\ b[day].capacity = capacity
    BY <2>2 DEF Bucket
  <2>4. /\ r \in Bucket(kind, capacity) /\ r.areas = b[day].areas \cup {a.id}
        /\ r.weight = b[day].weight + Weight(a) /\ r.day = b[day].day
    <3> DEFINE new_areas  == b[day].areas \cup {a.id}
               new_weight == b[day].weight + Weight(a)
    <3>1. new_areas \in SUBSET Nat /\ new_weight \in Nat
      BY <1>3, <2>3
    <3> HIDE DEF new_areas, new_weight
    <3>2. r = [b[day] EXCEPT !.areas = new_areas, !.weight = new_weight]
      BY DEF new_areas, new_weight
    <3> HIDE DEF r
    <3>3. r \in Bucket(kind, capacity) /\ r.areas = new_areas /\ r.weight = new_weight
      BY <2>2, <3>1, <3>2 DEF Bucket
    <3>4. r.day = b[day].day
      BY <2>2, <3>2 DEF Bucket
    <3> QED BY <3>3, <3>4 DEF new_areas, new_weight
  <2> HIDE DEF r
  <2>5. new[day] = r /\ \A d \in Days : d # day => new[d] = b[d]
    BY <1>2, <1>5, <2>1
  <2>6. new \in [Days -> Bucket(kind, capacity)]
    BY <1>2, <2>1, <2>4
  <2>7. \A d \in Days : new[d].day = d /\ (new[d].areas = {} \/ new[d].weight > 0)
    <3>1. r.weight > 0
      BY <1>3, <2>3, <2>4
    <3> QED BY <1>2, <2>4, <2>5, <3>1
  <2>8. new \in Filling(kind, capacity)
    BY <2>6, <2>7 DEF Filling
  <2> QED BY <1>5, <2>4, <2>5, <2>8 DEF day, new
<1> QED BY <1>4, <1>5

LEMMA RoundType == ASSUME NEW n \in Int, NEW d \in Nat \ {0} PROVE Round(n, d) \in Int
<1>1. n \div d \in Int
  OBVIOUS
<1> QED BY <1>1 DEF Round

\* As long as the area is not on every day, it is one it is not on yet.
LEMMA DayForFacts ==
    ASSUME NEW kind, NEW capacity, NEW b \in Filling(kind, capacity), NEW a,
           NEW index \in Int, NEW visit \in Int, NEW visits \in Nat \ {0},
           \E d \in Days : a.id \notin b[d].areas
    PROVE  /\ DayFor(b, a, index, visit, visits) \in Days
           /\ a.id \notin b[DayFor(b, a, index, visit, visits)].areas
<1> DEFINE free == {d \in Days : a.id \notin b[d].areas}
           preferred == Round(index * visits + 7 * visit, visits) % 7
           far == [d \in Days |-> Distance(d - 1, preferred)]
           B == {q \in Days \X Days :
                   \/ b[q[1]].weight < b[q[2]].weight
                   \/ b[q[1]].weight = b[q[2]].weight /\ far[q[1]] < far[q[2]]}
           Best(i) == \A j \in free \ {i} :
                         <<i, j>> \in B \/ (<<j, i>> \notin B /\ i < j)
<1>1. preferred \in Int
  <2>1. index * visits + 7 * visit \in Int
    OBVIOUS
  <2>2. Round(index * visits + 7 * visit, visits) \in Int
    BY <2>1, RoundType
  <2> QED BY <2>2
<1> HIDE DEF preferred
<1>2. \A d \in Days : far[d] \in Int /\ b[d].weight \in Int
  <2>1. ASSUME NEW d \in Days PROVE Distance(d - 1, preferred) \in Int
    <3>1. ((d - 1) - preferred) % 7 \in Int /\ (preferred - (d - 1)) % 7 \in Int
      BY <1>1 DEF Days
    <3> QED BY <3>1 DEF Distance, AtMost
  <2>2. \A d \in Days : b[d] \in Bucket(kind, capacity)
    BY DEF Filling
  <2> QED BY <2>1, <2>2 DEF Bucket
<1>3. free \in SUBSET Int /\ free # {} /\ free \subseteq Days
  BY DEF Days
<1>4. IsFiniteSet(free)
  <2>1. IsFiniteSet(Days)
    BY 1 \in Int, 7 \in Int, FS_Interval DEF Days
  <2> HIDE DEF free
  <2> QED BY <1>3, <2>1, FS_Subset
<1>5. DayFor(b, a, index, visit, visits) = CHOOSE i \in free : Best(i)
  <2>1. \A d, e \in free : <<d, e>> \in B <=>
           \/ b[d].weight < b[e].weight
           \/ /\ b[d].weight = b[e].weight
              /\ Distance(d - 1, preferred) < Distance(e - 1, preferred)
    BY <1>3
  <2>2. \A i \in free : Best(i) <=>
           \A j \in free \ {i} :
              \/ \/ b[i].weight < b[j].weight
                 \/ /\ b[i].weight = b[j].weight
                    /\ Distance(i - 1, preferred) < Distance(j - 1, preferred)
              \/ /\ ~\/ b[j].weight < b[i].weight
                     \/ /\ b[j].weight = b[i].weight
                        /\ Distance(j - 1, preferred) < Distance(i - 1, preferred)
                 /\ i < j
    <3> HIDE DEF B
    <3> QED BY <2>1
  <2> HIDE DEF Best, B
  <2> QED BY <2>2 DEF DayFor, First, preferred
<1>6. \A d, e \in Days : <<d, e>> \in B <=>
         \/ b[d].weight < b[e].weight
         \/ b[d].weight = b[e].weight /\ far[d] < far[e]
  OBVIOUS
<1> HIDE DEF B, far
<1>7. /\ \A i \in Days : <<i, i>> \notin B
      /\ \A i, j, k \in Days : <<i, j>> \in B /\ <<j, k>> \in B => <<i, k>> \in B
      /\ \A i, j, k \in Days : <<i, k>> \in B => <<i, j>> \in B \/ <<j, k>> \in B
  BY <1>2, <1>6
<1> HIDE DEF free
<1>8. \E i \in free : Best(i)
  <2>1. /\ \A i \in free : <<i, i>> \notin B
        /\ \A i, j, k \in free : <<i, j>> \in B /\ <<j, k>> \in B => <<i, k>> \in B
        /\ \A i, j, k \in free : <<i, k>> \in B => <<i, j>> \in B \/ <<j, k>> \in B
    BY <1>3, <1>7
  <2> QED BY <1>3, <1>4, <2>1, FirstBy
<1> HIDE DEF Best
<1>9. DayFor(b, a, index, visit, visits) \in free
  BY <1>5, <1>8
<1> QED BY <1>9 DEF free

\* The days an area is on.
On(buckets, id) == {d \in Days : id \in buckets[d].areas}

LEMMA OnFinite ==
    ASSUME NEW b, NEW id
    PROVE  IsFiniteSet(On(b, id)) /\ Cardinality(On(b, id)) \in Nat /\ On(b, id) \subseteq Days
<1>1. IsFiniteSet(Days)
  BY 1 \in Int, 7 \in Int, FS_Interval DEF Days
<1>2. On(b, id) \subseteq Days
  BY DEF On
<1> QED BY <1>1, <1>2, FS_Subset, FS_CardinalityType

\* All visits of an area are on days of their own, and no other area is moved.
LEMMA VisitedFacts ==
    ASSUME NEW kind, NEW capacity, NEW b \in Filling(kind, capacity), NEW a, IsKnown(a),
           NEW index \in Int, NEW visits \in 1..7, On(b, a.id) = {}
    PROVE  LET new == Visited(b, a, index, visits)
           IN  /\ new \in Filling(kind, capacity)
               /\ Cardinality(On(new, a.id)) = visits
               /\ \A id : id # a.id => On(new, id) = On(b, id)
<1> DEFINE T == Filling(kind, capacity)
           Plans(after) == after = [v \in 0..visits |->
                              IF v = 0 THEN b ELSE Placed(after[v - 1], a, index, v - 1, visits)]
           chosen == CHOOSE after : Plans(after)
           G == [q \in (1..visits) \X T |-> Placed(q[2], a, index, q[1] - 1, visits)]
<1>1. visits \in Nat \ {0} /\ visits <= 7
  OBVIOUS
<1>2. Visited(b, a, index, visits) = chosen[visits]
  BY DEF Visited
<1>3. \A v \in 1..visits, f \in T : Placed(f, a, index, v - 1, visits) \in T
  BY PlacedOn
<1> HIDE DEF T
<1>4. G \in [(1..visits) \X T -> T] /\ b \in T
  BY <1>3 DEF T
<1>5. \A v \in 1..visits, f \in T : G[<<v, f>>] = Placed(f, a, index, v - 1, visits)
  OBVIOUS
<1> HIDE DEF G
<1>6. PICK after : RecursionOf(after, T, b, visits, G)
  BY <1>1, <1>4, RecursionExists
<1>7. after \in [0..visits -> T] /\ after[0] = b
  BY <1>6 DEF RecursionOf
<1>8. \A v \in 1..visits : v - 1 \in 0..visits /\ v \in 0..visits /\ v # 0
  BY <1>1
<1>9. \A v \in 1..visits : after[v] = Placed(after[v - 1], a, index, v - 1, visits)
  <2>1. \A v \in 1..visits : after[v] = G[<<v, after[v - 1]>>]
    BY <1>6 DEF RecursionOf
  <2> QED BY <1>5, <1>7, <1>8, <2>1
<1>10. Plans(after)
  <2>1. \A v \in 0..visits : v = 0 \/ v \in 1..visits
    BY <1>1
  <2>2. \A v \in 0..visits :
           after[v] = IF v = 0 THEN b ELSE Placed(after[v - 1], a, index, v - 1, visits)
    BY <1>7, <1>9, <2>1
  <2> QED BY <1>7, <2>2
<1>11. Plans(chosen)
  BY <1>10
<1> HIDE DEF chosen
<1>12. /\ chosen[0] = b
       /\ \A v \in 1..visits : chosen[v] = Placed(chosen[v - 1], a, index, v - 1, visits)
  <2>1. 0 \in 0..visits
    BY <1>1
  <2> QED BY <1>8, <1>11, <2>1
<1> DEFINE Good(f, v) == /\ f \in T /\ Cardinality(On(f, a.id)) = v
                         /\ \A id : id # a.id => On(f, id) = On(b, id)
<1>13. Good(b, 0)
  BY <1>4, FS_EmptySet
<1>14. ASSUME NEW v \in 1..visits, NEW f, Good(f, v - 1)
       PROVE  Good(Placed(f, a, index, v - 1, visits), v)
  <2> DEFINE new == Placed(f, a, index, v - 1, visits)
             day == DayFor(f, a, index, v - 1, visits)
  <2>1. f \in Filling(kind, capacity) /\ Cardinality(On(f, a.id)) = v - 1
    BY <1>14 DEF T
  <2>2. \E d \in Days : a.id \notin f[d].areas
    <3>1. Cardinality(Days) = 7
      <4>1. Cardinality(1..7) = IF 1 > 7 THEN 0 ELSE 7 - 1 + 1
        BY 1 \in Int, 7 \in Int, FS_Interval
      <4> QED BY <4>1 DEF Days
    <3>2. v - 1 # 7
      BY <1>1
    <3>3. On(f, a.id) # Days
      BY <2>1, <3>1, <3>2
    <3> QED BY <3>3 DEF On
  <2>3. v - 1 \in Int
    OBVIOUS
  <2>4. day \in Days /\ a.id \notin f[day].areas
    BY <1>1, <2>1, <2>2, <2>3, DayForFacts
  <2>5. /\ new \in Filling(kind, capacity)
        /\ \A d \in Days : d # day => new[d] = f[d]
        /\ new[day].areas = f[day].areas \cup {a.id}
    BY <2>1, <2>4, PlacedOn
  <2> HIDE DEF new, day
  <2>6. On(new, a.id) = On(f, a.id) \cup {day} /\ day \notin On(f, a.id)
    BY <2>4, <2>5 DEF On
  <2>7. Cardinality(On(new, a.id)) = (v - 1) + 1
    BY <2>1, <2>6, OnFinite, FS_AddElement
  <2>8. \A id : id # a.id => On(new, id) = On(f, id)
    BY <2>4, <2>5 DEF On
  <2>9. Good(new, v)
    BY <1>14, <2>5, <2>7, <2>8 DEF T
  <2> QED BY <2>9 DEF new
<1> HIDE DEF Good
<1>15. \A v \in 0..visits : Good(chosen[v], v)
  <2> DEFINE S == {v \in 0..visits : Good(chosen[v], v)}
  <2>1. 0 \in S
    BY <1>1, <1>12, <1>13
  <2>2. ASSUME NEW v \in 1..visits, v - 1 \in S PROVE v \in S
    BY <1>8, <1>12, <1>14, <2>2
  <2> HIDE DEF S
  <2>3. 0..visits \subseteq S
    BY <1>1, <2>1, <2>2, NatsUpTo
  <2> QED BY <2>3 DEF S
<1>16. Good(chosen[visits], visits)
  BY <1>1, <1>15
<1> QED BY <1>2, <1>16 DEF Good, T

\* An area has at least one visit a week.
LEMMA VisitsType ==
    ASSUME NEW a, NEW args, IsWeekArgs(args), 1 <= args.visits, args.visits <= args.priority
    PROVE  AtMost(Visits(a, args), 7) \in 1..7
<1>1. args.visits \in Int /\ args.priority \in Int
  BY DEF IsWeekArgs
<1>2. Visits(a, args) \in Int /\ 1 <= Visits(a, args)
  BY <1>1 DEF Visits
<1> QED BY <1>2 DEF AtMost

\* When all areas of a kind are on their days, each is on as many as it has visits.
LEMMA AssignedFacts ==
    ASSUME NEW S, IsMap(S), NEW args, IsWeekArgs(args), 1 <= args.visits,
           args.visits <= args.priority, NEW kind, NEW capacity
    PROVE  LET filled == Assigned(S, args, kind, capacity)
           IN  /\ filled \in Filling(kind, capacity)
               /\ \A a \in S : Cardinality(On(filled, a.id)) = AtMost(Visits(a, args), 7)
               /\ \A id : On(filled, id) # {} => \E a \in S : a.id = id
<1> DEFINE targets == Ranked(S)
           n == Len(targets)
           T == Filling(kind, capacity)
           empty == [d \in Days |-> [kind |-> kind, day |-> d, areas |-> {},
                                     weight |-> 0, capacity |-> capacity]]
           Next1(f, i) == Visited(f, targets[i], i - 1, AtMost(Visits(targets[i], args), 7))
           Plans(after) == after = [i \in 0..n |-> IF i = 0 THEN empty ELSE Next1(after[i - 1], i)]
           chosen == CHOOSE after : Plans(after)
<1>1. /\ n \in Nat /\ targets \in [1..n -> S]
      /\ \A a \in S : \E k \in 1..n : targets[k] = a
      /\ \A i, j \in 1..n : i < j => Ahead(targets[i], targets[j])
  <2> DEFINE m == Cardinality(S)
  <2>1. /\ m \in Nat /\ targets \in [1..m -> S]
        /\ \A a \in S : \E k \in 1..m : targets[k] = a
        /\ \A i, j \in 1..m : i < j => Ahead(targets[i], targets[j])
    BY RankedFacts
  <2> HIDE DEF targets, m
  <2>2. Len(targets) = m
    BY <2>1
  <2> QED BY <2>1, <2>2
<1>2. Assigned(S, args, kind, capacity) = chosen[n]
  BY DEF Assigned
<1> HIDE DEF targets, n
<1>3. \A i \in 1..n : IsKnown(targets[i]) /\ targets[i] \in S /\ i \in Int /\ i - 1 \in Int
  BY <1>1 DEF IsMap
<1>4. \A i, j \in 1..n : i # j => targets[i].id # targets[j].id
  <2> SUFFICES ASSUME NEW i \in 1..n, NEW j \in 1..n, i # j, targets[i].id = targets[j].id
               PROVE  FALSE
    OBVIOUS
  <2>1. targets[i] = targets[j]
    BY <1>3 DEF IsMap
  <2>2. i < j \/ j < i
    OBVIOUS
  <2>3. ~Ahead(targets[i], targets[i])
    BY <1>3, AheadOrders
  <2> QED BY <1>1, <2>1, <2>2, <2>3
<1>5. empty \in T /\ \A id : On(empty, id) = {}
  BY DEF Filling, Bucket, On

\* On a filling that lacks the area, Next1 is what VisitedFacts says; on any other it
\* is a filling only if it is cut down to one, as G does.
<1> DEFINE Fresh(f, i) == f \in T /\ On(f, targets[i].id) = {}
           G == [q \in (1..n) \X T |-> IF Fresh(q[2], q[1]) THEN Next1(q[2], q[1]) ELSE empty]
<1>6. ASSUME NEW i \in 1..n, NEW f, Fresh(f, i)
      PROVE  /\ Next1(f, i) \in T
             /\ Cardinality(On(Next1(f, i), targets[i].id)) = AtMost(Visits(targets[i], args), 7)
             /\ \A id : id # targets[i].id => On(Next1(f, i), id) = On(f, id)
  <2> DEFINE a == targets[i]
             visits == AtMost(Visits(a, args), 7)
             index == i - 1
  <2>1. visits \in 1..7
    BY VisitsType
  <2>2. f \in Filling(kind, capacity) /\ On(f, a.id) = {} /\ IsKnown(a) /\ index \in Int
    BY <1>3, <1>6
  <2> HIDE DEF a, visits, index, T, Fresh
  <2>3. /\ Visited(f, a, index, visits) \in Filling(kind, capacity)
        /\ Cardinality(On(Visited(f, a, index, visits), a.id)) = visits
        /\ \A id : id # a.id => On(Visited(f, a, index, visits), id) = On(f, id)
    BY <2>1, <2>2, VisitedFacts
  <2> QED BY <2>3 DEF a, visits, index, T
<1> HIDE DEF T, empty, Next1, Fresh
<1>7. G \in [(1..n) \X T -> T]
  BY <1>5, <1>6
<1>8. \A i \in 1..n, f \in T : G[<<i, f>>] = IF Fresh(f, i) THEN Next1(f, i) ELSE empty
  OBVIOUS
<1> HIDE DEF G
<1>9. PICK after : RecursionOf(after, T, empty, n, G)
  BY <1>1, <1>5, <1>7, RecursionExists
<1>10. /\ after \in [0..n -> T] /\ after[0] = empty
       /\ \A i \in 1..n : after[i] = G[<<i, after[i - 1]>>]
  BY <1>9 DEF RecursionOf
<1>11. \A i \in 1..n : i - 1 \in 0..n /\ i \in 0..n /\ i # 0
  BY <1>1
<1> DEFINE Good(f, i) ==
             /\ f \in T
             /\ \A k \in 1..i : Cardinality(On(f, targets[k].id)) = AtMost(Visits(targets[k], args), 7)
             /\ \A id : On(f, id) # {} => \E k \in 1..i : targets[k].id = id
<1>12. \A i \in 0..n : Good(after[i], i)
  <2> DEFINE U == {i \in 0..n : Good(after[i], i)}
  <2>1. 0 \in U
    BY <1>1, <1>5, <1>10
  <2>2. ASSUME NEW i \in 1..n, i - 1 \in U PROVE i \in U
    <3> DEFINE f == after[i - 1]
               g == after[i]
    <3>1. Good(f, i - 1) /\ f \in T
      BY <2>2
    <3>2. \A k \in 1..(i - 1) : k \in 1..n /\ k # i /\ k \in 1..i
      BY <1>1
    <3>3. Fresh(f, i)
      <4>1. \A k \in 1..(i - 1) : targets[k].id # targets[i].id
        BY <1>4, <3>2
      <4> QED BY <3>1, <4>1 DEF Fresh
    <3>4. g = Next1(f, i)
      BY <1>8, <1>10, <3>1, <3>3
    <3>5. /\ g \in T
          /\ Cardinality(On(g, targets[i].id)) = AtMost(Visits(targets[i], args), 7)
          /\ \A id : id # targets[i].id => On(g, id) = On(f, id)
      BY <1>6, <3>3, <3>4
    <3> HIDE DEF f, g
    <3>6. ASSUME NEW k \in 1..i
          PROVE  Cardinality(On(g, targets[k].id)) = AtMost(Visits(targets[k], args), 7)
      <4>1. CASE k = i
        BY <3>5, <4>1
      <4>2. CASE k # i
        <5>1. k \in 1..(i - 1) /\ k \in 1..n
          BY <1>1, <4>2
        <5>2. On(g, targets[k].id) = On(f, targets[k].id)
          BY <1>4, <3>5, <4>2, <5>1
        <5> QED BY <3>1, <5>1, <5>2
      <4> QED BY <4>1, <4>2
    <3>7. ASSUME NEW id, On(g, id) # {} PROVE \E k \in 1..i : targets[k].id = id
      <4>1. CASE id = targets[i].id
        BY <1>1, <4>1
      <4>2. CASE id # targets[i].id
        <5>1. On(f, id) # {}
          BY <3>5, <3>7, <4>2
        <5> QED BY <3>1, <3>2, <5>1
      <4> QED BY <4>1, <4>2
    <3>8. Good(g, i)
      BY <3>5, <3>6, <3>7
    <3> QED BY <1>11, <3>8 DEF g
  <2> HIDE DEF U, Good
  <2>3. 0..n \subseteq U
    BY <1>1, <2>1, <2>2, NatsUpTo
  <2> QED BY <2>3 DEF U
<1>13. \A i \in 1..n : after[i] = Next1(after[i - 1], i)
  <2> SUFFICES ASSUME NEW i \in 1..n PROVE after[i] = Next1(after[i - 1], i)
    OBVIOUS
  <2>1. Good(after[i - 1], i - 1)
    BY <1>11, <1>12
  <2>2. \A k \in 1..(i - 1) : k \in 1..n /\ k # i
    BY <1>1
  <2>3. Fresh(after[i - 1], i)
    BY <1>4, <2>1, <2>2 DEF Fresh
  <2> QED BY <1>8, <1>10, <2>1, <2>3
<1> HIDE DEF Good
<1>14. Plans(after)
  <2>1. \A i \in 0..n : i = 0 \/ i \in 1..n
    BY <1>1
  <2>2. \A i \in 0..n : after[i] = IF i = 0 THEN empty ELSE Next1(after[i - 1], i)
    BY <1>10, <1>13, <2>1
  <2> QED BY <1>10, <2>2
<1>15. Plans(chosen)
  BY <1>14
<1> HIDE DEF chosen
<1>16. chosen[0] = empty /\ \A i \in 1..n : chosen[i] = Next1(chosen[i - 1], i)
  <2>1. 0 \in 0..n
    BY <1>1
  <2> QED BY <1>11, <1>15, <2>1
<1>17. chosen[n] = after[n]
  <2> DEFINE Same == {i \in 0..n : chosen[i] = after[i]}
  <2>1. 0 \in Same
    BY <1>1, <1>10, <1>16
  <2>2. ASSUME NEW i \in 1..n, i - 1 \in Same PROVE i \in Same
    BY <1>11, <1>13, <1>16, <2>2
  <2> HIDE DEF Same
  <2>3. 0..n \subseteq Same
    BY <1>1, <2>1, <2>2, NatsUpTo
  <2>4. n \in Same
    BY <1>1, <2>3
  <2> QED BY <2>4 DEF Same
<1>18. Good(chosen[n], n)
  BY <1>1, <1>12, <1>17
<1> HIDE DEF Plans
<1> DEFINE filled == Assigned(S, args, kind, capacity)
<1>19. Good(filled, n)
  BY <1>2, <1>18
<1> HIDE DEF filled
<1>20. filled \in Filling(kind, capacity)
  BY <1>19 DEF Good, T
<1>21. \A a \in S : Cardinality(On(filled, a.id)) = AtMost(Visits(a, args), 7)
  BY <1>1, <1>19 DEF Good
<1>22. \A id : On(filled, id) # {} => \E a \in S : a.id = id
  BY <1>3, <1>19 DEF Good
<1> QED BY <1>20, <1>21, <1>22 DEF filled

\* The days on which the area is in a bucket.
BucketDays(B, id) == {d \in Days : \E i \in 1..Len(B) : B[i].day = d /\ id \in B[i].areas}

\* The buckets of the areas S, of one kind.
BucketsOf(B, S, args, kind, capacity) ==
    /\ B \in Seq(Bucket(kind, capacity)) /\ DOMAIN B = 1..Len(B)
    /\ \A i \in 1..Len(B) : B[i].areas # {} /\ B[i].weight > 0
    /\ \A i, j \in 1..Len(B) : B[i].day = B[j].day => i = j
    /\ \A a \in S : Cardinality(BucketDays(B, a.id)) = AtMost(Visits(a, args), 7)
    /\ \A i \in 1..Len(B) : \A id \in B[i].areas : \E a \in S : a.id = id

LEMMA BucketsFacts ==
    ASSUME NEW S, IsMap(S), NEW args, IsWeekArgs(args), 1 <= args.visits,
           args.visits <= args.priority, NEW kind, NEW capacity
    PROVE  BucketsOf(Buckets(S, args, kind, capacity), S, args, kind, capacity)
<1> DEFINE filled == Assigned(S, args, kind, capacity)
           U == {d \in Days : filled[d].areas # {}}
           m == Cardinality(U)
           used == InOrder(U, <)
           B == [k \in 1..m |-> filled[used[k]]]
<1>1. /\ filled \in Filling(kind, capacity)
      /\ \A a \in S : Cardinality(On(filled, a.id)) = AtMost(Visits(a, args), 7)
      /\ \A id : On(filled, id) # {} => \E a \in S : a.id = id
  BY AssignedFacts
<1>2. U \in SUBSET Int /\ U \subseteq Days /\ IsFiniteSet(U)
  <2>1. IsFiniteSet(Days)
    BY 1 \in Int, 7 \in Int, FS_Interval DEF Days
  <2>2. U \subseteq Days /\ Days \subseteq Int
    BY DEF Days
  <2> HIDE DEF U
  <2> QED BY <2>1, <2>2, FS_Subset
<1>3. /\ m \in Nat /\ used \in [1..m -> U]
      /\ \A d \in U : \E k \in 1..m : used[k] = d
      /\ \A i, j \in 1..m : i < j => used[i] < used[j]
  <2> HIDE DEF U
  <2> QED BY <1>2, NumbersInOrder
<1>4. Buckets(S, args, kind, capacity) = B
  <2>1. DOMAIN used = 1..m
    BY <1>3
  <2>2. Buckets(S, args, kind, capacity) = [k \in DOMAIN used |-> filled[used[k]]]
    BY DEF Buckets
  <2> QED BY <2>1, <2>2
<1>5. /\ \A d \in Days : /\ filled[d] \in Bucket(kind, capacity) /\ filled[d].day = d
                         /\ filled[d].areas = {} \/ filled[d].weight > 0
      /\ \A d \in Days : d \in U <=> filled[d].areas # {}
  BY <1>1 DEF Filling
<1> HIDE DEF U, m, used, filled
<1>6. \A k \in 1..m : B[k] = filled[used[k]] /\ used[k] \in Days /\ filled[used[k]].areas # {}
  BY <1>2, <1>3, <1>5
<1>7. B \in Seq(Bucket(kind, capacity)) /\ Len(B) = m /\ DOMAIN B = 1..m
  <2>1. B \in [1..m -> Bucket(kind, capacity)]
    BY <1>5, <1>6
  <2> QED BY <1>3, <2>1
<1>8. \A i, j \in 1..m : used[i] = used[j] => i = j
  <2> SUFFICES ASSUME NEW i \in 1..m, NEW j \in 1..m, used[i] = used[j], i # j PROVE FALSE
    OBVIOUS
  <2>1. i < j \/ j < i
    BY <1>3
  <2>2. used[i] < used[j] \/ used[j] < used[i]
    BY <1>3, <2>1
  <2>3. used[i] \in Int
    BY <1>2, <1>3
  <2> QED BY <2>2, <2>3
<1> HIDE DEF B
<1>9. \A i \in 1..m : B[i].areas # {} /\ B[i].weight > 0 /\ B[i].day = used[i]
  BY <1>5, <1>6
<1>10. \A id : BucketDays(B, id) = On(filled, id)
  <2> SUFFICES ASSUME NEW id, NEW d \in Days
               PROVE  d \in BucketDays(B, id) <=> d \in On(filled, id)
    BY DEF BucketDays, On
  <2>1. ASSUME d \in BucketDays(B, id) PROVE d \in On(filled, id)
    BY <1>6, <1>7, <1>9, <2>1 DEF BucketDays, On
  <2>2. ASSUME d \in On(filled, id) PROVE d \in BucketDays(B, id)
    <3>1. d \in U /\ id \in filled[d].areas
      BY <1>5, <2>2 DEF On
    <3>2. PICK k \in 1..m : used[k] = d
      BY <1>3, <3>1
    <3>3. B[k].day = d /\ id \in B[k].areas
      BY <1>6, <1>9, <3>1, <3>2
    <3> QED BY <1>7, <3>3 DEF BucketDays
  <2> QED BY <2>1, <2>2
<1>11. ASSUME NEW i \in 1..m, NEW id \in B[i].areas PROVE \E a \in S : a.id = id
  <2>1. used[i] \in On(filled, id)
    BY <1>6, <1>11 DEF On
  <2> QED BY <1>1, <2>1
<1>12. BucketsOf(B, S, args, kind, capacity)
  BY <1>1, <1>7, <1>8, <1>9, <1>10, <1>11 DEF BucketsOf
<1> QED BY <1>4, <1>12

-----------------------------------------------------------------------------
(* Windows and their segments.                                             *)

\* The windows an optimizer is not refused for.
HasDuration(w) ==
    /\ IsWindow(w) /\ w[1] # w[2]
    /\ \A i \in DOMAIN Segments(w) : Length(Segments(w)[i]) > 0

LEMMA SegmentsFacts ==
    ASSUME NEW w, HasDuration(w)
    PROVE  LET segments == Segments(w)
           IN  /\ DOMAIN segments \in {1..1, 1..2}
               /\ \A i \in DOMAIN segments :
                     /\ segments[i][1] \in 0..Midnight /\ segments[i][2] \in 0..Midnight
                     /\ Length(segments[i]) \in Nat \ {0}
               /\ Capacity(segments) \in Nat \ {0}
               /\ \E i \in DOMAIN segments : Length(segments[i]) = Capacity(segments)
<1> DEFINE segments == Segments(w)
           D == DOMAIN segments
           lengths == {Length(segments[i]) : i \in D}
<1>1. w[1] \in 0..Midnight /\ w[2] \in 0..Midnight /\ w[1] # w[2]
  BY DEF HasDuration, IsWindow
<1>2. /\ D \in {1..1, 1..2}
      /\ \A i \in D : segments[i][1] \in 0..Midnight /\ segments[i][2] \in 0..Midnight
  <2>1. CASE w[1] < w[2]
    <3>1. segments = <<w>>
      BY <2>1 DEF Segments
    <3> QED BY <1>1, <3>1
  <2>2. CASE ~(w[1] < w[2])
    <3>1. segments = <<<<0, w[2]>>, <<w[1], Midnight>>>>
      BY <2>2 DEF Segments
    <3>2. 0 \in 0..Midnight /\ Midnight \in 0..Midnight
      BY DEF Midnight
    <3> QED BY <1>1, <3>1, <3>2
  <2> QED BY <2>1, <2>2
<1>3. \A i \in D : Length(segments[i]) \in Nat \ {0}
  <2>1. \A i \in D : Length(segments[i]) > 0
    BY DEF HasDuration
  <2> HIDE DEF segments, D
  <2> SUFFICES ASSUME NEW i \in D PROVE Length(segments[i]) \in Nat \ {0}
    OBVIOUS
  <2>2. segments[i][1] \in Int /\ segments[i][2] \in Int
    BY <1>2 DEF Midnight
  <2>3. segments[i][2] - segments[i][1] > 0
    BY <2>1 DEF Length
  <2> QED BY <2>2, <2>3 DEF Length
<1> HIDE DEF segments, D
<1>4. lengths \in SUBSET Int /\ lengths # {} /\ IsFiniteSet(lengths)
  <2> DEFINE f == [i \in D |-> Length(segments[i])]
  <2>1. IsFiniteSet(D) /\ D # {}
    <3>1. IsFiniteSet(1..1) /\ IsFiniteSet(1..2)
      BY 1 \in Int, 2 \in Int, FS_Interval
    <3>2. 1 \in 1..1 /\ 1 \in 1..2
      OBVIOUS
    <3> QED BY <1>2, <3>1, <3>2
  <2>2. f = [i \in D |-> f[i]] /\ lengths = {f[i] : i \in D}
    OBVIOUS
  <2> HIDE DEF f, lengths
  <2>3. IsFiniteSet(lengths)
    BY <2>1, <2>2, FiniteImage
  <2> QED BY <1>3, <2>1, <2>3 DEF lengths
<1>5. \E m \in lengths : \A n \in lengths : n <= m
  <2> HIDE DEF lengths
  <2> QED BY <1>4, Greatest
<1>6. Capacity(segments) \in lengths
  <2>1. \E m \in lengths : \A n \in lengths : m >= n
    BY <1>3, <1>5
  <2>2. Capacity(segments) = Max(lengths)
    BY DEF Capacity, D
  <2> HIDE DEF lengths
  <2> QED BY <2>1, <2>2 DEF Max
<1> QED BY <1>2, <1>3, <1>6 DEF segments, D

\* A time no longer than the longest segment is put into one that holds it.
LEMMA SegmentHolds ==
    ASSUME NEW w, HasDuration(w), NEW ticks \in Nat, ticks <= Capacity(Segments(w))
    PROVE  \E i \in DOMAIN Segments(w) : /\ Segment(Segments(w), ticks) = Segments(w)[i]
                                         /\ ticks <= Length(Segments(w)[i])
<1> DEFINE segments == Segments(w)
           D == DOMAIN segments
           holding == {i \in D : Length(segments[i]) >= ticks}
           B == {q \in D \X D : Length(segments[q[1]]) > Length(segments[q[2]])}
           Best(i) == \A j \in holding \ {i} : <<i, j>> \in B \/ (<<j, i>> \notin B /\ i < j)
<1>1. /\ D \in {1..1, 1..2} /\ \A i \in D : Length(segments[i]) \in Nat \ {0}
      /\ Capacity(segments) \in Nat /\ \E i \in D : Length(segments[i]) = Capacity(segments)
  BY SegmentsFacts
<1>2. ticks \in Nat /\ ticks <= Capacity(segments)
  OBVIOUS
<1> HIDE DEF segments, D
<1>3. holding \in SUBSET Int /\ holding # {} /\ IsFiniteSet(holding)
  <2>1. IsFiniteSet(D) /\ D \subseteq Int
    <3>1. IsFiniteSet(1..1) /\ IsFiniteSet(1..2)
      BY 1 \in Int, 2 \in Int, FS_Interval
    <3> QED BY <1>1, <3>1
  <2>2. holding \subseteq D /\ holding # {}
    BY <1>1, <1>2
  <2> HIDE DEF holding
  <2> QED BY <2>1, <2>2, FS_Subset
<1>4. Segment(segments, ticks) = segments[CHOOSE i \in holding : Best(i)]
  <2>1. \A i \in holding : Best(i) <=>
           \A j \in holding \ {i} :
              \/ Length(segments[i]) > Length(segments[j])
              \/ ~(Length(segments[j]) > Length(segments[i])) /\ i < j
    OBVIOUS
  <2>2. holding # {}
    BY <1>3
  <2> HIDE DEF Best
  <2> QED BY <2>1, <2>2 DEF Segment, First, D
<1>5. \A i, j \in D : <<i, j>> \in B <=> Length(segments[i]) > Length(segments[j])
  OBVIOUS
<1>6. holding \subseteq D
  OBVIOUS
<1> HIDE DEF B
<1>7. \E i \in holding : Best(i)
  <2> HIDE DEF holding
  <2>1. /\ \A i \in holding : <<i, i>> \notin B
        /\ \A i, j, k \in holding : <<i, j>> \in B /\ <<j, k>> \in B => <<i, k>> \in B
        /\ \A i, j, k \in holding : <<i, k>> \in B => <<i, j>> \in B \/ <<j, k>> \in B
    BY <1>1, <1>5, <1>6
  <2> QED BY <1>3, <2>1, FirstBy
<1> HIDE DEF Best
<1>8. PICK i \in holding : Segment(segments, ticks) = segments[i]
  BY <1>4, <1>7
<1>9. i \in D /\ ticks <= Length(segments[i])
  BY <1>1, <1>2
<1> QED BY <1>8, <1>9 DEF segments, D

-----------------------------------------------------------------------------
(* The buckets of a week.                                                  *)

WeekBucket ==
    [kind : {"day", "night"}, day : Days, areas : SUBSET Nat, weight : Nat, capacity : Nat]

WeekOf(B, S, args) ==
    /\ B \in Seq(WeekBucket) /\ DOMAIN B = 1..Len(B)
    /\ \A i \in 1..Len(B) : /\ B[i].areas # {} /\ B[i].weight > 0
                            /\ B[i].capacity = Capacity(WindowOf(B[i], args))
    /\ \A i, j \in 1..Len(B) : B[i].day = B[j].day /\ B[i].kind = B[j].kind => i = j
    /\ \A a \in S : Cardinality(BucketDays(B, a.id)) = AtMost(Visits(a, args), 7)
    /\ \A i \in 1..Len(B) : \A a \in S : a.id \in B[i].areas =>
          B[i].kind = IF a \in NightOnly(S, args) THEN "night" ELSE "day"

LEMMA WeekWindows ==
    ASSUME NEW S, NEW args, IsWeekArgs(args), WeekArgsOk(S, args)
    PROVE  /\ HasDuration(args.day) /\ HasDuration(args.night)
           /\ Length(args.day) = Capacity(Segments(args.day))
           /\ Segments(args.day) = <<args.day>>
<1>1. IsWindow(args.day) /\ IsWindow(args.night)
  BY DEF IsWeekArgs
<1>2. args.day[1] \in Int /\ args.day[2] \in Int /\ args.day[1] < args.day[2]
  BY <1>1 DEF IsWindow, WeekArgsOk, Midnight
<1>3. Segments(args.day) = <<args.day>>
  BY <1>2 DEF Segments
<1>4. HasDuration(args.day)
  BY <1>1, <1>2, <1>3 DEF HasDuration, Length
<1>5. HasDuration(args.night)
  BY <1>1 DEF HasDuration, WeekArgsOk
<1>6. \E i \in DOMAIN Segments(args.day) :
         Length(Segments(args.day)[i]) = Capacity(Segments(args.day))
  BY <1>4, SegmentsFacts
<1> QED BY <1>3, <1>4, <1>5, <1>6

\* What two sequences hold one after the other.
LEMMA Appended ==
    ASSUME NEW T, NEW f \in Seq(T), NEW g \in Seq(T)
    PROVE  LET h == f \o g
           IN  /\ h \in Seq(T) /\ Len(h) = Len(f) + Len(g) /\ DOMAIN h = 1..Len(h)
               /\ \A i \in 1..Len(f) : i \in 1..Len(h) /\ h[i] = f[i]
               /\ \A i \in 1..Len(g) : Len(f) + i \in 1..Len(h) /\ h[Len(f) + i] = g[i]
               /\ \A i \in 1..Len(h) : \/ i \in 1..Len(f) /\ h[i] = f[i]
                                       \/ i - Len(f) \in 1..Len(g) /\ h[i] = g[i - Len(f)]
<1> DEFINE h == f \o g
<1>1. /\ Len(f) \in Nat /\ Len(g) \in Nat /\ h \in Seq(T) /\ Len(h) = Len(f) + Len(g)
      /\ \A i \in 1..(Len(f) + Len(g)) :
            h[i] = IF i <= Len(f) THEN f[i] ELSE g[i - Len(f)]
  BY ConcatProperties
<1> HIDE DEF h
<1>2. DOMAIN h = 1..Len(h)
  BY <1>1
<1>3. ASSUME NEW i \in 1..Len(f) PROVE i \in 1..Len(h) /\ h[i] = f[i]
  BY <1>1
<1>4. ASSUME NEW i \in 1..Len(g) PROVE Len(f) + i \in 1..Len(h) /\ h[Len(f) + i] = g[i]
  <2>1. Len(f) + i \in 1..(Len(f) + Len(g)) /\ ~(Len(f) + i <= Len(f)) /\ (Len(f) + i) - Len(f) = i
    BY <1>1
  <2> QED BY <1>1, <2>1
<1>5. ASSUME NEW i \in 1..Len(h)
      PROVE  \/ i \in 1..Len(f) /\ h[i] = f[i]
             \/ i - Len(f) \in 1..Len(g) /\ h[i] = g[i - Len(f)]
  <2>1. CASE i <= Len(f)
    BY <1>1, <2>1
  <2>2. CASE ~(i <= Len(f))
    BY <1>1, <2>2
  <2> QED BY <2>1, <2>2
<1> QED BY <1>1, <1>2, <1>3, <1>4, <1>5 DEF h

LEMMA WeekBucketsFacts ==
    ASSUME NEW S, IsMap(S), NEW args, IsWeekArgs(args), WeekArgsOk(S, args)
    PROVE  WeekOf(WeekBuckets(S, args), S, args)
<1> DEFINE night == NightOnly(S, args)
           day == S \ night
           dayRoom == Length(args.day)
           nightRoom == Capacity(Segments(args.night))
           K == Buckets(day, args, "day", dayRoom)
           N == Buckets(night, args, "night", nightRoom)
           B == WeekBuckets(S, args)
           n == Len(K)
<1>1. 1 <= args.visits /\ args.visits <= args.priority
  BY DEF WeekArgsOk
<1>2. night \subseteq S /\ day \subseteq S
  BY DEF NightOnly, Called
<1>3. IsMap(night) /\ IsMap(day)
  <2> HIDE DEF night, day
  <2> QED BY <1>2, FS_Subset DEF IsMap
<1>4. BucketsOf(K, day, args, "day", dayRoom)
  <2> HIDE DEF day, dayRoom
  <2> QED BY <1>1, <1>3, BucketsFacts
<1>5. BucketsOf(N, night, args, "night", nightRoom)
  <2> HIDE DEF night, nightRoom
  <2> QED BY <1>1, <1>3, BucketsFacts
<1>6. B = K \o N
  BY DEF WeekBuckets
<1>7. /\ dayRoom = Capacity(Segments(args.day)) /\ dayRoom \in Nat
      /\ nightRoom = Capacity(Segments(args.night)) /\ nightRoom \in Nat
  <2>1. HasDuration(args.day) /\ HasDuration(args.night) /\ dayRoom = Capacity(Segments(args.day))
    BY WeekWindows
  <2> QED BY <2>1, SegmentsFacts
<1>8. \A a \in S : a \in night <=> a \notin day
  OBVIOUS
<1> HIDE DEF K, N, day, night, dayRoom, nightRoom, B
<1>9. /\ \A k \in 1..Len(K) : /\ K[k] \in WeekBucket /\ K[k].kind = "day"
                              /\ K[k].capacity = dayRoom
      /\ \A k \in 1..Len(N) : /\ N[k] \in WeekBucket /\ N[k].kind = "night"
                              /\ N[k].capacity = nightRoom
  <2>1. \A k \in 1..Len(K) : K[k] \in Bucket("day", dayRoom)
    BY <1>4 DEF BucketsOf
  <2>2. \A k \in 1..Len(N) : N[k] \in Bucket("night", nightRoom)
    BY <1>5 DEF BucketsOf
  <2>3. \A b \in Bucket("day", dayRoom) :
           b \in WeekBucket /\ b.kind = "day" /\ b.capacity = dayRoom
    BY <1>7 DEF Bucket, WeekBucket
  <2>4. \A b \in Bucket("night", nightRoom) :
           b \in WeekBucket /\ b.kind = "night" /\ b.capacity = nightRoom
    BY <1>7 DEF Bucket, WeekBucket
  <2> QED BY <2>1, <2>2, <2>3, <2>4
<1>10. K \in Seq(WeekBucket) /\ N \in Seq(WeekBucket) /\ n \in Nat /\ Len(N) \in Nat
  <2>1. K \in Seq(Bucket("day", dayRoom)) /\ N \in Seq(Bucket("night", nightRoom))
    BY <1>4, <1>5 DEF BucketsOf
  <2> QED BY <1>9, <2>1
<1>11. /\ B \in Seq(WeekBucket) /\ DOMAIN B = 1..Len(B)
       /\ \A i \in 1..n : i \in 1..Len(B) /\ B[i] = K[i]
       /\ \A i \in 1..Len(N) : n + i \in 1..Len(B) /\ B[n + i] = N[i]
       /\ \A i \in 1..Len(B) : \/ i \in 1..n /\ B[i] = K[i]
                               \/ i - n \in 1..Len(N) /\ B[i] = N[i - n]
  BY <1>6, <1>10, Appended
<1> HIDE DEF n
<1>12. ASSUME NEW i \in 1..Len(B)
       PROVE  /\ B[i].areas # {} /\ B[i].weight > 0
              /\ B[i].capacity = Capacity(WindowOf(B[i], args))
  <2>1. CASE i \in 1..n /\ B[i] = K[i]
    BY <1>4, <1>7, <1>9, <2>1 DEF BucketsOf, WindowOf, n
  <2>2. CASE i - n \in 1..Len(N) /\ B[i] = N[i - n]
    BY <1>5, <1>7, <1>9, <2>2 DEF BucketsOf, WindowOf
  <2> QED BY <1>11, <2>1, <2>2
<1>13. ASSUME NEW i \in 1..Len(B), NEW j \in 1..Len(B),
              B[i].day = B[j].day, B[i].kind = B[j].kind
       PROVE  i = j
  <2>1. CASE B[i].kind = "day"
    <3>1. i \in 1..n /\ B[i] = K[i] /\ j \in 1..n /\ B[j] = K[j]
      <4>1. B[i].kind = "day" /\ B[j].kind = "day"
        BY <1>13, <2>1
      <4>2. \A k \in 1..Len(N) : N[k].kind # "day"
        BY <1>9
      <4> QED BY <1>11, <4>1, <4>2
    <3> QED BY <1>4, <1>13, <3>1 DEF BucketsOf, n
  <2>2. CASE B[i].kind # "day"
    <3>1. i - n \in 1..Len(N) /\ B[i] = N[i - n] /\ j - n \in 1..Len(N) /\ B[j] = N[j - n]
      BY <1>9, <1>11, <1>13, <2>2 DEF n
    <3>2. i - n = j - n
      BY <1>5, <1>13, <3>1 DEF BucketsOf
    <3> QED BY <1>10, <3>2
  <2> QED BY <2>1, <2>2
<1>14. /\ \A a \in day : \A i \in 1..Len(N) : a.id \notin N[i].areas
       /\ \A a \in night : \A i \in 1..n : a.id \notin K[i].areas
  <2>1. \A i \in 1..Len(N) : \A id \in N[i].areas : \E b \in night : b.id = id
    BY <1>5 DEF BucketsOf
  <2>2. \A i \in 1..n : \A id \in K[i].areas : \E b \in day : b.id = id
    BY <1>4 DEF BucketsOf, n
  <2>3. \A a \in day, b \in night : a.id # b.id
    BY <1>2, <1>8 DEF IsMap
  <2> QED BY <2>1, <2>2, <2>3
<1>15. ASSUME NEW a \in S, NEW d \in Days
       PROVE  d \in BucketDays(B, a.id) <=>
                 d \in BucketDays(IF a \in night THEN N ELSE K, a.id)
  <2>1. CASE a \in night
    <3>1. ASSUME d \in BucketDays(B, a.id) PROVE d \in BucketDays(N, a.id)
      <4>1. PICK i \in 1..Len(B) : B[i].day = d /\ a.id \in B[i].areas
        BY <3>1 DEF BucketDays
      <4>2. i - n \in 1..Len(N) /\ B[i] = N[i - n]
        BY <1>11, <1>14, <2>1, <4>1
      <4> QED BY <4>1, <4>2 DEF BucketDays
    <3>2. ASSUME d \in BucketDays(N, a.id) PROVE d \in BucketDays(B, a.id)
      <4>1. PICK i \in 1..Len(N) : N[i].day = d /\ a.id \in N[i].areas
        BY <3>2 DEF BucketDays
      <4>2. n + i \in 1..Len(B) /\ B[n + i] = N[i]
        BY <1>11
      <4> QED BY <4>1, <4>2 DEF BucketDays
    <3> QED BY <2>1, <3>1, <3>2
  <2>2. CASE a \notin night
    <3>1. ASSUME d \in BucketDays(B, a.id) PROVE d \in BucketDays(K, a.id)
      <4>1. PICK i \in 1..Len(B) : B[i].day = d /\ a.id \in B[i].areas
        BY <3>1 DEF BucketDays
      <4>2. i \in 1..n /\ B[i] = K[i]
        BY <1>8, <1>11, <1>14, <2>2, <4>1
      <4> QED BY <4>1, <4>2 DEF BucketDays, n
    <3>2. ASSUME d \in BucketDays(K, a.id) PROVE d \in BucketDays(B, a.id)
      <4>1. PICK i \in 1..n : K[i].day = d /\ a.id \in K[i].areas
        BY <3>2 DEF BucketDays, n
      <4>2. i \in 1..Len(B) /\ B[i] = K[i]
        BY <1>11
      <4> QED BY <4>1, <4>2 DEF BucketDays
    <3> QED BY <2>2, <3>1, <3>2
  <2> QED BY <2>1, <2>2
<1>16. ASSUME NEW a \in S PROVE Cardinality(BucketDays(B, a.id)) = AtMost(Visits(a, args), 7)
  <2>1. BucketDays(B, a.id) = BucketDays(IF a \in night THEN N ELSE K, a.id)
    <3>1. \A C : BucketDays(C, a.id) \subseteq Days
      BY DEF BucketDays
    <3> QED BY <1>15, <3>1
  <2>2. CASE a \in night
    BY <1>5, <2>1, <2>2 DEF BucketsOf
  <2>3. CASE a \notin night
    BY <1>4, <1>8, <2>1, <2>3 DEF BucketsOf
  <2> QED BY <2>2, <2>3
<1>17. ASSUME NEW i \in 1..Len(B), NEW a \in S, a.id \in B[i].areas
       PROVE  B[i].kind = IF a \in night THEN "night" ELSE "day"
  <2>1. CASE i \in 1..n /\ B[i] = K[i]
    BY <1>8, <1>9, <1>14, <1>17, <2>1 DEF n
  <2>2. CASE i - n \in 1..Len(N) /\ B[i] = N[i - n]
    BY <1>8, <1>9, <1>14, <1>17, <2>2
  <2> QED BY <1>11, <2>1, <2>2
<1>18. WeekOf(B, S, args)
  BY <1>11, <1>12, <1>13, <1>16, <1>17 DEF WeekOf, night
<1> QED BY <1>18 DEF B

-----------------------------------------------------------------------------
(* How long each bucket is.                                                *)

\* The times that give every bucket one tick at least and no more than it holds.
Fair(B) == {t \in [1..Len(B) -> Nat] : \A i \in 1..Len(B) : 1 <= t[i] /\ t[i] <= B[i].capacity}

\* Of those with the greatest f the greatest g, of those the first.
LEMMA FirstByTwo ==
    ASSUME NEW S \in SUBSET Int, IsFiniteSet(S), S # {}, NEW f, NEW g,
           \A i \in S : f[i] \in Int /\ g[i] \in Int
    PROVE  \E i \in S : \A j \in S \ {i} :
              \/ f[i] > f[j] \/ (f[i] = f[j] /\ g[i] > g[j])
              \/ ~(f[j] > f[i] \/ (f[j] = f[i] /\ g[j] > g[i])) /\ i < j
<1> DEFINE B == {q \in S \X S : f[q[1]] > f[q[2]] \/ (f[q[1]] = f[q[2]] /\ g[q[1]] > g[q[2]])}
<1>1. \A i, j \in S : <<i, j>> \in B <=> f[i] > f[j] \/ (f[i] = f[j] /\ g[i] > g[j])
  OBVIOUS
<1> HIDE DEF B
<1>2. /\ \A i \in S : <<i, i>> \notin B
      /\ \A i, j, k \in S : <<i, j>> \in B /\ <<j, k>> \in B => <<i, k>> \in B
      /\ \A i, j, k \in S : <<i, k>> \in B => <<i, j>> \in B \/ <<j, k>> \in B
  BY <1>1
<1>3. \E i \in S : \A j \in S \ {i} : <<i, j>> \in B \/ (<<j, i>> \notin B /\ i < j)
  BY <1>2, FirstBy
<1> QED BY <1>1, <1>3

\* One step of taking away what is too much.
Shrunk(ticks, weights) ==
    LET Better(i, j) ==
          \/ ticks[i] > ticks[j]
          \/ ticks[i] = ticks[j] /\ weights[i] > weights[j]
    IN  [ticks EXCEPT ![First({i \in DOMAIN ticks : ticks[i] > 1}, Better)] = @ - 1]

\* While there is more than a tick for each, one can be taken away.
LEMMA ShrunkFacts ==
    ASSUME NEW B, Len(B) \in Nat, \A i \in 1..Len(B) : B[i].capacity \in Nat,
           NEW weights, \A i \in 1..Len(B) : weights[i] \in Int,
           NEW t \in Fair(B), Total(t) > Len(B)
    PROVE  Shrunk(t, weights) \in Fair(B) /\ Total(Shrunk(t, weights)) = Total(t) - 1
<1> DEFINE n == Len(B)
           long == {i \in 1..n : t[i] > 1}
           Best(i) == \A j \in long \ {i} :
                         \/ t[i] > t[j] \/ (t[i] = t[j] /\ weights[i] > weights[j])
                         \/ ~(t[j] > t[i] \/ (t[j] = t[i] /\ weights[j] > weights[i])) /\ i < j
           k == CHOOSE i \in long : Best(i)
           new == [t EXCEPT ![k] = @ - 1]
<1>1. /\ n \in Nat /\ t \in [1..n -> Nat] /\ t \in Seq(Nat) /\ Len(t) = n
      /\ \A i \in 1..n : 1 <= t[i] /\ t[i] <= B[i].capacity /\ t[i] \in Nat
  BY SMTT(30) DEF Fair
<1>2. Shrunk(t, weights) = new
  <2>1. DOMAIN t = 1..n
    BY <1>1
  <2> QED BY <2>1 DEF Shrunk, First
<1>3. long # {}
  <2> SUFFICES ASSUME long = {} PROVE FALSE
    OBVIOUS
  <2>1. \A i \in 1..Len(t) : t[i] = 1
    BY <1>1
  <2>2. Total(t) = n
    BY <1>1, <2>1, TotalOnes
  <2> QED BY <1>1, <2>2
<1>4. long \in SUBSET Int /\ IsFiniteSet(long) /\ long \subseteq 1..n
  <2>1. IsFiniteSet(1..n)
    BY <1>1, 1 \in Int, n \in Int, FS_Interval
  <2>2. long \subseteq 1..n /\ 1..n \subseteq Int
    BY <1>1
  <2> HIDE DEF long, n
  <2> QED BY <2>1, <2>2, FS_Subset
<1>5. \E i \in long : Best(i)
  <2> HIDE DEF long
  <2>1. \A i \in long : t[i] \in Int /\ weights[i] \in Int
    BY <1>1, <1>4
  <2> QED BY <1>3, <1>4, <2>1, FirstByTwo
<1>6. k \in 1..n /\ t[k] > 1
  <2> HIDE DEF Best
  <2>1. k \in long
    BY <1>5
  <2> QED BY <2>1
<1> HIDE DEF k
<1>7. new \in [1..n -> Nat] /\ new \in Seq(Nat) /\ Len(new) = n
  BY <1>1, <1>6
<1>8. t[k] = new[k] + 1 /\ new[k] \in Nat /\ \A j \in 1..n : j # k => t[j] = new[j]
  BY <1>1, <1>6
<1> HIDE DEF new
<1>9. new \in Fair(B)
  <2>1. \A j \in 1..n : 1 <= new[j] /\ new[j] <= B[j].capacity
    <3> SUFFICES ASSUME NEW j \in 1..n PROVE 1 <= new[j] /\ new[j] <= B[j].capacity
      OBVIOUS
    <3>1. CASE j # k
      BY <1>1, <1>8, <3>1
    <3>2. CASE j = k
      <4>1. t[k] <= B[k].capacity /\ t[k] \in Nat /\ B[k].capacity \in Nat
        BY <1>1, <1>6
      <4> QED BY <1>6, <1>8, <3>2, <4>1
    <3> QED BY <3>1, <3>2
  <2> QED BY <1>7, <2>1 DEF Fair
<1>10. Total(t) = Total(new) + 1
  BY <1>1, <1>6, <1>7, <1>8, TotalOneMore
<1>11. Total(new) \in Nat
  BY <1>7, TotalIsSize
<1> QED BY <1>2, <1>9, <1>10, <1>11

\* One step of giving out what is missing.
Grown(ticks, buckets, weights, goal, total) ==
    LET Behind(i) == goal * weights[i] - ticks[i] * total
        Better(i, j) ==
          \/ Behind(i) > Behind(j)
          \/ Behind(i) = Behind(j) /\ weights[i] > weights[j]
        open == {i \in DOMAIN ticks : ticks[i] < buckets[i].capacity}
    IN  [ticks EXCEPT ![First(open, Better)] = @ + 1]

\* While there is room, one can be given out.
LEMMA GrownFacts ==
    ASSUME NEW B, Len(B) \in Nat, \A i \in 1..Len(B) : B[i].capacity \in Nat,
           DOMAIN B = 1..Len(B),
           NEW weights, \A i \in 1..Len(B) : weights[i] \in Int,
           NEW goal \in Int, NEW total \in Int, NEW t \in Fair(B), Total(t) < Room(B)
    PROVE  /\ Grown(t, B, weights, goal, total) \in Fair(B)
           /\ Total(Grown(t, B, weights, goal, total)) = Total(t) + 1
<1> DEFINE n == Len(B)
           room == [i \in 1..n |-> B[i].capacity]
           open == {i \in 1..n : t[i] < B[i].capacity}
           f == [i \in 1..n |-> goal * weights[i] - t[i] * total]
           Behind(i, j) == \/ goal * weights[i] - t[i] * total > goal * weights[j] - t[j] * total
                           \/ /\ goal * weights[i] - t[i] * total = goal * weights[j] - t[j] * total
                              /\ weights[i] > weights[j]
           Best(i) == \A j \in open \ {i} : Behind(i, j) \/ (~Behind(j, i) /\ i < j)
           k == CHOOSE i \in open : Best(i)
           new == [t EXCEPT ![k] = @ + 1]
<1>1. /\ n \in Nat /\ t \in [1..n -> Nat] /\ t \in Seq(Nat) /\ Len(t) = n
      /\ \A i \in 1..n : /\ 1 <= t[i] /\ t[i] <= B[i].capacity /\ t[i] \in Nat
                         /\ B[i].capacity \in Nat
  BY DEF Fair
<1>2. Grown(t, B, weights, goal, total) = new
  <2>1. DOMAIN t = 1..n
    BY <1>1
  <2> QED BY <2>1 DEF Grown, First
<1>3. open # {}
  <2> SUFFICES ASSUME open = {} PROVE FALSE
    OBVIOUS
  <2>1. \A i \in 1..n : t[i] = room[i]
    BY <1>1
  <2>2. t = room
    BY <1>1, <2>1
  <2>3. Room(B) = Total(room)
    BY DEF Room
  <2>4. Total(t) \in Nat
    BY <1>1, TotalIsSize
  <2>5. Total(t) = Room(B)
    BY <2>2, <2>3
  <2> HIDE DEF room
  <2> QED BY <2>4, <2>5
<1>4. open \in SUBSET Int /\ IsFiniteSet(open) /\ open \subseteq 1..n
  <2>1. IsFiniteSet(1..n)
    BY <1>1, 1 \in Int, n \in Int, FS_Interval
  <2>2. open \subseteq 1..n /\ 1..n \subseteq Int
    BY <1>1
  <2> HIDE DEF open, n
  <2> QED BY <2>1, <2>2, FS_Subset
<1>5. \E i \in open : Best(i)
  <2>1. \A i \in 1..n : f[i] \in Int
    <3>1. \A i \in 1..n : goal * weights[i] \in Int /\ t[i] * total \in Int
      BY <1>1
    <3> QED BY <3>1
  <2>2. \A i, j \in 1..n : Behind(i, j) <=> f[i] > f[j] \/ (f[i] = f[j] /\ weights[i] > weights[j])
    OBVIOUS
  <2> HIDE DEF open, f, Behind
  <2>3. \A i \in open : f[i] \in Int /\ weights[i] \in Int
    BY <1>4, <2>1
  <2>4. \E i \in open : \A j \in open \ {i} :
           \/ f[i] > f[j] \/ (f[i] = f[j] /\ weights[i] > weights[j])
           \/ ~(f[j] > f[i] \/ (f[j] = f[i] /\ weights[j] > weights[i])) /\ i < j
    BY <1>3, <1>4, <2>3, FirstByTwo
  <2> QED BY <1>4, <2>2, <2>4
<1>6. k \in 1..n /\ t[k] < B[k].capacity
  <2> HIDE DEF Best
  <2>1. k \in open
    BY <1>5
  <2> QED BY <2>1
<1> HIDE DEF k
<1>7. new \in Fair(B) /\ new \in Seq(Nat) /\ Len(new) = n
  <2>1. /\ new \in [1..n -> Nat]
        /\ \A i \in 1..n : new[i] = IF i = k THEN t[i] + 1 ELSE t[i]
    BY <1>1, <1>6
  <2> HIDE DEF new
  <2>2. \A i \in 1..n : 1 <= new[i] /\ new[i] <= B[i].capacity
    BY <1>1, <1>6, <2>1
  <2>3. new \in Seq(Nat) /\ Len(new) = n
    BY ONLY <1>1, <2>1
  <2>4. new \in Fair(B)
    BY ONLY <2>1, <2>2 DEF Fair
  <2> QED BY <2>3, <2>4
<1>8. new[k] = t[k] + 1 /\ \A j \in 1..n : j # k => new[j] = t[j]
  BY <1>1, <1>6
<1> HIDE DEF new
<1>9. Total(new) = Total(t) + 1
  BY <1>1, <1>6, <1>7, <1>8, TotalOneMore
<1> QED BY <1>2, <1>7, <1>9

\* n steps of F from b, what comes after k of them being in T[k].
RepeatOf(f, n, T, b, F) ==
    /\ f = [k \in 0..n |-> IF k = 0 THEN b ELSE F[f[k - 1]]]
    /\ \A k \in 0..n : f[k] \in T[k]

LEMMA Repeated ==
    ASSUME NEW n \in Nat, NEW T, NEW b \in T[0], NEW F,
           \A i \in 1..n : \A x \in T[i - 1] : F[x] \in T[i]
    PROVE  \E f : RepeatOf(f, n, T, b, F)
<1> DEFINE X == UNION {T[i] : i \in 0..n}
           G == [q \in (1..n) \X X |-> F[q[2]]]
<1>1. \A i \in 1..n : \A x \in T[i - 1] : G[<<i, x>>] = F[x] /\ G[<<i, x>>] \in T[i]
  <2>1. \A i \in 1..n : i - 1 \in 0..n
    OBVIOUS
  <2>2. \A i \in 1..n : \A x \in T[i - 1] : x \in X
    BY <2>1
  <2> HIDE DEF X
  <2> QED BY <2>2
<1> HIDE DEF G
<1>2. PICK f : StepsWithin(f, n, T, b, G)
  <2>1. \A i \in 1..n : \A x \in T[i - 1] : G[<<i, x>>] \in T[i]
    BY <1>1
  <2> QED BY <2>1, RecursionWithin
<1>3. \A i \in 0..n : f[i] = IF i = 0 THEN b ELSE F[f[i - 1]]
  <2>1. \A i \in 0..n : i = 0 \/ (i # 0 /\ i \in 1..n /\ i - 1 \in 0..n)
    OBVIOUS
  <2> QED BY <1>1, <1>2, <2>1 DEF StepsWithin
<1>4. RepeatOf(f, n, T, b, F)
  BY <1>2, <1>3 DEF StepsWithin, RepeatOf
<1> QED BY <1>4

AllShrunk(ticks, weights, n) ==
    LET Step(t) == Shrunk(t, weights) IN Repeat(Step, ticks, n)
AllGrown(ticks, buckets, weights, goal, total, n) ==
    LET Step(t) == Grown(t, buckets, weights, goal, total) IN Repeat(Step, ticks, n)

LEMMA AllShrunkFacts ==
    ASSUME NEW B, Len(B) \in Nat, \A i \in 1..Len(B) : B[i].capacity \in Nat,
           NEW weights, \A i \in 1..Len(B) : weights[i] \in Int,
           NEW t \in Fair(B), Total(t) \in Nat, NEW n \in Nat, Total(t) - n >= Len(B)
    PROVE  AllShrunk(t, weights, n) \in Fair(B) /\ Total(AllShrunk(t, weights, n)) = Total(t) - n
<1> DEFINE T == [k \in 0..n |-> {u \in Fair(B) : Total(u) = Total(t) - k}]
           F == [u \in Fair(B) |-> Shrunk(u, weights)]
           Shrinks(after) ==
             after = [k \in 0..n |-> IF k = 0 THEN t ELSE Shrunk(after[k - 1], weights)]
           chosen == CHOOSE after : Shrinks(after)
<1>1. \A k \in 0..n : T[k] = {u \in Fair(B) : Total(u) = Total(t) - k}
  OBVIOUS
<1>2. \A u \in Fair(B) : F[u] = Shrunk(u, weights)
  OBVIOUS
<1>3. \A k \in 1..n : k \in 0..n /\ k - 1 \in 0..n /\ k # 0
  OBVIOUS
<1> HIDE DEF T, F
<1>4. ASSUME NEW k \in 1..n, NEW u \in T[k - 1]
      PROVE  Shrunk(u, weights) \in T[k] /\ u \in Fair(B)
  <2>1. u \in Fair(B) /\ Total(u) = Total(t) - (k - 1)
    BY <1>1, <1>3
  <2>2. Total(u) > Len(B)
    BY <2>1
  <2>3. Shrunk(u, weights) \in Fair(B) /\ Total(Shrunk(u, weights)) = Total(u) - 1
    BY <2>1, <2>2, ShrunkFacts
  <2>4. Total(u) - 1 = Total(t) - k
    BY <2>1
  <2> QED BY <1>1, <1>3, <2>1, <2>3, <2>4
<1>5. t \in T[0]
  BY <1>1
<1>6. PICK f : RepeatOf(f, n, T, t, F)
  <2>1. \A k \in 1..n : \A u \in T[k - 1] : F[u] \in T[k]
    BY <1>2, <1>4
  <2> QED BY <1>5, <2>1, Repeated
<1>7. Shrinks(f)
  <2>1. \A k \in 0..n : k # 0 => k \in 1..n /\ f[k - 1] \in Fair(B)
    <3>1. \A k \in 0..n : k # 0 => k \in 1..n
      OBVIOUS
    <3> QED BY <1>3, <1>4, <1>6, <3>1 DEF RepeatOf
  <2>2. \A k \in 0..n : f[k] = IF k = 0 THEN t ELSE Shrunk(f[k - 1], weights)
    BY <1>2, <1>6, <2>1 DEF RepeatOf
  <2>3. f = [k \in 0..n |-> f[k]]
    BY <1>6 DEF RepeatOf
  <2> QED BY <2>2, <2>3
<1>8. Shrinks(chosen)
  BY <1>7
<1> HIDE DEF chosen
<1>9. \A k \in 0..n : chosen[k] \in T[k]
  <2> DEFINE S == {k \in 0..n : chosen[k] \in T[k]}
  <2>1. 0 \in S
    BY <1>5, <1>8
  <2>2. ASSUME NEW k \in 1..n, k - 1 \in S PROVE k \in S
    <3>1. chosen[k] = Shrunk(chosen[k - 1], weights)
      BY <1>3, <1>8
    <3> QED BY <1>3, <1>4, <2>2, <3>1
  <2> HIDE DEF S
  <2>3. 0..n \subseteq S
    BY <2>1, <2>2, NatsUpTo
  <2> QED BY <2>3 DEF S
<1>10. AllShrunk(t, weights, n) = chosen[n]
  BY DEF AllShrunk, Repeat, chosen
<1> QED BY <1>1, <1>9, <1>10

LEMMA AllGrownFacts ==
    ASSUME NEW B, Len(B) \in Nat, \A i \in 1..Len(B) : B[i].capacity \in Nat,
           DOMAIN B = 1..Len(B), NEW weights, \A i \in 1..Len(B) : weights[i] \in Int,
           NEW goal \in Int, NEW total \in Int, NEW t \in Fair(B), Total(t) \in Nat,
           Room(B) \in Nat, NEW n \in Nat, Total(t) + n <= Room(B)
    PROVE  /\ AllGrown(t, B, weights, goal, total, n) \in Fair(B)
           /\ Total(AllGrown(t, B, weights, goal, total, n)) = Total(t) + n
<1> DEFINE Step(u) == Grown(u, B, weights, goal, total)
           T == [k \in 0..n |-> {u \in Fair(B) : Total(u) = Total(t) + k}]
           F == [u \in Fair(B) |-> Step(u)]
           Grows(after) ==
             after = [k \in 0..n |-> IF k = 0 THEN t ELSE Step(after[k - 1])]
           chosen == CHOOSE after : Grows(after)
<1>1. \A k \in 0..n : T[k] = {u \in Fair(B) : Total(u) = Total(t) + k}
  OBVIOUS
<1>2. \A u \in Fair(B) : F[u] = Step(u)
  OBVIOUS
<1>3. \A k \in 1..n : k \in 0..n /\ k - 1 \in 0..n /\ k # 0
  OBVIOUS
<1> HIDE DEF T, F
<1>4. ASSUME NEW k \in 1..n, NEW u \in T[k - 1]
      PROVE  Step(u) \in T[k] /\ u \in Fair(B)
  <2>1. u \in Fair(B) /\ Total(u) = Total(t) + (k - 1)
    BY <1>1, <1>3
  <2>2. Total(u) < Room(B)
    BY <2>1
  <2> HIDE DEF Step
  <2>3. Step(u) \in Fair(B) /\ Total(Step(u)) = Total(u) + 1
    <3>1. /\ Grown(u, B, weights, goal, total) \in Fair(B)
          /\ Total(Grown(u, B, weights, goal, total)) = Total(u) + 1
      <4>1. /\ Len(B) \in Nat /\ DOMAIN B = 1..Len(B)
            /\ \A i \in 1..Len(B) : B[i].capacity \in Nat
            /\ \A i \in 1..Len(B) : weights[i] \in Int
            /\ goal \in Int /\ total \in Int /\ u \in Fair(B) /\ Total(u) < Room(B)
        BY <2>1, <2>2
      <4> QED BY ONLY <4>1, GrownFacts, SMTT(30)
    <3> QED BY <3>1 DEF Step
  <2>4. Total(u) + 1 = Total(t) + k
    BY <2>1
  <2> QED BY <1>1, <1>3, <2>1, <2>3, <2>4
<1>5. t \in T[0]
  BY <1>1
<1> HIDE DEF Step
<1>6. PICK f : RepeatOf(f, n, T, t, F)
  <2>1. \A k \in 1..n : \A u \in T[k - 1] : F[u] \in T[k]
    BY <1>2, <1>4
  <2> QED BY <1>5, <2>1, Repeated
<1>7. Grows(f)
  <2>1. \A k \in 0..n : k # 0 => k \in 1..n /\ f[k - 1] \in Fair(B)
    <3>1. \A k \in 0..n : k # 0 => k \in 1..n
      OBVIOUS
    <3> QED BY <1>3, <1>4, <1>6, <3>1 DEF RepeatOf
  <2>2. \A k \in 0..n : f[k] = IF k = 0 THEN t ELSE Step(f[k - 1])
    BY <1>2, <1>6, <2>1 DEF RepeatOf
  <2>3. f = [k \in 0..n |-> f[k]]
    BY <1>6 DEF RepeatOf
  <2> QED BY <2>2, <2>3
<1>8. Grows(chosen)
  BY <1>7
<1> HIDE DEF chosen
<1>9. \A k \in 0..n : chosen[k] \in T[k]
  <2> DEFINE S == {k \in 0..n : chosen[k] \in T[k]}
  <2>1. 0 \in S
    BY <1>5, <1>8
  <2>2. ASSUME NEW k \in 1..n, k - 1 \in S PROVE k \in S
    <3>1. chosen[k] = Step(chosen[k - 1])
      BY <1>3, <1>8
    <3> QED BY <1>3, <1>4, <2>2, <3>1
  <2> HIDE DEF S
  <2>3. 0..n \subseteq S
    BY <2>1, <2>2, NatsUpTo
  <2> QED BY <2>3 DEF S
<1>10. AllGrown(t, B, weights, goal, total, n) = chosen[n]
  BY DEF AllGrown, Repeat, chosen, Step
<1> QED BY <1>1, <1>9, <1>10

\* Each bucket gets a tick at least and no more than its window holds, and all get
\* together what was to be given out.
LEMMA AllocatedFacts ==
    ASSUME NEW B \in Seq(WeekBucket), DOMAIN B = 1..Len(B),
           \A i \in 1..Len(B) : B[i].weight > 0 /\ B[i].capacity > 0,
           NEW target \in Nat, Len(B) <= target
    PROVE  /\ Allocated(B, target) \in Fair(B)
           /\ Total(Allocated(B, target)) = AtMost(target, Room(B))
<1> DEFINE n == Len(B)
           weights == [i \in DOMAIN B |-> B[i].weight]
           room == [i \in DOMAIN B |-> B[i].capacity]
           total == Total(weights)
           goal == AtMost(target, Room(B))
           rough == [i \in DOMAIN B |->
                       AtLeast(1, AtMost(B[i].capacity, (goal * weights[i]) \div total))]
           excess == Total(rough) - goal
<1>1. /\ n \in Nat
      /\ \A i \in 1..n : B[i].weight \in Nat \ {0} /\ B[i].capacity \in Nat \ {0}
  <2>1. \A i \in 1..n : B[i] \in WeekBucket
    OBVIOUS
  <2> QED BY <2>1 DEF WeekBucket
<1>2. /\ weights \in Seq(Nat) /\ room \in Seq(Nat) /\ Len(weights) = n /\ Len(room) = n
      /\ \A i \in 1..n : weights[i] = B[i].weight /\ room[i] = B[i].capacity
  BY <1>1
<1>3. Room(B) = Total(room) /\ total \in Nat /\ Room(B) \in Nat
  <2>1. Room(B) = Total(room)
    BY DEF Room
  <2> HIDE DEF weights, room
  <2> QED BY <1>2, <2>1, TotalIsSize
<1>4. n <= Room(B) /\ n <= total
  <2> DEFINE ones == [i \in 1..n |-> 1]
  <2>1. ones \in Seq(Nat) /\ Len(ones) = n /\ \A i \in 1..n : ones[i] = 1
    BY <1>1
  <2>2. \A i \in 1..n : ones[i] <= weights[i] /\ ones[i] <= room[i]
    BY <1>1
  <2> HIDE DEF ones, weights, room
  <2>3. Total(ones) = n
    BY <2>1, TotalOnes
  <2>4. Total(ones) <= total /\ Total(ones) <= Total(room)
    BY <1>2, <2>1, <2>2, TotalOrder
  <2> QED BY <1>3, <2>3, <2>4
<1>5. goal \in Nat /\ n <= goal /\ goal <= Room(B)
  BY <1>1, <1>3, <1>4 DEF AtMost
<1> HIDE DEF total, goal, excess
<1>6. rough \in Fair(B)
  <2> SUFFICES ASSUME NEW i \in 1..n
               PROVE  /\ rough[i] \in Nat /\ 1 <= rough[i] /\ rough[i] <= B[i].capacity
    BY DEF Fair
  <2> DEFINE share == (goal * weights[i]) \div total
  <2>1. goal * weights[i] \in Nat /\ total \in Nat \ {0}
    BY <1>1, <1>2, <1>3, <1>4, <1>5
  <2>2. share \in Int
    BY <2>1
  <2> HIDE DEF share
  <2>3. rough[i] = AtLeast(1, AtMost(B[i].capacity, share))
    BY DEF share
  <2> QED BY <1>1, <2>2, <2>3 DEF AtLeast, AtMost
<1> HIDE DEF rough, room
<1>7. excess \in Int /\ excess = Total(rough) - goal /\ Total(rough) \in Nat
  <2>1. rough \in Seq(Nat)
    BY <1>1, <1>6 DEF Fair
  <2> QED BY <1>5, <2>1, TotalIsSize DEF excess
<1>8. \A i \in 1..n : weights[i] \in Int /\ B[i].capacity \in Nat
  BY <1>1, <1>2
<1>9. Total(rough) - excess = goal
  BY <1>5, <1>7
<1>10. \A i \in 1..n : B[i].capacity \in Nat /\ weights[i] \in Int
  BY <1>8
<1>11. CASE B = <<>>
  <2>1. n = 0 /\ Allocated(B, target) = <<>>
    BY <1>11 DEF Allocated
  <2>2. <<>> \in Seq(Nat) /\ Len(<<>>) = 0 /\ <<>> \in [1..0 -> Nat]
    BY EmptySeq
  <2>3. Total(<<>>) = 0
    <3>1. \A i \in 1..Len(<<>>) : <<>>[i] = 1
      BY <2>2
    <3> QED BY ONLY <2>2, <3>1, TotalOnes
  <2>4. <<>> \in Fair(B)
    BY <2>1, <2>2 DEF Fair
  <2>5. room \in Seq(Nat) /\ Len(room) = 0
    BY <1>2, <2>1 DEF room
  <2>6. Room(B) = 0
    <3>1. \A i \in 1..Len(room) : room[i] = 1
      BY <2>5
    <3>2. Total(room) = 0
      BY ONLY <2>5, <3>1, TotalOnes
    <3> QED BY <1>3, <3>2
  <2>7. AtMost(target, Room(B)) = 0
    BY <2>6 DEF AtMost
  <2> QED BY <2>1, <2>3, <2>4, <2>7
<1> SUFFICES ASSUME B # <<>>
             PROVE  /\ Allocated(B, target) \in Fair(B)
                    /\ Total(Allocated(B, target)) = AtMost(target, Room(B))
  BY <1>11
<1>12. CASE excess > 0
  <2>1. Allocated(B, target) = AllShrunk(rough, weights, excess)
    BY <1>12 DEF Allocated, AllShrunk, Shrunk, total, goal, rough, excess
  <2> HIDE DEF weights, n
  <2>2. /\ AllShrunk(rough, weights, excess) \in Fair(B)
        /\ Total(AllShrunk(rough, weights, excess)) = Total(rough) - excess
    BY <1>1, <1>5, <1>6, <1>7, <1>9, <1>10, <1>12, AllShrunkFacts DEF n
  <2> QED BY <1>9, <2>1, <2>2 DEF goal
<1>13. CASE ~(excess > 0)
  <2>1. Allocated(B, target) = AllGrown(rough, B, weights, goal, total, -excess)
    BY <1>13 DEF Allocated, AllGrown, Grown, total, goal, rough, excess
  <2>2. -excess \in Nat /\ Total(rough) + (-excess) = goal
    BY <1>5, <1>7, <1>13
  <2> HIDE DEF weights, n
  <2>3. /\ AllGrown(rough, B, weights, goal, total, -excess) \in Fair(B)
        /\ Total(AllGrown(rough, B, weights, goal, total, -excess)) = Total(rough) + (-excess)
    <3>1. /\ Len(B) \in Nat /\ DOMAIN B = 1..Len(B)
          /\ \A i \in 1..Len(B) : B[i].capacity \in Nat
          /\ \A i \in 1..Len(B) : weights[i] \in Int
      BY <1>1, <1>10 DEF n
    <3> DEFINE missing == -excess
    <3>2. /\ goal \in Int /\ total \in Int /\ rough \in Fair(B) /\ Total(rough) \in Nat
          /\ Room(B) \in Nat /\ missing \in Nat /\ Total(rough) + missing <= Room(B)
      BY <1>3, <1>5, <1>6, <1>7, <2>2
    <3> HIDE DEF missing
    <3>3. /\ AllGrown(rough, B, weights, goal, total, missing) \in Fair(B)
          /\ Total(AllGrown(rough, B, weights, goal, total, missing)) = Total(rough) + missing
      BY ONLY <3>1, <3>2, AllGrownFacts
    <3> QED BY <3>3 DEF missing
  <2> QED BY <2>1, <2>2, <2>3 DEF goal
<1> QED BY <1>12, <1>13

-----------------------------------------------------------------------------
(* When each bucket is.                                                    *)

\* p numbers the elements of S from 1 to n.
Numbers(p, n, S) ==
    /\ p \in [1..n -> S]
    /\ \A i, j \in 1..n : p[i] = p[j] => i = j
    /\ \A x \in S : \E k \in 1..n : p[k] = x

\* The periods of a day in the order of their starts are the same periods.
LEMMA ByStartFacts ==
    ASSUME NEW n \in Nat, NEW ps, DOMAIN ps = 1..n, \A i \in 1..n : ps[i].start \in Int
    PROVE  \E p : /\ Numbers(p, n, 1..n)
                  /\ ByStart(ps) = [k \in 1..n |-> ps[p[k]]]
                  /\ \A i, j \in 1..n : i < j => ps[p[i]].start <= ps[p[j]].start
<1> DEFINE S == 1..n
           Earlier(i, j) == \/ ps[i].start < ps[j].start
                            \/ ps[i].start = ps[j].start /\ i < j
           R == {q \in S \X S : Earlier(q[1], q[2])}
           kth(k) == CHOOSE x \in S : Cardinality({y \in S : Earlier(y, x)}) = k - 1
           p == [k \in S |-> kth(k)]
<1>1. IsFiniteSet(S) /\ Cardinality(S) = n
  <2>1. IsFiniteSet(1..n) /\ Cardinality(1..n) = IF 1 > n THEN 0 ELSE n - 1 + 1
    BY 1 \in Int, n \in Int, FS_Interval
  <2> QED BY <2>1
<1>2. ByStart(ps) = [k \in 1..n |-> ps[p[k]]]
  <2>1. DOMAIN ps = S /\ 1..Cardinality(S) = S
    BY <1>1
  <2>2. InOrder(DOMAIN ps, Earlier) = p
    BY <2>1 DEF InOrder
  <2>3. ByStart(ps) = [k \in DOMAIN ps |-> ps[InOrder(DOMAIN ps, Earlier)[k]]]
    BY DEF ByStart
  <2> HIDE DEF p
  <2> QED BY <2>1, <2>2, <2>3
<1>3. \A i, j \in S : Earlier(i, j) <=> \/ ps[i].start < ps[j].start
                                        \/ ps[i].start = ps[j].start /\ i < j
  OBVIOUS
<1>4. \A i, j \in S : <<i, j>> \in R <=> Earlier(i, j)
  OBVIOUS
<1> HIDE DEF Earlier, R
<1>5. \A x \in S : {y \in S : <<y, x>> \in R} = {y \in S : Earlier(y, x)}
  BY <1>4
<1>6. /\ \A x \in S : <<x, x>> \notin R
      /\ \A x, y \in S : x = y \/ <<x, y>> \in R \/ <<y, x>> \in R
      /\ \A x, y, z \in S : <<x, y>> \in R /\ <<y, z>> \in R => <<x, z>> \in R
  <2>1. \A x \in S : x \in Int /\ ps[x].start \in Int
    OBVIOUS
  <2> QED BY <1>3, <1>4, <2>1, SMTT(30)
<1>7. \A k \in S : \A x \in S : Cardinality({y \in S : <<y, x>> \in R}) = k - 1 =>
         p[k] \in S /\ Cardinality({y \in S : <<y, p[k]>> \in R}) = k - 1
  <2> SUFFICES ASSUME NEW k \in S, NEW x \in S, Cardinality({y \in S : <<y, x>> \in R}) = k - 1
               PROVE  p[k] \in S /\ Cardinality({y \in S : <<y, p[k]>> \in R}) = k - 1
    OBVIOUS
  <2>1. Cardinality({y \in S : Earlier(y, x)}) = k - 1
    BY <1>5
  <2>2. kth(k) \in S /\ Cardinality({y \in S : Earlier(y, kth(k))}) = k - 1
    BY <2>1
  <2>3. p[k] = kth(k)
    OBVIOUS
  <2> HIDE DEF p, kth
  <2> QED BY <1>5, <2>2, <2>3
<1>8. p = [k \in S |-> p[k]]
  <2> HIDE DEF kth
  <2> QED OBVIOUS
<1> HIDE DEF p, S
<1>9. /\ p \in [1..n -> S]
      /\ \A x \in S : \E k \in 1..n : p[k] = x
      /\ \A i, j \in 1..n : i < j => <<p[i], p[j]>> \in R
  <2>1. 1..Cardinality(S) = S
    BY <1>1 DEF S
  <2>2. /\ Cardinality(S) \in Nat
        /\ p \in [1..Cardinality(S) -> S]
        /\ \A x \in S : \E k \in 1..Cardinality(S) : p[k] = x
        /\ \A i, j \in 1..Cardinality(S) : i < j => <<p[i], p[j]>> \in R
    <3>1. IsFiniteSet(S) /\ p = [k \in 1..Cardinality(S) |-> p[k]]
      BY <1>1, <1>8, <2>1
    <3>2. \A k \in 1..Cardinality(S) : \A x \in S :
             Cardinality({y \in S : <<y, x>> \in R}) = k - 1 =>
               p[k] \in S /\ Cardinality({y \in S : <<y, p[k]>> \in R}) = k - 1
      BY <1>7, <2>1
    <3> QED BY ONLY <1>6, <3>1, <3>2, RankFacts
  <2>3. 1..Cardinality(S) = 1..n
    BY <1>1
  <2> QED BY ONLY <2>2, <2>3
<1>10. Numbers(p, n, S)
  <2>1. ASSUME NEW i \in 1..n, NEW j \in 1..n, p[i] = p[j], i # j PROVE FALSE
    <3>1. i < j \/ j < i
      BY <2>1
    <3>2. p[i] \in S /\ <<p[i], p[i]>> \in R
      BY <1>9, <2>1, <3>1
    <3> QED BY <1>6, <3>2
  <2> QED BY <1>9, <2>1 DEF Numbers
<1>11. \A i, j \in 1..n : i < j => ps[p[i]].start <= ps[p[j]].start
  <2> SUFFICES ASSUME NEW i \in 1..n, NEW j \in 1..n, i < j
               PROVE  ps[p[i]].start <= ps[p[j]].start
    OBVIOUS
  <2>1. p[i] \in S /\ p[j] \in S /\ Earlier(p[i], p[j])
    BY <1>4, <1>9
  <2>2. ps[p[i]].start \in Int /\ ps[p[j]].start \in Int
    BY <2>1 DEF S
  <2> QED BY <1>3, <2>1, <2>2
<1> QED BY <1>2, <1>10, <1>11 DEF S

\* The periods of a day are those of its buckets, in the order of their starts.
DayOf(periods, d, q, n, B, ticks, args) ==
    /\ n \in Nat /\ Numbers(q, n, {i \in 1..Len(B) : B[i].day = d})
    /\ periods = [k \in 1..n |-> BucketPeriod(B[q[k]], ticks[q[k]], args)]
    /\ \A i, j \in 1..n : i < j => periods[i].start <= periods[j].start

LEMMA WeekDayFacts ==
    ASSUME NEW B, DOMAIN B = 1..Len(B), Len(B) \in Nat, NEW ticks, NEW args, NEW d \in Days,
           \A i \in 1..Len(B) : BucketPeriod(B[i], ticks[i], args).start \in Int
    PROVE  \E q, n : DayOf(WeekDays(B, ticks, args)[d], d, q, n, B, ticks, args)
<1> DEFINE S == {i \in 1..Len(B) : B[i].day = d}
           n == Cardinality(S)
           used == InOrder(S, <)
           raw == [k \in 1..n |-> BucketPeriod(B[used[k]], ticks[used[k]], args)]
           periods == WeekDays(B, ticks, args)[d]
<1>1. S \in SUBSET Int /\ IsFiniteSet(S) /\ S \subseteq 1..Len(B)
  <2>1. IsFiniteSet(1..Len(B))
    BY 1 \in Int, Len(B) \in Int, FS_Interval
  <2>2. S \subseteq 1..Len(B) /\ 1..Len(B) \subseteq Int
    OBVIOUS
  <2> HIDE DEF S
  <2> QED BY <2>1, <2>2, FS_Subset
<1>2. /\ n \in Nat /\ used \in [1..n -> S]
      /\ \A x \in S : \E k \in 1..n : used[k] = x
      /\ \A i, j \in 1..n : i < j => used[i] < used[j]
  <2> HIDE DEF S
  <2> QED BY <1>1, NumbersInOrder
<1>3. periods = ByStart(raw)
  <2>1. InOrder({i \in DOMAIN B : B[i].day = d}, <) = used /\ DOMAIN used = 1..n
    BY <1>2
  <2>2. periods = ByStart([k \in DOMAIN used |-> BucketPeriod(B[used[k]], ticks[used[k]], args)])
    <3>1. {i \in DOMAIN B : B[i].day = d} = S
      OBVIOUS
    <3>2. periods = ByStart([k \in DOMAIN InOrder({i \in DOMAIN B : B[i].day = d}, <) |->
                        BucketPeriod(B[InOrder({i \in DOMAIN B : B[i].day = d}, <)[k]],
                                     ticks[InOrder({i \in DOMAIN B : B[i].day = d}, <)[k]], args)])
      BY DEF WeekDays
    <3> HIDE DEF used, periods
    <3> QED BY <2>1, <3>2
  <2> HIDE DEF periods, used
  <2> QED BY <2>1, <2>2
<1> HIDE DEF used, n, periods
<1>4. DOMAIN raw = 1..n /\ \A k \in 1..n : raw[k].start \in Int
  <2>1. \A k \in 1..n : used[k] \in 1..Len(B)
    BY <1>1, <1>2
  <2> QED BY <2>1
<1>5. \A k \in 1..n : raw[k] = BucketPeriod(B[used[k]], ticks[used[k]], args)
  OBVIOUS
<1> HIDE DEF raw
<1>6. PICK p : /\ Numbers(p, n, 1..n)
               /\ ByStart(raw) = [k \in 1..n |-> raw[p[k]]]
               /\ \A i, j \in 1..n : i < j => raw[p[i]].start <= raw[p[j]].start
  BY <1>2, <1>4, ByStartFacts
<1> DEFINE q == [k \in 1..n |-> used[p[k]]]
<1>7. \A k \in 1..n : p[k] \in 1..n /\ q[k] = used[p[k]]
  BY <1>6 DEF Numbers
<1>8. \A i, j \in 1..n : used[i] = used[j] => i = j
  <2> SUFFICES ASSUME NEW i \in 1..n, NEW j \in 1..n, used[i] = used[j], i # j PROVE FALSE
    OBVIOUS
  <2>1. i < j \/ j < i
    OBVIOUS
  <2>2. used[i] \in Int /\ (used[i] < used[j] \/ used[j] < used[i])
    BY <1>1, <1>2, <2>1
  <2> QED BY <2>2
<1>9. q \in [1..n -> S]
  BY <1>2, <1>7
<1> HIDE DEF q
<1>10. Numbers(q, n, S)
  <2>1. ASSUME NEW i \in 1..n, NEW j \in 1..n, q[i] = q[j] PROVE i = j
    <3>1. p[i] \in 1..n /\ p[j] \in 1..n /\ used[p[i]] = used[p[j]]
      BY <1>7, <2>1
    <3>2. p[i] = p[j]
      BY <1>8, <3>1
    <3> QED BY <1>6, <3>2 DEF Numbers
  <2>2. ASSUME NEW x \in S PROVE \E k \in 1..n : q[k] = x
    <3>1. PICK l \in 1..n : used[l] = x
      BY <1>2
    <3>2. PICK k \in 1..n : p[k] = l
      BY <1>6 DEF Numbers
    <3> QED BY <1>7, <3>1, <3>2
  <2> HIDE DEF S
  <2> QED BY <1>9, <2>1, <2>2 DEF Numbers
<1>11. periods = [k \in 1..n |-> BucketPeriod(B[q[k]], ticks[q[k]], args)]
  BY <1>3, <1>5, <1>6, <1>7
<1>12. \A i, j \in 1..n : i < j => periods[i].start <= periods[j].start
  BY <1>3, <1>6
<1>13. DayOf(periods, d, q, n, B, ticks, args)
  BY <1>2, <1>10, <1>11, <1>12 DEF DayOf, S
<1> QED BY <1>13 DEF periods

\* The times of the buckets of one day, and of those up to a day.
OnDay(B, ticks, d)   == [i \in 1..Len(B) |-> IF B[i].day = d THEN ticks[i] ELSE 0]
UpToDay(B, ticks, d) == [i \in 1..Len(B) |-> IF B[i].day <= d THEN ticks[i] ELSE 0]
DayTicks(periods)    == Total([i \in DOMAIN periods |-> periods[i].end - periods[i].start])

\* Every bucket has its time on its day.
LEMMA DayTicksFacts ==
    ASSUME NEW B, DOMAIN B = 1..Len(B), Len(B) \in Nat, NEW ticks \in [1..Len(B) -> Nat],
           NEW args, NEW d \in Days,
           \A i \in 1..Len(B) : BucketPeriod(B[i], ticks[i], args).start \in Int
    PROVE  DayTicks(WeekDays(B, ticks, args)[d]) = Total(OnDay(B, ticks, d))
<1> DEFINE m == Len(B)
           periods == WeekDays(B, ticks, args)[d]
           f == [i \in DOMAIN periods |-> periods[i].end - periods[i].start]
           g == OnDay(B, ticks, d)
<1>1. PICK q, n : DayOf(periods, d, q, n, B, ticks, args)
  BY WeekDayFacts
<1>2. /\ n \in Nat /\ q \in [1..n -> {i \in 1..m : B[i].day = d}]
      /\ \A i, j \in 1..n : q[i] = q[j] => i = j
      /\ \A i \in 1..m : B[i].day = d => \E k \in 1..n : q[k] = i
      /\ periods = [k \in 1..n |-> BucketPeriod(B[q[k]], ticks[q[k]], args)]
  BY <1>1 DEF DayOf, Numbers
<1>3. \A k \in 1..n : q[k] \in 1..m /\ B[q[k]].day = d /\ ticks[q[k]] \in Nat
  BY <1>2
<1> HIDE DEF periods
<1>4. \A k \in 1..n : periods[k].end - periods[k].start = ticks[q[k]]
  <2> SUFFICES ASSUME NEW k \in 1..n PROVE periods[k].end - periods[k].start = ticks[q[k]]
    OBVIOUS
  <2> DEFINE b == BucketPeriod(B[q[k]], ticks[q[k]], args)
  <2>1. b.start \in Int /\ b.end = b.start + ticks[q[k]]
    <3>1. b.start \in Int
      BY <1>3
    <3> QED BY <3>1 DEF BucketPeriod, Period
  <2>2. periods[k] = b
    BY <1>2
  <2> HIDE DEF b
  <2> QED BY <1>3, <2>1, <2>2
<1>5. DOMAIN f = 1..n /\ \A k \in 1..n : f[k] = ticks[q[k]]
  BY <1>2, <1>4
<1>6. f \in Seq(Nat) /\ Len(f) = n
  <2>1. f \in [1..n -> Nat]
    BY <1>3, <1>4, <1>5
  <2> HIDE DEF f
  <2> QED BY <1>2, <2>1
<1>7. /\ g \in Seq(Nat) /\ Len(g) = m /\ m \in Nat
      /\ \A i \in 1..m : g[i] = IF B[i].day = d THEN ticks[i] ELSE 0
  BY DEF OnDay
<1>8. Total(f) = Total(g)
  <2> HIDE DEF f, g, m
  <2>1. /\ q \in [1..Len(f) -> 1..Len(g)]
        /\ \A i, j \in 1..Len(f) : q[i] = q[j] => i = j
        /\ \A j \in 1..Len(g) : g[j] = 0 \/ \E i \in 1..Len(f) : q[i] = j
        /\ \A i \in 1..Len(f) : f[i] = g[q[i]]
    BY <1>2, <1>3, <1>5, <1>6, <1>7
  <2>2. f \in Seq(Nat) /\ g \in Seq(Nat)
    BY <1>6, <1>7
  <2> QED BY ONLY <2>1, <2>2, TotalReordered
<1> QED BY <1>8 DEF DayTicks, periods

\* And no bucket has more than its time.
LEMMA TicksFacts ==
    ASSUME NEW B, DOMAIN B = 1..Len(B), Len(B) \in Nat, NEW ticks \in [1..Len(B) -> Nat],
           NEW args, \A i \in 1..Len(B) : B[i].day \in Days,
           \A i \in 1..Len(B) : BucketPeriod(B[i], ticks[i], args).start \in Int
    PROVE  Ticks(WeekDays(B, ticks, args)) = Total(ticks)
<1> DEFINE m == Len(B)
           days == WeekDays(B, ticks, args)
           f == [d \in Days |-> DayTicks(days[d])]
           s == [d \in 0..7 |-> Total(UpToDay(B, ticks, d))]
<1>1. Ticks(days) = Total(f)
  <2> HIDE DEF days
  <2> QED BY DEF Ticks, DayTicks
<1>2. \A d \in Days : f[d] = Total(OnDay(B, ticks, d))
  BY DayTicksFacts
<1>3. \A d \in 0..7 : OnDay(B, ticks, d) \in [1..m -> Nat] /\ UpToDay(B, ticks, d) \in [1..m -> Nat]
  BY DEF OnDay, UpToDay
<1>4. \A g \in [1..m -> Nat] : g \in Seq(Nat) /\ Len(g) = m /\ Total(g) \in Int
  <2> SUFFICES ASSUME NEW g \in [1..m -> Nat]
               PROVE  g \in Seq(Nat) /\ Len(g) = m /\ Total(g) \in Int
    OBVIOUS
  <2>1. g \in Seq(Nat) /\ Len(g) = m
    OBVIOUS
  <2>2. g \in Seq(Int)
    BY <2>1
  <2> QED BY <2>1, <2>2, TotalType
<1>5. f \in Seq(Int) /\ Len(f) = 7
  <2>1. f \in [1..7 -> Int]
    BY <1>2, <1>3, <1>4 DEF Days
  <2> DEFINE n == 7
  <2>2. n \in Nat /\ f \in [1..n -> Int]
    BY <2>1
  <2> HIDE DEF f, n
  <2>3. f \in Seq(Int) /\ Len(f) = n
    BY <2>2
  <2> QED BY <2>3 DEF n
<1>6. s[0] = 0
  <2> DEFINE zeros == UpToDay(B, ticks, 0)
             none == [i \in 0..m |-> 0]
  <2>1. zeros \in Seq(Int) /\ Len(zeros) = m /\ \A i \in 1..m : zeros[i] = 0
    <3>1. \A i \in 1..m : zeros[i] = 0
      BY DEF UpToDay, Days
    <3>2. zeros \in [1..m -> Nat]
      BY <1>3
    <3> HIDE DEF zeros
    <3>3. zeros \in Seq(Nat) /\ Len(zeros) = m
      BY <1>4, <3>2
    <3> QED BY <3>1, <3>3
  <2>2. none[0] = 0 /\ none[m] = 0 /\ \A i \in 1..m : none[i] = none[i - 1] + 0
    OBVIOUS
  <2> HIDE DEF zeros, none
  <2>3. Total(zeros) = none[Len(zeros)]
    BY <2>1, <2>2, TotalSteps, SMTT(30)
  <2> QED BY <2>1, <2>2, <2>3 DEF zeros
<1>7. s[7] = Total(ticks)
  <2>1. UpToDay(B, ticks, 7) = ticks
    <3>1. \A i \in 1..m : UpToDay(B, ticks, 7)[i] = ticks[i]
      BY DEF UpToDay, Days
    <3>2. UpToDay(B, ticks, 7) \in [1..m -> Nat]
      BY <1>3
    <3> QED BY <3>1, <3>2
  <2> QED BY <2>1
<1>8. \A d \in 1..7 : s[d] = s[d - 1] + f[d]
  <2> SUFFICES ASSUME NEW d \in 1..7 PROVE s[d] = s[d - 1] + f[d]
    OBVIOUS
  <2> DEFINE g == UpToDay(B, ticks, d - 1)
             h == OnDay(B, ticks, d)
  <2>1. d \in Days /\ d \in 0..7 /\ d - 1 \in 0..7
    BY DEF Days
  <2>2. g \in [1..m -> Nat] /\ h \in [1..m -> Nat]
    BY <1>3, <2>1
  <2>3. UpToDay(B, ticks, d) = [i \in 1..m |-> g[i] + h[i]]
    <3>1. \A i \in 1..m : B[i].day \in Int /\ ticks[i] \in Nat
      BY DEF Days
    <3>2. \A i \in 1..m : (IF B[i].day <= d THEN ticks[i] ELSE 0) = g[i] + h[i]
      BY <3>1 DEF UpToDay, OnDay
    <3> HIDE DEF g, h
    <3> QED BY <3>2 DEF UpToDay
  <2> HIDE DEF g, h
  <2>4. Total([i \in 1..m |-> g[i] + h[i]]) = Total(g) + Total(h)
    BY <2>2, TotalSum
  <2> QED BY <1>2, <2>1, <2>3, <2>4 DEF g, h
<1> HIDE DEF f, s, days
<1>9. Total(f) = s[7]
  BY <1>5, <1>6, <1>8, TotalSteps
<1> QED BY <1>1, <1>7, <1>9 DEF days

-----------------------------------------------------------------------------
(* The plan for a week.                                                    *)

\* A period of that many ticks, of the areas of a bucket, in a segment of its window.
InWeek(p, b, n, args) ==
    /\ p.start \in Nat /\ p.end = p.start + n /\ p.end <= Midnight
    /\ p.areas = b.areas /\ p.mode = "custom"
    /\ Within(p, WindowOf(b, args))

LEMMA BucketPeriodFacts ==
    ASSUME NEW b, NEW args, HasDuration(args.day), HasDuration(args.night),
           NEW n \in Nat, n <= Capacity(WindowOf(b, args))
    PROVE  /\ InWeek(BucketPeriod(b, n, args), b, n, args)
           /\ n <= Length(Segment(WindowOf(b, args), n))
<1> DEFINE w == IF b.kind = "night" THEN args.night ELSE args.day
           segments == Segments(w)
           p == BucketPeriod(b, n, args)
<1>1. HasDuration(w) /\ WindowOf(b, args) = segments
  BY DEF WindowOf
<1>2. n <= Capacity(Segments(w))
  BY <1>1
<1> HIDE DEF w
<1>3. PICK i \in DOMAIN segments : Segment(segments, n) = segments[i] /\ n <= Length(segments[i])
  BY <1>1, <1>2, SegmentHolds
<1>4. segments[i][1] \in 0..Midnight /\ segments[i][2] \in 0..Midnight
  BY <1>1, SegmentsFacts
<1> HIDE DEF segments
<1>5. /\ p.start = segments[i][1] /\ p.end = segments[i][1] + n
      /\ p.areas = b.areas /\ p.mode = "custom"
  BY <1>1, <1>3 DEF BucketPeriod, Period
<1> HIDE DEF p
<1>6. p.start \in Nat /\ p.end = p.start + n /\ p.end <= segments[i][2] /\ p.end <= Midnight
  <2> DEFINE from == segments[i][1]
             to == segments[i][2]
  <2>1. from \in 0..Midnight /\ to \in 0..Midnight /\ n <= to - from
    BY <1>3, <1>4 DEF Length
  <2>2. p.start = from /\ p.end = from + n
    BY <1>5
  <2> HIDE DEF from, to
  <2>3. from \in Nat /\ from + n <= to /\ from + n <= Midnight
    BY <2>1 DEF Midnight
  <2> QED BY <2>2, <2>3 DEF to
<1>7. Within(p, segments)
  <2>1. p.start >= segments[i][1] /\ p.end <= segments[i][2]
    BY <1>4, <1>5, <1>6 DEF Midnight
  <2> QED BY <2>1 DEF Within
<1>8. InWeek(p, b, n, args)
  BY <1>1, <1>5, <1>6, <1>7 DEF InWeek
<1> QED BY <1>1, <1>3, <1>8 DEF p

\* The days of a week, with the buckets and their times.
Week(days, B, ticks, S, args) ==
    /\ WeekOf(B, S, args) /\ ticks \in Fair(B) /\ Len(B) \in Nat
    /\ days = WeekDays(B, ticks, args) /\ DOMAIN days = Days
    /\ \A d \in Days : \E q, n : DayOf(days[d], d, q, n, B, ticks, args)
    /\ \A i \in 1..Len(B) : InWeek(BucketPeriod(B[i], ticks[i], args), B[i], ticks[i], args)

LEMMA WeekFacts ==
    ASSUME NEW S, IsMap(S), NEW args, IsWeekArgs(args), WeekArgsOk(S, args),
           Len(WeekBuckets(S, args)) <= WeekTicks(args)
    PROVE  LET B     == WeekBuckets(S, args)
               ticks == Allocated(B, WeekTicks(args))
               days  == WeekDays(B, ticks, args)
           IN  /\ Week(days, B, ticks, S, args)
               /\ Ticks(days) = AtMost(WeekTicks(args), Room(B))
               /\ Fit(B, ticks, args)
<1> DEFINE B == WeekBuckets(S, args)
           target == WeekTicks(args)
           ticks == Allocated(B, target)
           days == WeekDays(B, ticks, args)
<1>1. WeekOf(B, S, args)
  BY WeekBucketsFacts
<1>2. HasDuration(args.day) /\ HasDuration(args.night)
  BY WeekWindows
<1>3. Len(B) <= target /\ target \in Nat
  BY DEF WeekTicks, AtMost, IsWeekArgs, WeekArgsOk
<1> HIDE DEF B, target
<1>4. /\ B \in Seq(WeekBucket) /\ DOMAIN B = 1..Len(B) /\ Len(B) \in Nat
      /\ \A i \in 1..Len(B) : /\ B[i].weight > 0 /\ B[i].day \in Days
                              /\ B[i].capacity = Capacity(WindowOf(B[i], args))
  <2>1. B \in Seq(WeekBucket)
    BY <1>1 DEF WeekOf
  <2>2. \A i \in 1..Len(B) : B[i].day \in Days
    <3>1. \A i \in 1..Len(B) : B[i] \in WeekBucket
      BY <2>1
    <3> QED BY <3>1 DEF WeekBucket
  <2> QED BY <1>1, <2>1, <2>2 DEF WeekOf
<1>5. \A i \in 1..Len(B) : Capacity(WindowOf(B[i], args)) \in Nat \ {0}
  BY <1>2, SegmentsFacts DEF WindowOf
<1>6. ticks \in Fair(B) /\ Total(ticks) = AtMost(target, Room(B))
  <2>1. \A i \in 1..Len(B) : B[i].weight > 0 /\ B[i].capacity > 0
    BY <1>4, <1>5
  <2> QED BY <1>3, <1>4, <2>1, AllocatedFacts
<1> HIDE DEF ticks
<1>7. /\ ticks \in [1..Len(B) -> Nat]
      /\ \A i \in 1..Len(B) : ticks[i] <= Capacity(WindowOf(B[i], args))
  BY <1>4, <1>6 DEF Fair
<1>8. ASSUME NEW i \in 1..Len(B)
      PROVE  /\ InWeek(BucketPeriod(B[i], ticks[i], args), B[i], ticks[i], args)
             /\ ticks[i] <= Length(Segment(WindowOf(B[i], args), ticks[i]))
  <2>1. ticks[i] \in Nat /\ ticks[i] <= Capacity(WindowOf(B[i], args))
    BY <1>7
  <2> QED BY <1>2, <2>1, BucketPeriodFacts
<1>9. \A i \in 1..Len(B) : BucketPeriod(B[i], ticks[i], args).start \in Int
  <2>1. \A i \in 1..Len(B) : BucketPeriod(B[i], ticks[i], args).start \in Nat
    BY <1>8 DEF InWeek
  <2> QED BY <2>1
<1>10. \A d \in Days : \E q, n : DayOf(days[d], d, q, n, B, ticks, args)
  BY <1>4, <1>9, WeekDayFacts
<1>11. DOMAIN days = Days
  BY DEF WeekDays
<1>12. Week(days, B, ticks, S, args)
  BY <1>1, <1>4, <1>6, <1>8, <1>10, <1>11 DEF Week
<1>13. Ticks(days) = AtMost(target, Room(B))
  BY <1>4, <1>6, <1>7, <1>9, TicksFacts
<1>14. Fit(B, ticks, args)
  BY <1>4, <1>8 DEF Fit
<1> QED BY <1>12, <1>13, <1>14 DEF days, ticks, target, B

\* Of one day of it: its periods are those of its buckets, at most one of each kind.
DayOfWeek(periods, d, q, n, B, ticks, args) ==
    /\ n \in 0..2 /\ DOMAIN periods = 1..n /\ Len(periods) = n
    /\ \A k \in 1..n : /\ q[k] \in 1..Len(B) /\ B[q[k]].day = d
                       /\ InWeek(periods[k], B[q[k]], ticks[q[k]], args)
                       /\ ticks[q[k]] \in Nat \ {0}
                       /\ B[q[k]].areas # {} /\ B[q[k]].kind \in {"day", "night"}
    /\ \A i \in 1..Len(B) : B[i].day = d => \E k \in 1..n : q[k] = i
    /\ \A i, j \in 1..n : i < j => /\ periods[i].start <= periods[j].start
                                   /\ B[q[i]].kind # B[q[j]].kind

LEMMA DayOfWeekFacts ==
    ASSUME NEW days, NEW B, NEW ticks, NEW S, NEW args, Week(days, B, ticks, S, args),
           NEW d \in Days
    PROVE  \E q, n : DayOfWeek(days[d], d, q, n, B, ticks, args)
<1>1. PICK q, n : DayOf(days[d], d, q, n, B, ticks, args)
  BY DEF Week
<1> DEFINE periods == days[d]
<1>2. /\ n \in Nat /\ q \in [1..n -> {i \in 1..Len(B) : B[i].day = d}]
      /\ \A i, j \in 1..n : q[i] = q[j] => i = j
      /\ \A i \in 1..Len(B) : B[i].day = d => \E k \in 1..n : q[k] = i
      /\ periods = [k \in 1..n |-> BucketPeriod(B[q[k]], ticks[q[k]], args)]
      /\ \A i, j \in 1..n : i < j => periods[i].start <= periods[j].start
  BY <1>1 DEF DayOf, Numbers
<1>3. \A k \in 1..n : q[k] \in 1..Len(B) /\ B[q[k]].day = d
  BY <1>2
<1> HIDE DEF periods
<1>4. \A i \in 1..Len(B) :
         /\ InWeek(BucketPeriod(B[i], ticks[i], args), B[i], ticks[i], args)
         /\ ticks[i] \in Nat \ {0} /\ B[i].areas # {} /\ B[i].kind \in {"day", "night"}
  <2>1. \A i \in 1..Len(B) : ticks[i] \in Nat \ {0}
    BY DEF Week, Fair
  <2>2. \A i \in 1..Len(B) : B[i].areas # {} /\ B[i] \in WeekBucket
    BY DEF Week, WeekOf
  <2>3. \A i \in 1..Len(B) : B[i].kind \in {"day", "night"}
    BY <2>2 DEF WeekBucket
  <2> QED BY <2>1, <2>2, <2>3 DEF Week
<1>5. \A i, j \in 1..Len(B) : B[i].day = B[j].day /\ B[i].kind = B[j].kind => i = j
  BY DEF Week, WeekOf
<1>6. \A i, j \in 1..n : i < j => B[q[i]].kind # B[q[j]].kind
  <2> SUFFICES ASSUME NEW i \in 1..n, NEW j \in 1..n, i < j, B[q[i]].kind = B[q[j]].kind
               PROVE  FALSE
    OBVIOUS
  <2>1. q[i] = q[j]
    BY <1>3, <1>5
  <2>2. i = j
    BY <1>2, <2>1
  <2> QED BY <2>2
<1>7. n \in 0..2
  <2> SUFFICES ASSUME 3 <= n PROVE FALSE
    BY <1>2
  <2>1. 1 \in 1..n /\ 2 \in 1..n /\ 3 \in 1..n
    BY <1>2
  <2>2. /\ B[q[1]].kind # B[q[2]].kind /\ B[q[1]].kind # B[q[3]].kind
        /\ B[q[2]].kind # B[q[3]].kind
    BY <1>6, <2>1
  <2>3. /\ B[q[1]].kind \in {"day", "night"} /\ B[q[2]].kind \in {"day", "night"}
        /\ B[q[3]].kind \in {"day", "night"}
    BY <1>3, <1>4, <2>1
  <2> QED BY <2>2, <2>3
<1>8. DOMAIN periods = 1..n /\ Len(periods) = n
  BY <1>2
<1>9. \A k \in 1..n : periods[k] = BucketPeriod(B[q[k]], ticks[q[k]], args)
  BY <1>2
<1>10. DayOfWeek(periods, d, q, n, B, ticks, args)
  BY <1>2, <1>3, <1>4, <1>6, <1>7, <1>8, <1>9 DEF DayOfWeek
<1> QED BY <1>10 DEF periods

\* By day and by night at once no two periods are, if the windows are disjoint.
LEMMA DayBesideNight ==
    ASSUME NEW args, IsWindow(args.day), HasDuration(args.night),
           Segments(args.day) = <<args.day>>, Disjoint(args),
           NEW p, NEW b, NEW n \in Nat, InWeek(p, b, n, args), b.kind # "night",
           NEW q, NEW c, NEW m \in Nat, InWeek(q, c, m, args), c.kind = "night"
    PROVE  p.end <= q.start \/ q.end <= p.start
<1> DEFINE segments == Segments(args.night)
<1>1. /\ p.start \in Nat /\ p.end = p.start + n
      /\ q.start \in Nat /\ q.end = q.start + m
      /\ Within(p, Segments(args.day)) /\ Within(q, segments)
  BY DEF InWeek, WindowOf
<1>2. p.start >= args.day[1] /\ p.end <= args.day[2]
  BY <1>1 DEF Within
<1>3. PICK i \in DOMAIN segments : q.start >= segments[i][1] /\ q.end <= segments[i][2]
  BY <1>1 DEF Within
<1>4. segments[i][2] <= args.day[1] \/ args.day[2] <= segments[i][1]
  BY DEF Disjoint
<1>5. /\ segments[i][1] \in Int /\ segments[i][2] \in Int
      /\ args.day[1] \in Int /\ args.day[2] \in Int
  <2>1. segments[i][1] \in 0..Midnight /\ segments[i][2] \in 0..Midnight
    BY SegmentsFacts
  <2> QED BY <2>1 DEF IsWindow, Midnight
<1> HIDE DEF segments
<1>6. p.end \in Int /\ q.end \in Int
  BY <1>1
<1> QED BY <1>1, <1>2, <1>3, <1>4, <1>5, <1>6

\* Such a week is one that validate_draft accepts.
LEMMA WeekValid ==
    ASSUME NEW days, NEW B, NEW ticks, NEW S, NEW args, Week(days, B, ticks, S, args),
           IsWeekArgs(args), WeekArgsOk(S, args), Disjoint(args)
    PROVE  Valid(days)
<1>1. ASSUME NEW d \in Days
      PROVE  /\ Len(days[d]) <= MaxPeriods
             /\ \A i \in DOMAIN days[d] :
                   /\ ValidPeriod(days[d][i])
                   /\ \A j \in 1..(i - 1) : days[d][j].end <= days[d][i].start
  <2> DEFINE periods == days[d]
  <2>1. PICK q, n : DayOfWeek(periods, d, q, n, B, ticks, args)
    BY DayOfWeekFacts
  <2>2. n \in 0..2 /\ DOMAIN periods = 1..n /\ Len(periods) = n
    BY <2>1 DEF DayOfWeek
  <2> HIDE DEF periods
  <2>3. ASSUME NEW k \in 1..n
        PROVE  /\ InWeek(periods[k], B[q[k]], ticks[q[k]], args)
               /\ ticks[q[k]] \in Nat \ {0} /\ B[q[k]].areas # {}
               /\ B[q[k]].kind \in {"day", "night"}
    BY <2>1 DEF DayOfWeek
  <2>4. ASSUME NEW k \in 1..n
        PROVE  /\ periods[k].start \in Nat /\ periods[k].end = periods[k].start + ticks[q[k]]
               /\ periods[k].end <= Midnight /\ ValidPeriod(periods[k])
    <3>1. /\ periods[k].start \in Nat /\ periods[k].end = periods[k].start + ticks[q[k]]
          /\ periods[k].end <= Midnight /\ periods[k].areas = B[q[k]].areas
          /\ periods[k].mode = "custom"
      BY <2>3 DEF InWeek
    <3>2. ticks[q[k]] \in Nat \ {0} /\ periods[k].areas # {}
      BY <2>3, <3>1
    <3>3. 0 <= periods[k].start /\ periods[k].start < periods[k].end
      BY <3>1, <3>2
    <3> QED BY <3>1, <3>2, <3>3 DEF ValidPeriod
  <2>5. ASSUME NEW i \in 1..n, NEW j \in 1..(i - 1) PROVE periods[j].end <= periods[i].start
    <3>1. j \in 1..n /\ j < i
      BY <2>2
    <3>2. periods[j].start <= periods[i].start /\ B[q[j]].kind # B[q[i]].kind
      BY <2>1, <3>1 DEF DayOfWeek
    <3>3. /\ IsWindow(args.day) /\ HasDuration(args.night) /\ Segments(args.day) = <<args.day>>
      BY WeekWindows DEF IsWeekArgs
    <3>4. /\ InWeek(periods[i], B[q[i]], ticks[q[i]], args) /\ ticks[q[i]] \in Nat \ {0}
          /\ InWeek(periods[j], B[q[j]], ticks[q[j]], args) /\ ticks[q[j]] \in Nat \ {0}
      BY <2>3, <3>1
    <3>5. periods[j].end <= periods[i].start \/ periods[i].end <= periods[j].start
      <4>1. CASE B[q[i]].kind = "night"
        <5>1. B[q[j]].kind # "night" /\ ticks[q[i]] \in Nat /\ ticks[q[j]] \in Nat
          BY <3>2, <3>4, <4>1
        <5> QED BY ONLY Disjoint(args), <3>3, <3>4, <4>1, <5>1, DayBesideNight
      <4>2. CASE B[q[i]].kind # "night"
        <5>1. B[q[j]].kind = "night" /\ ticks[q[i]] \in Nat /\ ticks[q[j]] \in Nat
          BY <2>3, <3>1, <3>2, <3>4, <4>2
        <5> QED BY ONLY Disjoint(args), <3>3, <3>4, <4>2, <5>1, DayBesideNight
      <4> QED BY <4>1, <4>2
    <3>6. /\ periods[i].start \in Nat /\ periods[i].end = periods[i].start + ticks[q[i]]
          /\ periods[j].start \in Nat /\ periods[j].end = periods[j].start + ticks[q[j]]
      BY <2>4, <3>1
    <3> QED BY <3>2, <3>4, <3>5, <3>6
  <2>6. Len(periods) <= MaxPeriods
    BY <2>2 DEF MaxPeriods
  <2> QED BY <2>2, <2>4, <2>5, <2>6 DEF periods
<1> QED BY <1>1 DEF Valid

\* By day no area is planned that is mowed at night only.
LEMMA WeekKeepsNight ==
    ASSUME NEW days, NEW B, NEW ticks, NEW S, NEW args, Week(days, B, ticks, S, args),
           NEW a \in S, NEW d \in Days, NEW i \in DOMAIN days[d], a.id \in days[d][i].areas
    PROVE  Within(days[d][i], IF a \in NightOnly(S, args) THEN Segments(args.night)
                              ELSE Segments(args.day))
<1>1. PICK q, n : DayOfWeek(days[d], d, q, n, B, ticks, args)
  BY DayOfWeekFacts
<1>2. i \in 1..n /\ q[i] \in 1..Len(B) /\ InWeek(days[d][i], B[q[i]], ticks[q[i]], args)
  BY <1>1 DEF DayOfWeek
<1>3. a.id \in B[q[i]].areas /\ Within(days[d][i], WindowOf(B[q[i]], args))
  BY <1>2 DEF InWeek
<1>4. B[q[i]].kind = IF a \in NightOnly(S, args) THEN "night" ELSE "day"
  BY <1>2, <1>3 DEF Week, WeekOf
<1> QED BY <1>3, <1>4 DEF WindowOf

\* An area is on the days on which it has a bucket.
LEMMA WeekVisits ==
    ASSUME NEW days, NEW B, NEW ticks, NEW S, NEW args, Week(days, B, ticks, S, args), NEW a
    PROVE  VisitDays(days, a) = BucketDays(B, a.id)
<1> SUFFICES ASSUME NEW d \in Days
             PROVE  d \in VisitDays(days, a) <=> d \in BucketDays(B, a.id)
  BY DEF VisitDays, BucketDays
<1>1. PICK q, n : DayOfWeek(days[d], d, q, n, B, ticks, args)
  BY DayOfWeekFacts
<1>2. /\ DOMAIN days[d] = 1..n
      /\ \A k \in 1..n : /\ q[k] \in 1..Len(B) /\ B[q[k]].day = d
                         /\ days[d][k].areas = B[q[k]].areas
      /\ \A i \in 1..Len(B) : B[i].day = d => \E k \in 1..n : q[k] = i
  BY <1>1 DEF DayOfWeek, InWeek
<1>3. ASSUME d \in VisitDays(days, a) PROVE d \in BucketDays(B, a.id)
  BY <1>2, <1>3 DEF VisitDays, BucketDays
<1>4. ASSUME d \in BucketDays(B, a.id) PROVE d \in VisitDays(days, a)
  <2>1. PICK i \in 1..Len(B) : B[i].day = d /\ a.id \in B[i].areas
    BY <1>4 DEF BucketDays
  <2>2. PICK k \in 1..n : q[k] = i
    BY <1>2, <2>1
  <2> QED BY <1>2, <2>1, <2>2 DEF VisitDays
<1> QED BY <1>3, <1>4

LEMMA RoomType ==
    ASSUME NEW B \in Seq(WeekBucket), DOMAIN B = 1..Len(B)
    PROVE  Room(B) \in Nat
<1> DEFINE room == [i \in DOMAIN B |-> B[i].capacity]
<1>1. \A i \in 1..Len(B) : B[i].capacity \in Nat
  <2>1. \A i \in 1..Len(B) : B[i] \in WeekBucket
    OBVIOUS
  <2> QED BY <2>1 DEF WeekBucket
<1>2. room \in Seq(Nat)
  BY <1>1
<1>3. Room(B) = Total(room)
  BY DEF Room
<1> HIDE DEF room
<1> QED BY <1>2, <1>3, TotalIsSize

\* What is refused is not refused for what the plan itself should have kept.
LEMMA WeekPlanFacts ==
    ASSUME NEW S, IsMap(S), NEW args, IsWeekArgs(args)
    PROVE  LET plan == WeekPlan(S, args)
               B    == WeekBuckets(S, args)
           IN  /\ plan.refused # "constraint"
               /\ plan.refused = "" =>
                     /\ WeekArgsOk(S, args)
                     /\ \E ticks : Week(plan.days, B, ticks, S, args)
                     /\ Ticks(plan.days) = AtMost(WeekTicks(args), Room(B))
<1> DEFINE plan == WeekPlan(S, args)
           B == WeekBuckets(S, args)
           ticks == Allocated(B, WeekTicks(args))
           days == WeekDays(B, ticks, args)
<1>1. CASE ~WeekArgsOk(S, args)
  <2>1. plan.refused = "arguments"
    BY <1>1 DEF WeekPlan
  <2> QED BY <2>1
<1>2. CASE WeekArgsOk(S, args) /\ WeekTicks(args) < Len(B)
  <2>1. plan.refused = "too short"
    BY <1>2 DEF WeekPlan
  <2> QED BY <2>1
<1>3. CASE WeekArgsOk(S, args) /\ ~(WeekTicks(args) < Len(B))
  <2>1. WeekTicks(args) \in Nat /\ WeekTicks(args) <= args.cap /\ args.cap \in Nat
    BY <1>3 DEF WeekTicks, AtMost, IsWeekArgs, WeekArgsOk
  <2>2. Len(B) \in Nat
    BY <1>3, WeekBucketsFacts DEF WeekOf
  <2>3. /\ Week(days, B, ticks, S, args) /\ Fit(B, ticks, args)
        /\ Ticks(days) = AtMost(WeekTicks(args), Room(B))
    BY <1>3, <2>1, <2>2, WeekFacts
  <2>4. plan = IF ~Fit(B, ticks, args) \/ NightAtDay(days, S, args) \/ TooLong(days, args)
               THEN [refused |-> "constraint", days |-> <<>>]
               ELSE IF EveryAreaAtOnce(days, S) THEN [refused |-> "every area", days |-> <<>>]
               ELSE [refused |-> "", days |-> days]
    BY <1>3 DEF WeekPlan
  <2> HIDE DEF plan, days, ticks
  <2>5. ~NightAtDay(days, S, args)
    <3> SUFFICES ASSUME NEW d \in Days, NEW i \in DOMAIN days[d],
                        NEW a \in NightOnly(S, args), a.id \in days[d][i].areas
                 PROVE  Within(days[d][i], Segments(args.night))
      BY DEF NightAtDay
    <3>1. a \in S
      BY DEF NightOnly, Called
    <3>2. Within(days[d][i], IF a \in NightOnly(S, args) THEN Segments(args.night)
                             ELSE Segments(args.day))
      BY <2>3, <3>1, WeekKeepsNight
    <3> QED BY <3>2
  <2>6. ~TooLong(days, args)
    <3>1. Room(B) \in Int
      BY <2>3, RoomType DEF Week, WeekOf
    <3> QED BY <2>1, <2>3, <3>1 DEF TooLong, AtMost
  <2>7. \/ plan = [refused |-> "every area", days |-> <<>>]
        \/ plan = [refused |-> "", days |-> days]
    BY <2>3, <2>4, <2>5, <2>6
  <2>8. CASE plan = [refused |-> "every area", days |-> <<>>]
    <3>1. plan.refused = "every area"
      BY <2>8
    <3> QED BY <3>1 DEF plan
  <2>9. CASE plan = [refused |-> "", days |-> days]
    <3>1. plan.refused = "" /\ plan.days = days
      BY <2>9
    <3> QED BY <1>3, <2>3, <3>1 DEF plan
  <2> QED BY <2>7, <2>8, <2>9
<1> QED BY <1>1, <1>2, <1>3

\* Laying out a plan for one day never fails, and laying one out for a week only when
\* the windows of the day and of the night overlap: the greedy order keeps the periods
\* of a day apart, a bucket is no longer than the longest segment of its window, and of
\* a day there is one by day and one by night at most.
THEOREM PlansFitTheDay == Spec => PlansFit
<1>1. ASSUME IInv, [Next]_vars, job # NoJob, job' = NoJob, outcome' \in {"unfit", "constraint"}
      PROVE  job.command = "optimize-weekly" /\ ~Disjoint(job.args)
  <2>1. Optimize \/ OptimizeWeekly
    <3>1. CASE UNCHANGED vars
      BY <1>1, <3>1 DEF vars
    <3>2. CASE Next
      BY <1>1, <3>2 DEF Next, Capture, Trails, Report, Export, AddPeriod, Begin
    <3> QED BY <1>1, <3>1, <3>2
  <2>2. IsMap(areas)
    BY <1>1, AreasKnown
  <2>3. CASE Optimize
    <3> DEFINE days == [job.draft.days EXCEPT ![job.args.day] = DayPlan(areas, job.args)]
    <3>1. /\ job.command = "optimize" /\ job.args \in DayArgs
          /\ Valid(job.draft.days) /\ DOMAIN job.draft.days = Days
      BY <1>1, <2>3 DEF Optimize, IInv, TypeOK, JobInv, OfItsBase
    <3>2. IsDayArgs(job.args)
      BY <3>1, ScheduleAssumption
    <3>3. DayArgsOk(job.args) => Valid(days)
      BY <2>2, <3>1, <3>2, DayPlanValid
    <3> HIDE DEF days
    <3>4. \/ outcome' \in {"blocked", "arguments"}
          \/ DayArgsOk(job.args) /\ Writes(days, job.draft.edited \cup {job.args.day})
      BY <2>3 DEF Optimize, Ends, days
    <3>5. outcome' \in {"blocked", "arguments", "written"}
      BY <3>3, <3>4 DEF Writes, Ends
    <3> QED BY <1>1, <3>5
  <2>4. CASE OptimizeWeekly
    <3> DEFINE plan == WeekPlan(areas, job.args)
               B == WeekBuckets(areas, job.args)
    <3>1. job.command = "optimize-weekly"
      BY <2>4 DEF OptimizeWeekly
    <3>2. job.args \in WeekArgs /\ WeekPlans[areas][job.args] = plan
      BY <1>1, <3>1, PlanOfTheWeek
    <3>3. IsWeekArgs(job.args)
      BY <3>2, ScheduleAssumption
    <3>4. /\ plan.refused # "constraint"
          /\ plan.refused = "" => /\ WeekArgsOk(areas, job.args)
                                  /\ \E ticks : Week(plan.days, B, ticks, areas, job.args)
      BY <2>2, <3>3, WeekPlanFacts
    <3> HIDE DEF plan, B
    <3>5. plan.refused = "" /\ Disjoint(job.args) => Valid(plan.days)
      BY <3>3, <3>4, WeekValid
    <3>6. \/ outcome' = "blocked"
          \/ plan.refused # "" /\ outcome' = plan.refused
          \/ plan.refused = "" /\ Writes(plan.days, Days)
      BY <2>4, <3>2 DEF OptimizeWeekly, Ends
    <3>7. plan.refused = "" /\ Disjoint(job.args) /\ Writes(plan.days, Days) =>
             outcome' = "written"
      BY <3>5 DEF Writes, Ends
    <3>8. plan.refused # "unfit"
      BY DEF plan, WeekPlan
    <3> QED BY <1>1, <3>1, <3>4, <3>6, <3>7, <3>8
  <2> QED BY <2>1, <2>3, <2>4
<1>2. IInv /\ [Next]_vars =>
        [job # NoJob /\ job' = NoJob /\ outcome' \in {"unfit", "constraint"} =>
            job.command = "optimize-weekly" /\ ~Disjoint(job.args)]_job
  BY <1>1
<1> QED BY <1>2, Invariant, PTL DEF Spec, PlansFit

\* What a plan for a week is when it is written.
LEMMA WeekWritten ==
    ASSUME IInv, [Next]_vars, Written("optimize-weekly")
    PROVE  LET B == WeekBuckets(areas, job.args)
           IN  /\ IsMap(areas)
               /\ \E ticks : Week(output'.days, B, ticks, areas, job.args)
               /\ Ticks(output'.days) = AtMost(WeekTicks(job.args), Room(B))
<1>1. output' # output /\ output'.plan = "optimize-weekly"
  BY DEF Written
<1>2. /\ job.args \in WeekArgs /\ WeekPlan(areas, job.args).refused = ""
      /\ output'.days = WeekPlan(areas, job.args).days
  BY <1>1, WhatIsWritten
<1>3. IsMap(areas) /\ IsWeekArgs(job.args)
  BY <1>2, AreasKnown, ScheduleAssumption
<1> QED BY <1>2, <1>3, WeekPlanFacts

\* In a plan for a week every area of the map has its visits, each on a day of its
\* own unless some day must have them all, and is mowed at night if and only if it is a
\* night-only one.
THEOREM EveryAreaIsVisited == Spec => AreasVisited
<1> DEFINE Visit(a) ==
              /\ Cardinality(DaysOut(job.args)) >= 7 =>
                    Cardinality(VisitDays(output'.days, a)) = AtMost(Visits(a, job.args), 7)
              /\ \A d \in Days : \A i \in DOMAIN output'.days[d] :
                    a.id \in output'.days[d][i].areas =>
                       Within(output'.days[d][i],
                              IF a \in NightOnly(areas, job.args) THEN Segments(job.args.night)
                              ELSE Segments(job.args.day))
<1>1. ASSUME IInv, [Next]_vars, Written("optimize-weekly"), NEW a \in areas PROVE Visit(a)
  <2> DEFINE B == WeekBuckets(areas, job.args)
             days == output'.days
  <2>1. PICK ticks : Week(days, B, ticks, areas, job.args)
    BY <1>1, WeekWritten
  <2> HIDE DEF B, days
  <2>2. VisitDays(days, a) = BucketDays(B, a.id)
    BY <2>1, WeekVisits
  <2>3. Cardinality(BucketDays(B, a.id)) = AtMost(Visits(a, job.args), 7)
    BY <2>1 DEF Week, WeekOf
  <2>4. \A d \in Days : \A i \in DOMAIN days[d] : a.id \in days[d][i].areas =>
           Within(days[d][i], IF a \in NightOnly(areas, job.args) THEN Segments(job.args.night)
                              ELSE Segments(job.args.day))
    BY <2>1, WeekKeepsNight
  <2> QED BY <2>2, <2>3, <2>4 DEF days
<1>2. IInv /\ [Next]_vars => [Written("optimize-weekly") => \A a \in areas : Visit(a)]_output
  <2> HIDE DEF Visit
  <2> QED BY <1>1 DEF Written
<1> QED BY <1>2, Invariant, PTL DEF Spec, AreasVisited

\* And exactly the time that was asked for is planned, unless the windows of the days
\* in use hold less: rounding neither loses a tick nor adds one.
THEOREM AllHoursAreSpent == Spec => HoursSpent
<1>1. IInv /\ [Next]_vars =>
        [Written("optimize-weekly") =>
            Ticks(output'.days) =
                AtMost(WeekTicks(job.args), Room(WeekBuckets(areas, job.args)))]_output
  BY WeekWritten
<1> QED BY <1>1, Invariant, PTL DEF Spec, HoursSpent
=============================================================================
