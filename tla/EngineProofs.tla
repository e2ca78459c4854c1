---------------------------- MODULE EngineProofs ----------------------------
(* The engine runs the evidence cache as a client should, so what is       *)
(* proved of the cache holds of the engine; on top of that, what the       *)
(* report may rely on, for every definition, host and wiring.              *)
EXTENDS Engine, EvidenceCacheProofs

(* Each engine step is a step of the cache's client or leaves it alone.    *)
LEMMA EngineStepsCache == ASSUME [Next]_vars PROVE [CacheNext]_cacheVars
<1>1. ASSUME Probe \/ Evidence PROVE CacheNext
  BY <1>1 DEF Probe, Evidence, CacheNext, Client
<1>2. ASSUME Begin PROVE CacheNext
  BY <1>2 DEF Begin, CacheNext, Client
<1>3. ASSUME NEW s, Close(s) PROVE CacheNext
  BY <1>3 DEF Close, CacheNext, Client
<1>4. ASSUME \/ ConditionFails
             \/ \E s \in Statuses \cup {Invalid} : Verdict(s)
             \/ Unavailable \/ Defect
      PROVE  CacheNext
  BY <1>3, <1>4 DEF ConditionFails, Verdict, Unavailable, Defect
<1>5. ASSUME \/ StartControls \/ FilterOut \/ ConditionHolds
             \/ StartManual \/ Manual \/ Finish \/ UNCHANGED vars
      PROVE  UNCHANGED cacheVars
  BY <1>5, Zenon DEF StartControls, FilterOut, ConditionHolds, StartManual, Manual, Finish, vars
<1> QED
  BY <1>1, <1>2, <1>4, <1>5, Zenon DEF Next

(* The engine implements the evidence cache with itself as the client.     *)
THEOREM EngineImplementsCache == Spec => CacheSpec
<1>1. Init => CacheInit
  BY DEF Init
<1>2. [Next]_vars => [CacheNext]_cacheVars
  BY EngineStepsCache
<1> QED
  BY <1>1, <1>2, PTL DEF Spec, CacheSpec

(* What the cache guarantees at every state of a run of the engine.        *)
CacheGuarantees ==
  CacheTypeOK /\ NoReentry /\ SameAnswer /\ TallyMatchesCache /\ FailureIsAttributed

COROLLARY CacheGuaranteesHold == Spec => []CacheGuarantees
BY EngineImplementsCache, TypeCorrect, NoReentryHolds, SameAnswerHolds, TallyHolds,
   AttributionHolds, PTL DEF CacheGuarantees

-----------------------------------------------------------------------------
(* How the steps of the engine move the engine's own variables.            *)

(* A result is appended, which closes an evaluation or needs none; or an   *)
(* evaluation opens, advances or nothing of it changes.                    *)
Appends(s) == results' = Append(results, s)

LEMMA ResultFacts ==
  ASSUME results \in Seq(Statuses), NEW s \in Statuses, Appends(s)
  PROVE  /\ results' \in Seq(Statuses)
         /\ Len(results) \in Nat /\ Len(results') = Len(results) + 1
         /\ results'[Len(results) + 1] = s
         /\ \A i \in 1 .. Len(results) : results'[i] = results[i]
  BY DEF Appends

(* The variables keep their types (Engine!TypeOK).                         *)
THEOREM EngineTypeCorrect == Spec => []TypeOK
<1>1. Init => TypeOK
  <2> SUFFICES ASSUME Init PROVE TypeOK
    OBVIOUS
  <2>1. CacheTypeOK
    BY SentinelsDistinct DEF Init, CacheInit, CacheTypeOK
  <2> QED
    BY <2>1 DEF Init, TypeOK
<1>2. TypeOK /\ CacheTypeOK' /\ [Next]_vars => TypeOK'
  <2> SUFFICES ASSUME TypeOK, CacheTypeOK', [Next]_vars PROVE TypeOK'
    OBVIOUS
  <2>1. /\ phase \in {"probe", "controls", "manual", "done"} /\ step \in Nat
        /\ results \in Seq(Statuses)
        /\ permissions \in [Automated -> Reasons \cup {Absent}]
        /\ used \in [Automated -> (SUBSET Collectors) \cup {Absent}]
        /\ blame \in [Automated -> Keys \cup {Absent}]
        /\ tracking \in (SUBSET Collectors) \cup {Absent}
        /\ raisedBy \in Keys \cup {Absent}
    BY DEF TypeOK, CacheTypeOK
  <2>2. ASSUME UNCHANGED engineVars PROVE TypeOK'
    BY <2>1, <2>2 DEF TypeOK, engineVars
  <2>3. CASE StartControls \/ Begin \/ ConditionHolds \/ StartManual \/ Finish
    BY <2>1, <2>3 DEF StartControls, Begin, ConditionHolds, StartManual, Finish, TypeOK
  <2>4. CASE FilterOut \/ Manual
    BY <2>1, <2>4 DEF FilterOut, Manual, TypeOK, Statuses
  <2>5. ASSUME NEW s \in Statuses, Close(s),
               permissions' \in [Automated -> Reasons \cup {Absent}],
               blame' \in [Automated -> Keys \cup {Absent}]
        PROVE  TypeOK'
    <3>1. results' \in Seq(Statuses)
      BY <2>1, <2>5, ResultFacts DEF Close, Appends
    <3>2. used' \in [Automated -> (SUBSET Collectors) \cup {Absent}]
      BY <2>1, <2>5 DEF Close
    <3> QED
      BY <2>1, <2>5, <3>1, <3>2 DEF Close, TypeOK
  <2>6. CASE ConditionFails
    BY <2>1, <2>5, <2>6 DEF ConditionFails, Statuses
  <2>7. ASSUME NEW s \in Statuses \cup {Invalid}, Verdict(s) PROVE TypeOK'
    BY <2>1, <2>5, <2>7 DEF Verdict, Statuses
  <2>8. CASE Unavailable
    <3>1. /\ permissions' \in [Automated -> Reasons \cup {Absent}]
          /\ blame' \in [Automated -> Keys \cup {Absent}]
      BY <2>1, <2>8 DEF Unavailable
    <3> QED
      BY <2>5, <2>8, <3>1 DEF Unavailable, Statuses
  <2>9. CASE Defect
    BY <2>1, <2>5, <2>9 DEF Defect, Statuses
  <2> QED
    BY <2>2, <2>3, <2>4, <2>6, <2>7, <2>8, <2>9 DEF Next, Probe, Evidence, vars
<1> QED
  BY <1>1, <1>2, CacheGuaranteesHold, PTL DEF Spec, CacheGuarantees

-----------------------------------------------------------------------------
(* Where the run stands, and which control the window belongs to.          *)

Progress ==
  /\ phase = "probe" => results = <<>>
  /\ phase \in {"probe", "controls"} => Len(results) <= N
  /\ phase \in {"manual", "done"} => Len(results) >= N
  /\ step > 0 => phase = "controls" /\ Current \in Automated /\ Applies(Current)

Windows ==
  /\ tracking # Absent <=> step > 0
  /\ tracking # Absent => tracking \subseteq opened
  /\ \A i \in Automated : used[i] # Absent <=> i <= Len(results) /\ Applies(i)
  /\ \A i \in Automated : used[i] # Absent => used[i] \subseteq opened

(* Gathering evidence opens collectors and never opens or ends a window.   *)
LEMMA GatherWindow ==
  ASSUME CacheTypeOK, Gather \/ Handle
  PROVE  /\ opened \subseteq opened'
         /\ tracking' # Absent <=> tracking # Absent
         /\ tracking # Absent /\ tracking \subseteq opened => tracking' \subseteq opened'
<1> USE SentinelsDistinct DEF CacheTypeOK
<1>1. ASSUME NEW c \in Collectors, Use(c)
      PROVE  /\ opened \subseteq opened'
             /\ tracking' # Absent <=> tracking # Absent
             /\ tracking # Absent /\ tracking \subseteq opened => tracking' \subseteq opened'
  <2>1. CASE tracking = Absent
    BY <1>1, <2>1 DEF Use
  <2>2. CASE tracking # Absent
    <3>1. tracking' = tracking \cup {c} /\ opened' = opened \cup {c}
      BY <1>1, <2>2 DEF Use
    <3>2. tracking' # Absent
      BY <2>2, <3>1
    <3> QED
      BY <2>2, <3>1, <3>2
  <2> QED
    BY <2>1, <2>2
<1>2. ASSUME \/ \E k \in Keys : Hit(k) \/ Miss(k)
             \/ \E s \in Sources, a \in Answers : ReadHost(s, a)
             \/ \E s \in Commands, error \in SUBSET {CommandError} : RunCommand(s, error)
      PROVE  \E c \in Collectors : Use(c)
  BY <1>2, WiringAssumption DEF Hit, Miss, ReadHost, RunCommand
<1>3. ASSUME \/ \E v \in Values : Succeed(v)
             \/ \E e \in Reasons \cup {Crash} : Raise(e)
             \/ Fail \/ Blow \/ Tolerate \/ Handle
      PROVE  opened' = opened /\ tracking' = tracking
  BY <1>3, Zenon DEF Succeed, Raise, Fail, Blow, Tolerate, Handle
<1> QED
  BY <1>1, <1>2, <1>3, Zenon DEF Gather

(* A result appended to an evaluation's, or in place of one.               *)
LEMMA ProgressAndWindows ==
  ASSUME TypeOK, Progress, Windows, [Next]_vars
  PROVE  Progress' /\ Windows'
<1> USE EngineAssumption DEF Automated
<1>1. /\ phase \in {"probe", "controls", "manual", "done"} /\ step \in Nat
      /\ results \in Seq(Statuses) /\ Len(results) \in Nat
      /\ used \in [Automated -> (SUBSET Collectors) \cup {Absent}]
      /\ CacheTypeOK
  BY LenProperties DEF TypeOK
<1>2. ASSUME Gather \/ Handle, UNCHANGED engineVars PROVE Progress' /\ Windows'
  <2>1. Progress'
    BY <1>2 DEF Progress, engineVars, Applies, Current
  <2>2. /\ opened \subseteq opened'
        /\ tracking' # Absent <=> tracking # Absent
        /\ tracking # Absent /\ tracking \subseteq opened => tracking' \subseteq opened'
    BY <1>1, <1>2, GatherWindow
  <2>3. Windows'
    BY <1>2, <2>2 DEF Windows, engineVars, Applies
  <2> QED
    BY <2>1, <2>3
<1>3. CASE StartControls \/ ConditionHolds \/ StartManual \/ Finish
  <2>1. Progress'
    BY <1>1, <1>3, EmptySeq DEF StartControls, ConditionHolds, StartManual, Finish, Progress, Applies, Current, Evaluating
  <2>2. UNCHANGED <<opened, tracking, used, results>> /\ (step' > 0 <=> step > 0)
    BY <1>1, <1>3 DEF StartControls, ConditionHolds, StartManual, Finish, cacheVars, Evaluating
  <2>3. Windows'
    BY <2>2 DEF Windows, Applies
  <2> QED
    BY <2>1, <2>3
<1>4. CASE Begin
  <2>1. /\ phase = "controls" /\ Current \in Automated /\ Applies(Current)
        /\ tracking' = {} /\ tracking' # Absent /\ step' = 1
        /\ UNCHANGED <<phase, results, used, opened>>
    BY <1>4, SentinelsDistinct DEF Begin, BeginTracking
  <2>2. Progress'
    BY <1>1, <2>1 DEF Progress, Applies, Current
  <2>3. Windows'
    BY <2>1 DEF Windows, Applies
  <2> QED
    BY <2>2, <2>3
<1>5. ASSUME NEW s \in Statuses, Close(s) PROVE Progress' /\ Windows'
  <2>1. /\ phase = "controls" /\ step > 0 /\ step' = 0 /\ phase' = phase
        /\ used' = [used EXCEPT ![Current] = tracking]
        /\ tracking' = Absent /\ opened' = opened
    BY <1>5 DEF Close, Evaluating, EndTracking, Throw
  <2>2. Len(results') = Len(results) + 1
    BY <1>1, <1>5, ResultFacts DEF Close, Appends
  <2>3. Current \in Automated /\ Applies(Current)
    BY <2>1 DEF Progress
  <2>4. Progress'
    BY <1>1, <2>1, <2>2, <2>3 DEF Progress, Current
  <2>5. tracking # Absent /\ tracking \subseteq opened
    BY <2>1 DEF Windows
  <2>6. ASSUME NEW i \in Automated
        PROVE  /\ used'[i] # Absent <=> i <= Len(results') /\ Applies(i)
               /\ used'[i] # Absent => used'[i] \subseteq opened'
    <3>1. used'[i] = IF i = Current THEN tracking ELSE used[i]
      BY <1>1, <2>1, <2>3
    <3>2. CASE i = Current
      BY <1>1, <2>1, <2>2, <2>3, <2>5, <3>1, <3>2 DEF Current
    <3>3. CASE i # Current
      <4>1. i <= Len(results) <=> i <= Len(results')
        BY <1>1, <2>2, <3>3 DEF Current
      <4> QED
        BY <2>1, <3>1, <3>3, <4>1 DEF Windows
    <3> QED
      BY <3>2, <3>3
  <2>7. Windows'
    BY <2>1, <2>6 DEF Windows, Applies
  <2> QED
    BY <2>4, <2>7
<1>6. CASE FilterOut
  <2>1. /\ phase = "controls" /\ step = 0 /\ Current \in Automated /\ ~Applies(Current)
        /\ UNCHANGED <<phase, step, used, opened, tracking>>
    BY <1>6 DEF FilterOut, cacheVars
  <2>2. Len(results') = Len(results) + 1
    BY <1>1, <1>6, ResultFacts DEF FilterOut, Appends, Statuses
  <2>3. Progress'
    BY <1>1, <2>1, <2>2 DEF Progress, Current
  <2>4. \A i \in Automated : (i <= Len(results') /\ Applies(i)) <=> (i <= Len(results) /\ Applies(i))
    BY <1>1, <2>1, <2>2 DEF Current
  <2>5. Windows'
    BY <2>1, <2>4 DEF Windows, Applies
  <2> QED
    BY <2>3, <2>5
<1>7. CASE Manual
  <2>1. /\ phase = "manual" /\ Len(results) >= N /\ step = 0
        /\ UNCHANGED <<phase, step, used, opened, tracking>>
    BY <1>1, <1>7 DEF Manual, cacheVars, Progress
  <2>2. Len(results') = Len(results) + 1
    BY <1>1, <1>7, ResultFacts DEF Manual, Appends, Statuses
  <2>3. Progress'
    BY <1>1, <2>1, <2>2 DEF Progress
  <2>4. \A i \in Automated : i <= Len(results') <=> i <= Len(results)
    BY <1>1, <2>1, <2>2
  <2>5. Windows'
    BY <2>1, <2>4 DEF Windows, Applies
  <2> QED
    BY <2>3, <2>5
<1>8. CASE UNCHANGED vars
  BY <1>8 DEF vars, engineVars, cacheVars, Progress, Windows, Applies, Current
<1>9. CASE ConditionFails \/ Unavailable \/ Defect
  BY <1>5, <1>9 DEF ConditionFails, Unavailable, Defect, Statuses
<1>10. ASSUME NEW s \in Statuses \cup {Invalid}, Verdict(s) PROVE Progress' /\ Windows'
  BY <1>5, <1>10 DEF Verdict, Statuses
<1> QED
  BY <1>2, <1>3, <1>4, <1>6, <1>7, <1>8, <1>9, <1>10 DEF Next, Probe, Evidence

COROLLARY ProgressAndWindowsHold == Spec => [](Progress /\ Windows)
<1>1. Init => Progress /\ Windows
  <2> SUFFICES ASSUME Init PROVE Progress /\ Windows
    OBVIOUS
  <2>1. /\ phase = "probe" /\ results = <<>> /\ step = 0 /\ Len(results) = 0
        /\ tracking = Absent /\ \A i \in Automated : used[i] = Absent
    BY EmptySeq DEF Init, CacheInit
  <2>2. Progress
    BY <2>1, EngineAssumption DEF Progress
  <2>3. Windows
    BY <2>1 DEF Windows, Automated
  <2> QED
    BY <2>2, <2>3
<1> QED
  BY <1>1, ProgressAndWindows, EngineTypeCorrect, PTL DEF Spec

(* A tracking window is one control's evaluation (Engine!WindowPerControl).*)
THEOREM WindowPerControlHolds == Spec => []WindowPerControl
<1>1. TypeOK /\ Progress /\ Windows => WindowPerControl
  <2> SUFFICES ASSUME TypeOK, Progress, Windows PROVE WindowPerControl
    OBVIOUS
  <2>1. tracking # Absent <=> Evaluating
    BY DEF Progress, Windows, Evaluating
  <2>2. \A i \in Automated : used[i] # Absent <=> i <= Len(results) /\ Applies(i)
    BY DEF Windows
  <2>3. \A i \in Listed : UsedBy(i) \subseteq opened
    BY DEF Windows, UsedBy
  <2> QED
    BY <2>1, <2>2, <2>3 DEF WindowPerControl
<1> QED
  BY <1>1, EngineTypeCorrect, ProgressAndWindowsHold, PTL

-----------------------------------------------------------------------------
(* What stays true of the key a control was ended by.                      *)

Blamed(i) ==
  /\ i <= Len(results) /\ results[i] = "NOT_ASSESSED"
  /\ used[i] # Absent /\ CollectorOf[blame[i]] \in used[i]
  /\ CollectorStatus(CollectorOf[blame[i]]) # "SUCCESS"
  /\ permissions[i] \in Reasons /\ cache[blame[i]] = permissions[i]

Blames == \A i \in Automated : blame[i] # Absent => Blamed(i)

(* A control's blame outlives every step: the cache keeps the failure, the *)
(* collector its blemish and the results their past.                       *)
LEMMA BlamedIsKept ==
  ASSUME TypeOK, NoReentry, [Next]_vars, NEW i \in Automated,
         blame[i] # Absent, Blamed(i),
         blame'[i] = blame[i], used'[i] = used[i], permissions'[i] = permissions[i],
         i <= Len(results'), results'[i] = results[i]
  PROVE  Blamed(i)'
<1>1. CacheTypeOK /\ [CacheNext]_cacheVars
  BY EngineStepsCache DEF TypeOK
<1>2. blame[i] \in Keys /\ CollectorOf[blame[i]] \in Collectors
  BY WiringAssumption DEF TypeOK
<1>3. cache[blame[i]] # Absent
  BY SentinelsDistinct DEF Blamed, Answers
<1>4. cache'[blame[i]] = cache[blame[i]]
  BY <1>1, <1>2, <1>3, SettledIsFinal
<1>5. CollectorStatus(CollectorOf[blame[i]])' # "SUCCESS"
  BY <1>1, <1>2, BlemishStep DEF Blamed
<1> QED
  BY <1>4, <1>5 DEF Blamed

LEMMA BlamesStep ==
  ASSUME TypeOK, CacheGuarantees, Progress, Windows, Blames, [Next]_vars
  PROVE  Blames'
<1> USE DEF Blames
<1>1. /\ NoReentry /\ FailureIsAttributed /\ CacheTypeOK
      /\ results \in Seq(Statuses) /\ Len(results) \in Nat
      /\ used \in [Automated -> (SUBSET Collectors) \cup {Absent}]
      /\ permissions \in [Automated -> Reasons \cup {Absent}]
      /\ blame \in [Automated -> Keys \cup {Absent}]
      /\ raisedBy \in Keys \cup {Absent}
  BY LenProperties DEF TypeOK, CacheTypeOK, CacheGuarantees
<1>2. \A i \in Automated : blame[i] # Absent => i \in 1 .. Len(results)
  BY <1>1 DEF Blamed, Automated
<1>3. ASSUME UNCHANGED <<blame, used, permissions>>,
             results' = results \/ \E s \in Statuses : Appends(s)
      PROVE  Blames'
  <2>1. \A i \in 1 .. Len(results) : i <= Len(results') /\ results'[i] = results[i]
    BY <1>1, <1>3, ResultFacts
  <2> QED
    BY <1>1, <1>2, <1>3, <2>1, BlamedIsKept
<1>4. ASSUME NEW s \in Statuses, Close(s), UNCHANGED <<blame, permissions>>
      PROVE  Blames'
  <2>1. /\ results' = Append(results, s) /\ Appends(s)
        /\ used' = [used EXCEPT ![Current] = tracking]
    BY <1>4 DEF Close, Appends
  <2>2. \A i \in 1 .. Len(results) : i <= Len(results') /\ results'[i] = results[i]
    BY <1>1, <2>1, ResultFacts
  <2>3. \A i \in 1 .. Len(results) : i \in Automated => used'[i] = used[i]
    BY <1>1, <2>1 DEF Current
  <2> QED
    BY <1>1, <1>2, <1>4, <2>2, <2>3, BlamedIsKept
<1>5. CASE Unavailable
  <2>1. tracking # Absent /\ Current \in Automated
    BY <1>5 DEF Unavailable, Close, Evaluating, Progress, Windows
  <2> PICK n \in Automated : n = Current
    BY <2>1
  <2>2. /\ raised \in Reasons /\ Appends("NOT_ASSESSED")
        /\ used' = [used EXCEPT ![n] = tracking]
        /\ permissions' = [permissions EXCEPT ![n] = raised]
        /\ blame' = [blame EXCEPT ![n] = raisedBy]
        /\ UNCHANGED <<cache, opened, tallies>>
    BY <1>5 DEF Unavailable, Close, Appends, EndTracking
  <2>3. /\ n = Len(results) + 1 /\ n <= Len(results') /\ results'[n] = "NOT_ASSESSED"
        /\ \A i \in 1 .. Len(results) : i <= Len(results') /\ results'[i] = results[i]
    BY <1>1, <2>2, ResultFacts DEF Statuses, Current
  <2>4. /\ blame'[n] = raisedBy /\ used'[n] = tracking /\ permissions'[n] = raised
        /\ \A i \in Automated :
             i # n => /\ blame'[i] = blame[i] /\ used'[i] = used[i]
                      /\ permissions'[i] = permissions[i]
    BY <1>1, <2>2
  <2>5. ASSUME raisedBy # Absent PROVE Blamed(n)'
    <3> PICK c \in Collectors : c = CollectorOf[raisedBy]
      BY <1>1, <2>5, WiringAssumption
    <3>1. c \in tracking /\ CollectorStatus(c) # "SUCCESS" /\ cache[raisedBy] = raised
      BY <1>1, <2>1, <2>2, <2>5 DEF FailureIsAttributed
    <3>2. CollectorStatus(c)' # "SUCCESS"
      BY <2>2, <3>1 DEF CollectorStatus, tallies
    <3>3. c = CollectorOf[blame'[n]]
      BY <2>4
    <3>4. CollectorStatus(CollectorOf[blame[n]])' # "SUCCESS"
      BY <3>2, <3>3 DEF CollectorStatus
    <3> QED
      BY <2>1, <2>2, <2>3, <2>4, <3>1, <3>3, <3>4 DEF Blamed
  <2>6. ASSUME NEW i \in Automated, i # n, blame'[i] # Absent PROVE Blamed(i)'
    <3>1. blame[i] # Absent /\ Blamed(i) /\ i \in 1 .. Len(results)
      BY <1>2, <2>4, <2>6
    <3> QED
      BY <1>1, <2>3, <2>4, <2>6, <3>1, BlamedIsKept
  <2>7. ASSUME NEW i \in Automated, blame'[i] # Absent PROVE Blamed(i)'
    BY <2>4, <2>5, <2>6, <2>7
  <2> QED
    BY <2>7
<1>6. CASE Probe \/ Evidence \/ UNCHANGED vars
  BY <1>3, <1>6 DEF Probe, Evidence, vars, engineVars
<1>7. CASE StartControls \/ Begin \/ ConditionHolds \/ StartManual \/ Finish
  BY <1>3, <1>7 DEF StartControls, Begin, ConditionHolds, StartManual, Finish
<1>8. CASE FilterOut \/ Manual
  BY <1>3, <1>8 DEF FilterOut, Manual, Appends, Statuses
<1>9. CASE ConditionFails \/ Defect
  BY <1>4, <1>9 DEF ConditionFails, Defect, Statuses
<1>10. ASSUME NEW s \in Statuses \cup {Invalid}, Verdict(s) PROVE Blames'
  BY <1>4, <1>10 DEF Verdict, Statuses
<1> QED
  BY <1>5, <1>6, <1>7, <1>8, <1>9, <1>10 DEF Next

COROLLARY BlamesHold == Spec => []Blames
<1>1. Init => Blames
  BY DEF Init, Blames
<1> QED
  BY <1>1, BlamesStep, EngineTypeCorrect, CacheGuaranteesHold, ProgressAndWindowsHold, PTL DEF Spec

(* A control ended by unavailable evidence shows in its section's coverage *)
(* with the collector to blame (Engine!BlameReachesReport).                *)
THEOREM BlameReachesReportHolds == Spec => []BlameReachesReport
<1>1. TypeOK /\ Windows /\ Blames => BlameReachesReport
  <2> SUFFICES ASSUME TypeOK, Windows, Blames, NEW i \in Automated, blame[i] # Absent
               PROVE  CollectorOf[blame[i]] \in AffectedCollectors(SectionOf[i])
    BY DEF BlameReachesReport
  <2>1. Blamed(i)
    BY DEF Blames
  <2>2. i \in Listed
    BY EngineAssumption DEF Automated, Listed
  <2>3. i \in Unevaluated(SectionOf[i])
    BY <2>1, <2>2 DEF Blamed, Unevaluated
  <2>4. CollectorOf[blame[i]] \in UsedBy(i)
    BY <2>1 DEF Blamed, UsedBy
  <2>5. CollectorOf[blame[i]] \in opened
    BY <2>1 DEF Blamed, Windows
  <2> QED
    BY <2>1, <2>3, <2>4, <2>5 DEF Blamed, AffectedCollectors
<1> QED
  BY <1>1, EngineTypeCorrect, ProgressAndWindowsHold, BlamesHold, PTL

(* No two controls disagree on whether one item of cached evidence could   *)
(* be read (Engine!SameEvidenceSameFate).                                  *)
THEOREM SameEvidenceSameFateHolds == Spec => []SameEvidenceSameFate
<1>1. TypeOK /\ SameAnswer /\ SettledWasTold /\ Blames => SameEvidenceSameFate
  <2> SUFFICES ASSUME TypeOK, SameAnswer, SettledWasTold, Blames,
                      NEW i \in Automated, blame[i] # Absent
               PROVE  /\ cache[blame[i]] = permissions[i]
                      /\ told[blame[i]] \ {Crash} = {permissions[i]}
    BY DEF SameEvidenceSameFate
  <2>1. cache[blame[i]] = permissions[i] /\ permissions[i] \in Reasons
    BY DEF Blames, Blamed
  <2>2. blame[i] \in Keys
    BY DEF TypeOK
  <2>3. permissions[i] # Absent /\ permissions[i] # Crash
    BY <2>1, SentinelsDistinct DEF Answers
  <2>4. told[blame[i]] \ {Crash} \subseteq {permissions[i]}
    BY <2>1, <2>2 DEF SameAnswer
  <2>5. permissions[i] \in told[blame[i]]
    BY <2>1, <2>2, <2>3 DEF SettledWasTold
  <2> QED
    BY <2>1, <2>3, <2>4, <2>5
<1> QED
  BY <1>1, EngineTypeCorrect, CacheGuaranteesHold, EngineImplementsCache, SettledWasToldHolds,
     BlamesHold, PTL DEF CacheGuarantees

-----------------------------------------------------------------------------
(* The verdicts given so far, as the abstract specification sees them.     *)

(* Appending a status to the results decides the next item.                *)
LEMMA AppendDecides ==
  ASSUME TypeOK, Len(results) < N + M, NEW s \in Statuses, Appends(s)
  PROVE  Promise!VerdictsNext
<1> DEFINE verdicts == [i \in Listed |-> IF i <= Len(results) THEN results[i] ELSE Absent]
<1>1. results \in Seq(Statuses) /\ Len(results) \in Nat
  BY LenProperties DEF TypeOK
<1> PICK n \in Listed : n = Len(results) + 1
  BY <1>1, EngineAssumption DEF Listed
<1>2. /\ Len(results') = n /\ results'[n] = s
      /\ \A i \in 1 .. Len(results) : results'[i] = results[i]
  BY <1>1, ResultFacts
<1>3. verdicts[n] = Absent
  BY <1>1
<1>4. \A j \in Listed : j < n => verdicts[j] # Absent
  <2> SUFFICES ASSUME NEW j \in Listed, j < n PROVE verdicts[j] # Absent
    OBVIOUS
  <2>1. j \in 1 .. Len(results)
    BY <1>1 DEF Listed
  <2>2. results[j] \in Statuses
    BY <1>1, <2>1
  <2> QED
    BY <2>1, <2>2, EngineAssumption
<1>5. verdicts' = [verdicts EXCEPT ![n] = s]
  <2>1. ASSUME NEW i \in Listed
        PROVE  (IF i <= Len(results') THEN results'[i] ELSE Absent)
                 = (IF i = n THEN s ELSE IF i <= Len(results) THEN results[i] ELSE Absent)
    BY <1>1, <1>2 DEF Listed
  <2> QED
    BY <2>1
<1> QED
  BY <1>3, <1>4, <1>5 DEF Promise!VerdictsNext, Promise!Decide, Promise!Items, Listed

(* Engine.run keeps its promise: one verdict per item, in the definition's *)
(* order, none revised (Engine!KeepsPromiseSafety).                        *)
THEOREM KeepsPromiseSafetyHolds == Spec => KeepsPromiseSafety
<1> DEFINE verdicts == [i \in Listed |-> IF i <= Len(results) THEN results[i] ELSE Absent]
<1>1. Init => Promise!VerdictsInit
  <2> SUFFICES ASSUME Init PROVE Promise!VerdictsInit
    OBVIOUS
  <2>1. Len(results) = 0
    BY EmptySeq DEF Init
  <2>2. \A i \in Listed : ~(i <= Len(results))
    BY <2>1, EngineAssumption DEF Listed
  <2> QED
    BY <2>2 DEF Promise!VerdictsInit, Promise!Items, Listed
<1>2. TypeOK /\ Progress /\ [Next]_vars => [Promise!VerdictsNext]_verdicts
  <2> SUFFICES ASSUME TypeOK, Progress, [Next]_vars
               PROVE  Promise!VerdictsNext \/ UNCHANGED verdicts
    OBVIOUS
  <2>1. ASSUME results' = results PROVE UNCHANGED verdicts
    BY <2>1
  <2>2. ASSUME phase = "controls", Current \in Automated, NEW s \in Statuses, Appends(s)
        PROVE  Promise!VerdictsNext
    BY <2>2, EngineAssumption, LenProperties, AppendDecides DEF Automated, Current, TypeOK
  <2>3. ASSUME NEW s \in Statuses, Close(s) PROVE Promise!VerdictsNext
    BY <2>2, <2>3 DEF Close, Evaluating, Progress, Appends
  <2>4. CASE FilterOut
    BY <2>2, <2>4 DEF FilterOut, Appends, Statuses
  <2>5. CASE Manual
    BY <2>5, AppendDecides DEF Manual, Appends, Statuses
  <2>6. CASE ConditionFails \/ Unavailable \/ Defect
    BY <2>3, <2>6 DEF ConditionFails, Unavailable, Defect, Statuses
  <2>7. ASSUME NEW s \in Statuses \cup {Invalid}, Verdict(s) PROVE Promise!VerdictsNext
    BY <2>3, <2>7 DEF Verdict, Statuses
  <2>8. CASE \/ Probe \/ Evidence \/ StartControls \/ Begin \/ ConditionHolds
             \/ StartManual \/ Finish \/ UNCHANGED vars
    BY <2>1, <2>8, Zenon DEF Probe, Evidence, StartControls, Begin, ConditionHolds, StartManual, Finish, vars, engineVars
  <2> QED
    BY <2>4, <2>5, <2>6, <2>7, <2>8, Zenon DEF Next
<1> QED
  BY <1>1, <1>2, EngineTypeCorrect, ProgressAndWindowsHold, PTL
     DEF Spec, KeepsPromiseSafety, Promise!VerdictsSafety
=============================================================================
