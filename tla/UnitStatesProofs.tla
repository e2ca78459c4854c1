-------------------------- MODULE UnitStatesProofs --------------------------
(* What is remembered of the units is for ever, so all that is concluded   *)
(* from it agrees; proved for every set of units, controls and changes.    *)
EXTENDS UnitStates, TLAPS

(* What a call of System.units does, whichever way it ends.                *)
LEMMA QueryFacts ==
  ASSUME TypeOK, NEW names \in SUBSET Units, Answered(names) \/ Refused(names)
  PROVE  /\ known' \in [Units -> States \cup {Absent}]
         /\ noInit' \in BOOLEAN /\ successes' \in Nat /\ failures' \in Nat
         /\ failures' >= failures
         /\ \A u \in Units : known[u] # Absent => known'[u] = known[u]
         /\ Answered(names) => \A u \in names : known'[u] \in States
         /\ Refused(names) => Missing(names) # {} /\ known' = known
<1> USE UnitsAssumption DEF TypeOK, Missing
<1>1. CASE Remembered(names)
  BY <1>1 DEF Remembered, cacheVars, Refused
<1>2. CASE Shown(names)
  <2>1. /\ known' = [u \in Units |-> IF u \in Missing(names) THEN host[u] ELSE known[u]]
        /\ successes' = successes + 1 /\ noInit' = noInit /\ failures' = failures
    BY <1>2 DEF Shown
  <2>2. ASSUME NEW u \in Units
        PROVE  /\ known'[u] \in States \cup {Absent}
               /\ known[u] # Absent => known'[u] = known[u]
               /\ u \in names => known'[u] \in States
    BY <2>1
  <2>3. Refused(names) => known' = known
    BY DEF Refused
  <2> QED
    BY <1>2, <2>1, <2>2, <2>3 DEF Shown
<1>3. CASE Refused(names)
  <2>1. /\ known' = known /\ successes' = successes /\ Missing(names) # {}
        /\ noInit' \in BOOLEAN /\ failures' \in {failures, failures + 1}
    BY <1>3 DEF Refused
  <2>2. ~Remembered(names)
    BY <2>1 DEF Remembered
  <2>3. Shown(names) => FALSE
    BY <2>1 DEF Shown
  <2> QED
    BY <2>1, <2>2, <2>3 DEF Answered
<1> QED
  BY <1>1, <1>2, <1>3 DEF Answered

LEMMA AskedFacts == \A m : Asked(m) \subseteq {chrony, timesyncd, rsyslog} /\ Asked(m) \subseteq Units
  BY UnitsAssumption DEF Asked

LEMMA ChooseFacts ==
  ASSUME TypeOK, NEW i \in Controls, i = now,
         NEW m \in Methods \cup {"none"}, Choose(i, m)
  PROVE  /\ found' = [found EXCEPT ![i] = m]
         /\ found' \in [Controls -> Methods \cup {Absent, "none"}]
         /\ chosen' \in Methods \cup {Absent, "none"}
         /\ now' \in 1 .. N + 1
         /\ status' \in [Controls -> Outcomes \cup {Absent}]
         /\ status' = status \/ status' = [status EXCEPT ![i] = "NOT_APPLICABLE"]
  BY UnitsAssumption DEF TypeOK, Choose, Judge, Controls, Outcomes

LEMMA InUseIsMethod == \A m, s : InUse(m, s) \in Methods \cup {"none"} /\ Guess(m) \in Methods
  BY UnitsAssumption DEF InUse, Guess, Methods, TimeMethods, LogMethods

LEMMA TellFacts ==
  ASSUME TypeOK, NEW names \in SUBSET Units, Answered(names), Tell(names)
  PROVE  /\ told' \in [Units -> SUBSET States]
         /\ \A u \in Units : told'[u] \subseteq told[u] \cup {known'[u]}
<1>1. \A u \in names : known'[u] \in States
  BY QueryFacts
<1>2. told' = [u \in Units |-> IF u \in names THEN told[u] \cup {known'[u]} ELSE told[u]]
  BY DEF Tell
<1> QED
  BY <1>1, <1>2 DEF TypeOK

(* The variables keep their types (UnitStates!TypeOK).                     *)
THEOREM TypeCorrect == Spec => []TypeOK
<1> USE UnitsAssumption DEF TypeOK
<1>1. Init => TypeOK
  <2> SUFFICES ASSUME Init PROVE TypeOK
    OBVIOUS
  <2>1. /\ changes \in 0 .. MaxChanges /\ now \in 1 .. N + 1
        /\ successes \in Nat /\ failures \in Nat
    BY DEF Init
  <2>2. /\ known \in [Units -> States \cup {Absent}]
        /\ status \in [Controls -> Outcomes \cup {Absent}]
        /\ found \in [Controls -> Methods \cup {Absent, "none"}]
        /\ told \in [Units -> SUBSET States]
    BY DEF Init
  <2> QED
    BY <2>1, <2>2 DEF Init
<1>2. TypeOK /\ [Next]_vars => TypeOK'
  <2> SUFFICES ASSUME TypeOK, [Next]_vars PROVE TypeOK'
    OBVIOUS
  <2>1. ASSUME NEW u \in Units, HostChanges(u) PROVE TypeOK'
    BY <2>1 DEF HostChanges, cacheVars, States
  <2>2. CASE Prefetch
    <3>1. Answered(Prefetched) \/ Refused(Prefetched)
      BY <2>2 DEF Prefetch
    <3> QED
      BY <2>2, <3>1, QueryFacts DEF Prefetch, hostVars
  <2>3. CASE Decide
    <3>1. now \in Controls /\ Answered(Asked(Condition[now])) /\ Tell(Asked(Condition[now]))
          /\ Choose(now, InUse(Condition[now], known')) /\ UNCHANGED <<hostVars, prefetch, guessed>>
      BY <2>3 DEF Decide, Running
    <3> QED
      BY <3>1, AskedFacts, QueryFacts, TellFacts, InUseIsMethod, ChooseFacts DEF hostVars
  <2>4. CASE DecideBlindly
    <3>1. now \in Controls /\ Refused(Asked(Condition[now]))
          /\ Choose(now, Guess(Condition[now])) /\ guessed' = guessed \cup {now}
          /\ UNCHANGED <<hostVars, prefetch, told>>
      BY <2>4 DEF DecideBlindly, Running
    <3> QED
      BY <3>1, AskedFacts, QueryFacts, InUseIsMethod, ChooseFacts DEF hostVars
  <2>5. CASE Provide
    <3>1. /\ now \in Controls /\ Subject[now] \in SUBSET Units
          /\ Answered(Subject[now]) \/ Refused(Subject[now])
          /\ (Answered(Subject[now]) /\ Tell(Subject[now])) \/ UNCHANGED told
          /\ Judge(now, "JUDGED") \/ Judge(now, "NOT_ASSESSED")
          /\ UNCHANGED <<hostVars, prefetch, found, guessed>>
      BY <2>5 DEF Provide, Running
    <3>2. /\ now' \in 1 .. N + 1 /\ chosen' \in Methods \cup {Absent, "none"}
          /\ status' \in [Controls -> Outcomes \cup {Absent}]
      BY <3>1 DEF Judge, Controls, Outcomes
    <3>3. told' \in [Units -> SUBSET States]
      BY <3>1, TellFacts
    <3> QED
      BY <3>1, <3>2, <3>3, QueryFacts DEF hostVars
  <2>6. CASE UNCHANGED vars
    BY <2>6 DEF vars, hostVars, cacheVars
  <2> QED
    BY <2>1, <2>2, <2>3, <2>4, <2>5, <2>6 DEF Next
<1> QED
  BY <1>1, <1>2, PTL DEF Spec

(* Every control judges a unit on one state (UnitStates!OneStatePerUnit).  *)
THEOREM OneStatePerUnitHolds == Spec => []OneStatePerUnit
<1>1. Init => OneStatePerUnit
  BY DEF Init, OneStatePerUnit
<1>2. TypeOK /\ OneStatePerUnit /\ [Next]_vars => OneStatePerUnit'
  <2> SUFFICES ASSUME TypeOK, OneStatePerUnit, [Next]_vars, NEW u \in Units
               PROVE  told'[u] \subseteq {known'[u]}
    BY DEF OneStatePerUnit
  <2>1. told[u] \subseteq {known[u]} /\ told[u] \subseteq States
    BY DEF OneStatePerUnit, TypeOK
  <2>2. known[u] = Absent => told[u] = {}
    BY <2>1, UnitsAssumption
  <2>3. ASSUME NEW names \in SUBSET Units, Answered(names) \/ Refused(names),
               (Answered(names) /\ Tell(names)) \/ UNCHANGED told
        PROVE  told'[u] \subseteq {known'[u]}
    <3>1. known[u] # Absent => known'[u] = known[u]
      BY <2>3, QueryFacts
    <3>2. told'[u] \subseteq told[u] \cup {known'[u]}
      BY <2>3, TellFacts
    <3> QED
      BY <2>1, <2>2, <3>1, <3>2
  <2>4. ASSUME NEW v \in Units, HostChanges(v) PROVE told'[u] \subseteq {known'[u]}
    BY <2>1, <2>4 DEF HostChanges, cacheVars
  <2>5. CASE Prefetch
    BY <2>3, <2>5, UnitsAssumption DEF Prefetch
  <2>6. CASE Decide \/ DecideBlindly
    BY <2>3, <2>6, AskedFacts DEF Decide, DecideBlindly
  <2>7. CASE Provide
    BY <2>3, <2>7, UnitsAssumption DEF Provide, Running
  <2>8. CASE UNCHANGED vars
    BY <2>1, <2>8 DEF vars, cacheVars
  <2> QED
    BY <2>4, <2>5, <2>6, <2>7, <2>8 DEF Next
<1> QED
  BY <1>1, <1>2, TypeCorrect, PTL DEF Spec
-----------------------------------------------------------------------------
(* Without systemd nothing is known and one failure is on record, from the *)
(* first call on.                                                          *)
NoInitFacts ==
  /\ noInit => ~systemd
  /\ ~systemd => /\ successes = 0 /\ failures = (IF noInit THEN 1 ELSE 0)
                 /\ \A u \in Units : known[u] = Absent

LEMMA QueryKeepsNoInitFacts ==
  ASSUME TypeOK, NoInitFacts, NEW names, Answered(names) \/ Refused(names), UNCHANGED hostVars
  PROVE  NoInitFacts' /\ (Refused(names) /\ (systemctl \/ ~systemd) => failures' > 0)
<1> USE DEF TypeOK, NoInitFacts
<1>1. CASE Remembered(names)
  BY <1>1 DEF Remembered, cacheVars, hostVars, Refused
<1>2. CASE Shown(names)
  <2>1. systemd /\ systemd' /\ systemctl /\ ~noInit' /\ ~noInit /\ failures' = failures
    BY <1>2 DEF Shown, hostVars
  <2>2. NoInitFacts'
    BY <2>1
  <2>3. ~Refused(names)
    BY <2>1 DEF Refused
  <2> QED
    BY <2>2, <2>3
<1>3. CASE Refused(names)
  <2>1. /\ noInit' = (noInit \/ ~systemd) /\ systemd' = systemd
        /\ known' = known /\ successes' = successes
        /\ failures' = IF noInit \/ (systemd /\ ~systemctl) THEN failures ELSE failures + 1
    BY <1>3 DEF Refused, hostVars
  <2>2. CASE noInit
    <3>1. ~systemd /\ ~systemd' /\ noInit' /\ failures' = failures
      BY <2>1, <2>2
    <3> QED
      BY <2>1, <2>2, <3>1
  <2>3. CASE ~noInit /\ systemd
    <3>1. systemd' /\ ~noInit'
      BY <2>1, <2>3
    <3>2. systemctl => failures' = failures + 1
      BY <2>1, <2>3
    <3>3. NoInitFacts'
      BY <3>1
    <3>4. systemctl => failures' > 0
      BY <3>2
    <3> QED
      BY <2>3, <3>3, <3>4
  <2>4. CASE ~noInit /\ ~systemd
    <3>1. ~systemd' /\ noInit'
      BY <2>1, <2>4
    <3>2. failures = 0 /\ successes = 0 /\ \A u \in Units : known[u] = Absent
      BY <2>4
    <3>3. failures' = failures + 1
      BY <2>1, <2>4
    <3>4. failures' = 1 /\ successes' = 0 /\ \A u \in Units : known'[u] = Absent
      BY <2>1, <3>2, <3>3
    <3> QED
      BY <3>1, <3>4
  <2> QED
    BY <2>2, <2>3, <2>4
<1> QED
  BY <1>1, <1>2, <1>3 DEF Answered

(* A step is a change of the host, a stutter, or one call of units().      *)
LEMMA StepIsQuery ==
  ASSUME [Next]_vars, TypeOK
  PROVE  \/ UNCHANGED <<systemd, systemctl, cacheVars, prefetch, now, chosen, status, found, guessed, told>>
         \/ /\ UNCHANGED hostVars
            /\ \E names \in SUBSET Units : Answered(names) \/ Refused(names)
<1>1. ASSUME NEW u \in Units, HostChanges(u)
      PROVE  UNCHANGED <<systemd, systemctl, cacheVars, prefetch, now, chosen, status, found, guessed, told>>
  BY <1>1 DEF HostChanges
<1>2. CASE Prefetch
  BY <1>2, UnitsAssumption DEF Prefetch
<1>3. CASE Decide \/ DecideBlindly
  BY <1>3, AskedFacts DEF Decide, DecideBlindly
<1>4. CASE Provide
  <2>1. Subject[now] \in SUBSET Units
    BY <1>4, UnitsAssumption DEF Provide, Running
  <2> QED
    BY <1>4, <2>1 DEF Provide
<1>5. CASE UNCHANGED vars
  BY <1>5 DEF vars, hostVars
<1> QED
  BY <1>1, <1>2, <1>3, <1>4, <1>5 DEF Next

LEMMA NoInitFactsHold == Spec => []NoInitFacts
<1>1. Init => NoInitFacts
  BY DEF Init, NoInitFacts
<1>2. TypeOK /\ NoInitFacts /\ [Next]_vars => NoInitFacts'
  <2> SUFFICES ASSUME TypeOK, NoInitFacts, [Next]_vars PROVE NoInitFacts'
    OBVIOUS
  <2>1. CASE UNCHANGED <<systemd, systemctl, cacheVars, prefetch, now, chosen, status, found, guessed, told>>
    BY <2>1 DEF cacheVars, NoInitFacts
  <2>2. ASSUME UNCHANGED hostVars, NEW names \in SUBSET Units, Answered(names) \/ Refused(names)
        PROVE  NoInitFacts'
    BY <2>2, QueryKeepsNoInitFacts
  <2> QED
    BY <2>1, <2>2, StepIsQuery
<1> QED
  BY <1>1, <1>2, TypeCorrect, PTL DEF Spec

(* UnitStates!NoInitCountedOnce.                                           *)
THEOREM NoInitCountedOnceHolds == Spec => []NoInitCountedOnce
<1>1. NoInitFacts => NoInitCountedOnce
  BY DEF NoInitFacts, NoInitCountedOnce
<1> QED
  BY <1>1, NoInitFactsHold, PTL

(* UnitStates!RefusalIsCounted.                                            *)
THEOREM RefusalIsCountedHolds == Spec => []RefusalIsCounted
<1> DEFINE Ended == guessed # {} \/ \E i \in Controls : status[i] = "NOT_ASSESSED"
           Counted == (systemctl \/ ~systemd) /\ Ended => failures > 0
<1>1. Init => RefusalIsCounted
  BY UnitsAssumption DEF Init, RefusalIsCounted, Outcomes
<1>2. TypeOK /\ NoInitFacts /\ RefusalIsCounted /\ [Next]_vars => RefusalIsCounted'
  <2> SUFFICES ASSUME TypeOK, NoInitFacts, RefusalIsCounted, [Next]_vars,
                      (systemctl \/ ~systemd)', Ended'
               PROVE  failures' > 0
    BY DEF RefusalIsCounted
  <2>1. failures \in Nat /\ ((systemctl \/ ~systemd) /\ Ended => failures > 0)
    BY DEF RefusalIsCounted, TypeOK
  <2>2. CASE UNCHANGED <<systemd, systemctl, cacheVars, prefetch, now, chosen, status, found, guessed, told>>
    BY <2>1, <2>2 DEF cacheVars
  <2>3. CASE UNCHANGED hostVars
    <3>1. systemctl \/ ~systemd
      BY <2>3 DEF hostVars
    <3>2. ASSUME NEW names \in SUBSET Units, Refused(names) PROVE failures' > 0
      BY <3>1, <3>2, <2>3, QueryKeepsNoInitFacts
    <3>3. ASSUME NEW names \in SUBSET Units, Answered(names) PROVE failures' \in Nat /\ failures' >= failures
      BY <3>3, QueryFacts
    <3>4. ASSUME NEW names \in SUBSET Units, Answered(names), Ended PROVE failures' > 0
      BY <2>1, <3>1, <3>3, <3>4
    <3>5. ASSUME NEW u \in Units, HostChanges(u) PROVE failures' > 0
      BY <2>1, <3>1, <3>5 DEF HostChanges, cacheVars
    <3>6. CASE Prefetch
      <4>1. Ended
        BY <3>6 DEF Prefetch
      <4> QED
        BY <3>2, <3>4, <3>6, <4>1, UnitsAssumption DEF Prefetch
    <3>7. CASE Decide
      <4>1. Answered(Asked(Condition[now])) /\ guessed' = guessed
        BY <3>7 DEF Decide
      <4>2. PICK m \in Methods \cup {"none"} : Choose(now, m)
        BY <3>7, InUseIsMethod DEF Decide
      <4>3. status' = status \/ status' = [status EXCEPT ![now] = "NOT_APPLICABLE"]
        BY <4>2 DEF Choose, Judge
      <4>4. Ended
        BY <4>1, <4>3 DEF TypeOK
      <4>5. Asked(Condition[now]) \in SUBSET Units
        BY AskedFacts
      <4> QED
        BY <4>1, <4>4, <4>5, <3>4
    <3>8. CASE DecideBlindly
      BY <3>2, <3>8, AskedFacts DEF DecideBlindly
    <3>9. CASE Provide
      <4>1. Subject[now] \in SUBSET Units
        BY <3>9, UnitsAssumption DEF Provide, Running
      <4>2. CASE Refused(Subject[now])
        BY <4>1, <4>2, <3>2
      <4>3. CASE Answered(Subject[now]) /\ Judge(now, "JUDGED")
        <5>1. Ended
          BY <4>3, <3>9 DEF Judge, TypeOK, Provide
        <5> QED
          BY <4>1, <4>3, <5>1, <3>4
      <4> QED
        BY <3>9, <4>2, <4>3 DEF Provide
    <3>10. CASE UNCHANGED vars
      BY <2>1, <3>1, <3>10 DEF vars, cacheVars
    <3> QED
      BY <3>5, <3>6, <3>7, <3>8, <3>9, <3>10 DEF Next
  <2> QED
    BY <2>2, <2>3, StepIsQuery
<1> QED
  BY <1>1, <1>2, TypeCorrect, NoInitFactsHold, PTL DEF Spec
-----------------------------------------------------------------------------
(* What a condition concluded it would conclude again: from the states     *)
(* that are remembered, or as the guess of its family.                     *)
KnownAsked(i) == \A u \in Asked(Condition[i]) : known[u] # Absent

Concluded(i) ==
  found[i] # Absent =>
    IF i \in guessed THEN found[i] = Guess(Condition[i])
    ELSE KnownAsked(i) /\ found[i] = InUse(Condition[i], known)

(* Controls are taken in order, so only those up to `now' have guessed,    *)
(* `now' itself only while the method it chose is pending.                 *)
GuessedBefore == \A i \in guessed : i < now \/ (i = now /\ chosen # Absent)

Agreement == GuessedBefore /\ \A i \in Controls : Concluded(i)

LEMMA InUseLooksAtAsked ==
  \A m, s, t : (\A u \in Asked(m) : s[u] = t[u]) => InUse(m, s) = InUse(m, t)
  BY DEF InUse, Asked

LEMMA ConcludedStays ==
  ASSUME TypeOK, NEW i \in Controls, Concluded(i),
         \A u \in Units : known[u] # Absent => known'[u] = known[u],
         found'[i] = found[i], i \in guessed' <=> i \in guessed
  PROVE  Concluded(i)'
<1>1. ASSUME KnownAsked(i), found[i] = InUse(Condition[i], known)
      PROVE  KnownAsked(i)' /\ found'[i] = InUse(Condition[i], known')
  <2>1. \A u \in Asked(Condition[i]) : known'[u] = known[u] /\ known[u] # Absent
    BY <1>1, AskedFacts DEF KnownAsked
  <2>2. InUse(Condition[i], known') = InUse(Condition[i], known)
    BY <2>1, InUseLooksAtAsked
  <2>3. KnownAsked(i)'
    BY <2>1 DEF KnownAsked
  <2> QED
    BY <1>1, <2>2, <2>3
<1> QED
  BY <1>1 DEF Concluded

LEMMA AgreementHolds == Spec => []Agreement
<1> USE UnitsAssumption
<1>1. Init => Agreement
  BY DEF Init, Agreement, GuessedBefore, Concluded
<1>2. TypeOK /\ Agreement /\ [Next]_vars => Agreement'
  <2> SUFFICES ASSUME TypeOK, Agreement, [Next]_vars PROVE Agreement'
    OBVIOUS
  <2>1. GuessedBefore /\ now \in Nat /\ (\A i \in Controls : Concluded(i))
        /\ guessed \subseteq Controls /\ found \in [Controls -> Methods \cup {Absent, "none"}]
    BY DEF Agreement, TypeOK
  <2>2. ASSUME NEW i \in Controls, found'[i] = found[i], i \in guessed' <=> i \in guessed
        PROVE  Concluded(i)'
    <3>1. \A u \in Units : known[u] # Absent => known'[u] = known[u]
      BY StepIsQuery, QueryFacts DEF cacheVars
    <3> QED
      BY <2>1, <2>2, <3>1, ConcludedStays
  <2>3. ASSUME NEW u \in Units, HostChanges(u) PROVE Agreement'
    BY <2>1, <2>2, <2>3 DEF HostChanges, Agreement, GuessedBefore
  <2>4. CASE Prefetch
    BY <2>1, <2>2, <2>4 DEF Prefetch, Agreement, GuessedBefore
  <2>5. CASE Decide
    <3>1. /\ now \in Controls /\ chosen = Absent /\ guessed' = guessed
          /\ Answered(Asked(Condition[now])) /\ Choose(now, InUse(Condition[now], known'))
      BY <2>5 DEF Decide, Running
    <3>2. now \notin guessed
      BY <2>1, <3>1 DEF GuessedBefore
    <3>3. found' = [found EXCEPT ![now] = InUse(Condition[now], known')]
      BY <3>1 DEF Choose
    <3>4. GuessedBefore'
      <4>1. \A i \in guessed : i < now
        BY <2>1, <3>1 DEF GuessedBefore
      <4>2. now' = now \/ now' = now + 1
        BY <3>1 DEF Choose, Judge
      <4> QED
        BY <2>1, <3>1, <4>1, <4>2 DEF GuessedBefore, Controls
    <3>5. ASSUME NEW i \in Controls PROVE Concluded(i)'
      <4>1. CASE i # now
        BY <2>1, <2>2, <3>1, <3>3, <4>1
      <4>2. CASE i = now
        <5>1. \A u \in Asked(Condition[now]) : known'[u] \in States
          BY <3>1, AskedFacts, QueryFacts
        <5>2. found'[i] = InUse(Condition[i], known') /\ i \notin guessed'
          BY <2>1, <3>1, <3>2, <3>3, <4>2
        <5>3. KnownAsked(i)'
          BY <4>2, <5>1 DEF KnownAsked
        <5> QED
          BY <5>2, <5>3 DEF Concluded
      <4> QED
        BY <4>1, <4>2
    <3> QED
      BY <3>4, <3>5 DEF Agreement
  <2>6. CASE DecideBlindly
    <3>1. /\ now \in Controls /\ guessed' = guessed \cup {now}
          /\ Choose(now, Guess(Condition[now])) /\ chosen = Absent
      BY <2>6 DEF DecideBlindly, Running
    <3>2. found' = [found EXCEPT ![now] = Guess(Condition[now])]
      BY <3>1 DEF Choose
    <3>3. GuessedBefore'
      <4>1. \A i \in guessed : i < now
        BY <2>1, <3>1 DEF GuessedBefore
      <4>2. (now' = now /\ chosen' # Absent) \/ now' = now + 1
        BY <3>1, InUseIsMethod DEF Choose, Judge
      <4> QED
        BY <2>1, <3>1, <4>1, <4>2 DEF GuessedBefore, Controls
    <3>4. ASSUME NEW i \in Controls PROVE Concluded(i)'
      <4>1. CASE i # now
        BY <2>1, <2>2, <3>1, <3>2, <4>1
      <4>2. CASE i = now
        <5>1. found'[i] = Guess(Condition[i]) /\ i \in guessed'
          BY <2>1, <3>1, <3>2, <4>2
        <5> QED
          BY <5>1 DEF Concluded
      <4> QED
        BY <4>1, <4>2
    <3> QED
      BY <3>3, <3>4 DEF Agreement
  <2>7. CASE Provide
    <3>1. UNCHANGED <<guessed, found>> /\ now' = now + 1
      BY <2>7 DEF Provide, Judge
    <3>2. GuessedBefore'
      BY <2>1, <3>1 DEF GuessedBefore, Controls
    <3> QED
      BY <2>2, <3>1, <3>2 DEF Agreement
  <2>8. CASE UNCHANGED vars
    BY <2>1, <2>2, <2>8 DEF vars, Agreement, GuessedBefore
  <2> QED
    BY <2>3, <2>4, <2>5, <2>6, <2>7, <2>8 DEF Next
<1> QED
  BY <1>1, <1>2, TypeCorrect, PTL DEF Spec

(* Conclusions of one family agree unless one of the two is a guess and    *)
(* the other is not (UnitStates!OnlyGuessesDisagree).                      *)
LEMMA FamilyAgrees ==
  ASSUME NEW m, NEW n, (m \in TimeMethods) <=> (n \in TimeMethods)
  PROVE  Guess(m) = Guess(n) /\ \A s : InUse(m, s) = InUse(n, s)
  BY DEF Guess, InUse

LEMMA AgreementSuffices == Agreement => OnlyGuessesDisagree
<1> SUFFICES ASSUME Agreement, NEW i \in Controls, NEW j \in Controls, Disagree(i, j)
             PROVE  (i \in guessed) # (j \in guessed)
  BY DEF OnlyGuessesDisagree
<1>1. Concluded(i) /\ Concluded(j) /\ found[i] # Absent /\ found[j] # Absent /\ found[i] # found[j]
  BY DEF Agreement, Disagree
<1>2. (Condition[i] \in TimeMethods) <=> (Condition[j] \in TimeMethods)
  BY DEF Disagree, Family, TimeMethods, LogMethods
<1>3. Guess(Condition[i]) = Guess(Condition[j]) /\ InUse(Condition[i], known) = InUse(Condition[j], known)
  BY <1>2, FamilyAgrees
<1> QED
  BY <1>1, <1>3 DEF Concluded

THEOREM OnlyGuessesDisagreeHolds == Spec => []OnlyGuessesDisagree
  BY AgreementHolds, AgreementSuffices, PTL

(* Once the prefetch got through, every unit a condition looks at is known *)
(* (UnitStates!PrefetchAligns).                                            *)
PrefetchKnows ==
  /\ prefetch = "todo" => guessed = {}
  /\ prefetch = "shown" => \A u \in Prefetched : known[u] # Absent
  /\ prefetch = "shown" /\ {chrony, timesyncd, rsyslog} \subseteq Prefetched => guessed = {}

THEOREM PrefetchAlignsHolds == Spec => []PrefetchAligns
<1> USE UnitsAssumption
<1>1. Init => PrefetchKnows
  BY DEF Init, PrefetchKnows
<1>2. TypeOK /\ PrefetchKnows /\ [Next]_vars => PrefetchKnows'
  <2> SUFFICES ASSUME TypeOK, PrefetchKnows, [Next]_vars PROVE PrefetchKnows'
    OBVIOUS
  <2>1. \A u \in Units : known[u] # Absent => known'[u] = known[u]
    BY StepIsQuery, QueryFacts DEF cacheVars
  <2>2. ASSUME prefetch' = prefetch, guessed' = guessed PROVE PrefetchKnows'
    BY <2>1, <2>2 DEF PrefetchKnows
  <2>3. ASSUME NEW u \in Units, HostChanges(u) PROVE PrefetchKnows'
    BY <2>2, <2>3 DEF HostChanges
  <2>4. CASE Prefetch
    <3>1. guessed' = {} /\ prefetch' \in {"shown", "refused"}
      BY <2>4 DEF Prefetch, PrefetchKnows
    <3>2. prefetch' = "shown" => Answered(Prefetched)
      BY <2>4 DEF Prefetch
    <3>3. prefetch' = "shown" => \A u \in Prefetched : known'[u] # Absent
      BY <3>2, QueryFacts
    <3> QED
      BY <3>1, <3>3 DEF PrefetchKnows
  <2>5. CASE Decide \/ Provide
    BY <2>2, <2>5 DEF Decide, Provide
  <2>6. CASE DecideBlindly
    <3>1. prefetch' = prefetch /\ prefetch # "todo" /\ Missing(Asked(Condition[now])) # {}
      BY <2>6 DEF DecideBlindly, Running, Refused
    <3>2. ~({chrony, timesyncd, rsyslog} \subseteq Prefetched /\ prefetch = "shown")
      BY <3>1, AskedFacts DEF Missing, PrefetchKnows
    <3> QED
      BY <2>1, <3>1, <3>2 DEF PrefetchKnows
  <2>7. CASE UNCHANGED vars
    BY <2>2, <2>7 DEF vars
  <2> QED
    BY <2>3, <2>4, <2>5, <2>6, <2>7 DEF Next
<1>3. PrefetchKnows /\ OnlyGuessesDisagree => PrefetchAligns
  BY DEF PrefetchKnows, OnlyGuessesDisagree, PrefetchAligns
<1> QED
  BY <1>1, <1>2, <1>3, TypeCorrect, OnlyGuessesDisagreeHolds, PTL DEF Spec
=============================================================================
