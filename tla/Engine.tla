------------------------------- MODULE Engine -------------------------------
(***************************************************************************)
(* Engine.run and Engine.evaluate of lsa/engine.py, over the evidence      *)
(* cache.  Items 1..N are the automated controls in definition order,      *)
(* items N+1..N+M the manual recommendations (M = 0 without                *)
(* --include-manual).  A control's conditions and provider are sequences   *)
(* of evidence calls (Gather) whose outcome is read off by one of the      *)
(* closing actions; what a provider makes of a value is its own affair, so *)
(* any status it may return is possible.                                   *)
(***************************************************************************)
EXTENDS EvidenceCache

CONSTANTS
  N, M,            \* automated controls, manual recommendations listed
  Conditions,      \* [1..N -> Nat], length of each control's applies_if
  Sections,        \* the benchmark's sections
  SectionOf,       \* [1..N+M -> Sections]
  IdOf,            \* [1..N+M -> ids]; a manual item may repeat a control's
  InScope,         \* items the --section filter selects
  InProfile,       \* items of an allowed profile
  Invalid          \* a status a defective provider might return

Automated == 1 .. N
Listed == 1 .. N + M
Statuses ==
  {"PASS", "FAIL", "WARNING", "NOT_APPLICABLE", "NOT_ASSESSED", "ERROR"}

ASSUME EngineAssumption ==
  /\ N \in Nat /\ M \in Nat
  /\ Conditions \in [Automated -> Nat]
  /\ SectionOf \in [Listed -> Sections]
  /\ \A i, j \in Automated : IdOf[i] = IdOf[j] => i = j
  /\ InScope \subseteq Listed /\ InProfile \subseteq Listed
  /\ Invalid \notin Statuses /\ Absent \notin Statuses

VARIABLES
  phase,        \* "probe", "controls", "manual", then "done"
  results,      \* statuses of the results so far, in order
  step,         \* 0, or 1 + conditions already found to hold
  permissions,  \* Engine.permissions: the reason stored, or Absent
  used,         \* Engine.collectors_used: a set, or Absent if never tracked
  blame         \* history: key whose unavailability ended the control

engineVars == <<phase, results, step, permissions, used, blame>>
vars == <<cacheVars, engineVars>>

Current == Len(results) + 1
Evaluating == phase = "controls" /\ step > 0
AtTopLevel == ~Building
Applies(i) == i \in InScope /\ i \in InProfile

TypeOK ==
  /\ CacheTypeOK
  /\ phase \in {"probe", "controls", "manual", "done"}
  /\ results \in Seq(Statuses)
  /\ step \in Nat
  /\ permissions \in [Automated -> Reasons \cup {Absent}]
  /\ used \in [Automated -> (SUBSET Collectors) \cup {Absent}]
  /\ blame \in [Automated -> Keys \cup {Absent}]

Init ==
  /\ CacheInit
  /\ phase = "probe"
  /\ results = <<>>
  /\ step = 0
  /\ permissions = [i \in Automated |-> Absent]
  /\ used = [i \in Automated |-> Absent]
  /\ blame = [i \in Automated |-> Absent]

-----------------------------------------------------------------------------
(* Before the controls: platform detection and the unit prefetch gather    *)
(* evidence with tracking off; the prefetch swallows whatever goes wrong.  *)
Probe ==
  /\ phase = "probe"
  /\ Gather \/ Handle
  /\ UNCHANGED engineVars

StartControls ==
  /\ phase = "probe" /\ AtTopLevel /\ Running
  /\ phase' = "controls"
  /\ UNCHANGED <<cacheVars, results, step, permissions, used, blame>>

-----------------------------------------------------------------------------
(* The section and profile filters answer before tracking begins.          *)
FilterOut ==
  /\ phase = "controls" /\ step = 0
  /\ Current \in Automated /\ ~Applies(Current)
  /\ results' = Append(results, "NOT_APPLICABLE")
  /\ UNCHANGED <<cacheVars, phase, step, permissions, used, blame>>

Begin ==
  /\ phase = "controls" /\ step = 0
  /\ Current \in Automated /\ Applies(Current)
  /\ BeginTracking
  /\ step' = 1
  /\ UNCHANGED <<phase, results, permissions, used, blame>>

(* A condition or the provider at work: cached calls and host reads, and   *)
(* EvidenceUnavailable the condition or provider handles by itself.        *)
Evidence ==
  /\ Evaluating
  /\ Gather \/ (raised \in Reasons /\ Handle)
  /\ UNCHANGED engineVars

ConditionHolds ==
  /\ Evaluating /\ AtTopLevel /\ Running
  /\ step <= Conditions[Current]
  /\ step' = step + 1
  /\ UNCHANGED <<cacheVars, phase, results, permissions, used, blame>>

(* Bug: the collectors are filed on the normal path only, not in `finally'.*)
CloseFilesOnReturn(status) ==
  /\ Evaluating /\ AtTopLevel
  /\ results' = Append(results, status)
  /\ used' = [used EXCEPT ![Current] = IF Running THEN tracking ELSE {}]
  /\ step' = 0
  /\ EndTracking
  /\ UNCHANGED phase

(* Every way out of evaluate ends the window and files the collectors used.*)
Close(status) ==
  /\ Evaluating /\ AtTopLevel
  /\ results' = Append(results, status)
  /\ used' = [used EXCEPT ![Current] = tracking]
  /\ step' = 0
  /\ EndTracking
  /\ UNCHANGED phase

ConditionFails ==
  /\ Evaluating /\ Running
  /\ step <= Conditions[Current]
  /\ Close("NOT_APPLICABLE")
  /\ UNCHANGED <<permissions, blame>>

(* Bug: the provider's status goes into the result as it is.               *)
VerdictUnchecked(s) ==
  /\ Evaluating /\ Running
  /\ step > Conditions[Current]
  /\ Close(s)
  /\ UNCHANGED <<permissions, blame>>

(* _result turns a status it does not know into ERROR.                     *)
Verdict(s) ==
  /\ Evaluating /\ Running
  /\ step > Conditions[Current]
  /\ Close(IF s \in Statuses THEN s ELSE "ERROR")
  /\ UNCHANGED <<permissions, blame>>

Unavailable ==
  /\ raised \in Reasons
  /\ Close("NOT_ASSESSED")
  /\ permissions' = [permissions EXCEPT ![Current] = raised]
  /\ blame' = [blame EXCEPT ![Current] = raisedBy]

(* Bug: a defect's ERROR result is returned before the window is closed.   *)
DefectLeaks ==
  /\ Evaluating /\ AtTopLevel /\ raised = Crash
  /\ results' = Append(results, "ERROR")
  /\ step' = 0
  /\ Handle
  /\ UNCHANGED <<phase, permissions, used, blame>>

(* Bug: only EvidenceUnavailable is caught, a defect aborts the run.       *)
DefectEscapes ==
  /\ Evaluating /\ AtTopLevel /\ raised = Crash
  /\ phase' = "aborted"
  /\ EndTracking
  /\ UNCHANGED <<results, step, permissions, used, blame>>

Defect ==
  /\ raised = Crash
  /\ Close("ERROR")
  /\ UNCHANGED <<permissions, blame>>

StartManual ==
  /\ phase = "controls" /\ step = 0 /\ Len(results) = N
  /\ phase' = "manual"
  /\ UNCHANGED <<cacheVars, results, step, permissions, used, blame>>

(* _manual_result looks at the profile only.                               *)
Manual ==
  /\ phase = "manual" /\ Len(results) < N + M
  /\ results' = Append(results, IF Current \in InProfile THEN "NOT_ASSESSED" ELSE "NOT_APPLICABLE")
  /\ UNCHANGED <<cacheVars, phase, step, permissions, used, blame>>

Finish ==
  /\ phase = "manual" /\ Len(results) = N + M
  /\ phase' = "done"
  /\ UNCHANGED <<cacheVars, results, step, permissions, used, blame>>

Next ==
  \/ Probe \/ StartControls
  \/ FilterOut \/ Begin \/ Evidence
  \/ ConditionHolds \/ ConditionFails
  \/ \E s \in Statuses \cup {Invalid} : Verdict(s)
  \/ Unavailable \/ Defect
  \/ StartManual \/ Manual \/ Finish

(* The probe, every builder, condition and provider return: their loops    *)
(* run over finite lists and their commands time out.  They may ask many   *)
(* times first, hence strong fairness on the returns; the rest is straight *)
(* line code.                                                              *)
Fairness ==
  /\ SF_vars(\E v \in Values : Succeed(v) /\ UNCHANGED engineVars)
  /\ SF_vars(StartControls)
  /\ SF_vars(ConditionHolds \/ ConditionFails \/ \E s \in Statuses : Verdict(s))
  /\ WF_vars((Fail \/ Blow \/ Handle) /\ phase = "probe" /\ UNCHANGED engineVars)
  /\ WF_vars((Fail \/ Blow) /\ UNCHANGED engineVars)
  /\ WF_vars(Unavailable \/ Defect)
  /\ WF_vars(FilterOut \/ Begin \/ StartManual \/ Manual \/ Finish)

Spec == Init /\ [][Next]_vars
FairSpec == Spec /\ Fairness
-----------------------------------------------------------------------------
(* build_coverage, as far as blame goes.                                   *)
Unevaluated(sec) ==
  {i \in Listed : i <= Len(results) /\ SectionOf[i] = sec /\ results[i] \in {"NOT_ASSESSED", "ERROR"}}

(* collectors_used is looked up by id. *)
UsedBy(i) == UNION {used[j] : j \in {k \in Automated : IdOf[k] = IdOf[i] /\ used[k] # Absent}}

AffectedCollectors(sec) ==
  {c \in opened : CollectorStatus(c) # "SUCCESS" /\ \E i \in Unevaluated(sec) : c \in UsedBy(i)}

-----------------------------------------------------------------------------
(* Engine.run keeps its promise: see Verdicts (engine.py:199-209, 238-267).*)
Promise ==
  INSTANCE Verdicts WITH
    Count <- N + M,
    Pending <- Absent,
    verdict <- [i \in Listed |-> IF i <= Len(results) THEN results[i] ELSE Absent]

KeepsPromiseSafety == Promise!VerdictsSafety

(* The same with its liveness: the next verdict always comes.              *)
KeepsPromise == Promise!VerdictsSpec

(* A control that unavailable evidence ended shows up in its section's     *)
(* coverage with the collector to blame, even when the failure happened    *)
(* for another control, or before any (engine.py:260-267, 359-366).        *)
BlameReachesReport ==
  \A i \in Automated :
    blame[i] # Absent => CollectorOf[blame[i]] \in AffectedCollectors(SectionOf[i])

(* The evidence that ended one control was unavailable for the same reason *)
(* to every other control of the run that asked for it: no two controls    *)
(* can disagree on whether one item of cached evidence could be read       *)
(* (engine.py:260-262 with system.py:338-342).                             *)
SameEvidenceSameFate ==
  \A i \in Automated :
    blame[i] # Absent =>
      /\ cache[blame[i]] = permissions[i]
      /\ told[blame[i]] \ {Crash} = {permissions[i]}

(* A tracking window is one control's evaluation, and no evidence gathered *)
(* outside it is charged to the control: windows neither leak out of a     *)
(* control that ended in an exception nor nest (engine.py:251, 266-267).   *)
WindowPerControl ==
  /\ tracking # Absent <=> Evaluating
  /\ \A i \in Automated : used[i] # Absent <=> i <= Len(results) /\ Applies(i)
  /\ phase = "done" => UNION {UsedBy(i) : i \in Listed} \subseteq opened
=============================================================================
