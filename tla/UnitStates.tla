----------------------------- MODULE UnitStates -----------------------------
(***************************************************************************)
(* System.units of lsa/system.py under the controls that use it: the unit  *)
(* prefetch of Engine.run, the time_daemon and logging_method conditions   *)
(* of lsa/checks/conditions.py, and the providers that judge units.        *)
(*                                                                         *)
(* units() is a cache of its own beside System.cached.  It remembers every *)
(* state systemctl reported, for ever; it remembers that systemd is not    *)
(* the init system, for ever; and it remembers no other failure, so the    *)
(* next control asks again.  The host changes in between.                  *)
(***************************************************************************)
EXTENDS Naturals, FiniteSets

CONSTANTS
  Units,          \* the systemd units some control is about
  chrony, timesyncd, rsyslog,  \* the units the two conditions look at
  Prefetched,     \* units named in a "units" list of some check
  N,              \* controls, judged in the order 1..N
  Condition,      \* [1..N -> Methods \cup {Absent}], the method in applies_if
  Subject,        \* [1..N -> SUBSET Units], the units the provider judges
  Installed,      \* the units whose package is installed
  LoggingMethod,  \* the configuration's logging_method, or Absent for "auto"
  Absent,         \* "no state yet", "no condition", "no method"
  MaxChanges      \* bound: changes of the host during the run

Controls == 1 .. N
States == {"used", "idle"}        \* enabled or active; neither
Methods == {"chrony", "timesyncd", "rsyslog", "journald"}
TimeMethods == {"chrony", "timesyncd"}
LogMethods == {"rsyslog", "journald"}
Outcomes == {"JUDGED", "NOT_APPLICABLE", "NOT_ASSESSED"}

ASSUME UnitsAssumption ==
  /\ {chrony, timesyncd, rsyslog} \subseteq Units
  /\ Cardinality({chrony, timesyncd, rsyslog}) = 3
  /\ Prefetched \subseteq Units /\ Installed \subseteq Units
  /\ N \in Nat /\ MaxChanges \in Nat
  /\ Condition \in [Controls -> Methods \cup {Absent}]
  /\ Subject \in [Controls -> SUBSET Units]
  /\ LoggingMethod \in LogMethods \cup {Absent}
  /\ Absent \notin States \cup Methods \cup Outcomes \cup {"none"}

VARIABLES
  systemd,    \* /run/systemd/system exists: fixed while the host is up
  systemctl,  \* the command is installed
  host,       \* the live state of every unit
  changes,    \* how often the host changed
  known,      \* System._units
  noInit,     \* "systemd-unavailable" is in System._cache
  successes,  \* of the collector "systemd"
  failures,   \* of the collector "systemd"
  prefetch,   \* "todo", then "shown" or "refused"
  now,        \* the control being judged
  chosen,     \* the method its condition found in use, or Absent before
  status,     \* what each control came to, or Absent
  found,      \* history: the method each control's condition found in use
  guessed,    \* history: controls whose condition swallowed a refusal
  told        \* history: the states each unit was reported with to a control

hostVars == <<systemd, systemctl, host, changes>>
cacheVars == <<known, noInit, successes, failures>>
vars == <<hostVars, cacheVars, prefetch, now, chosen, status, found, guessed, told>>

TypeOK ==
  /\ systemd \in BOOLEAN /\ systemctl \in BOOLEAN
  /\ host \in [Units -> States] /\ changes \in 0 .. MaxChanges
  /\ known \in [Units -> States \cup {Absent}]
  /\ noInit \in BOOLEAN
  /\ successes \in Nat /\ failures \in Nat
  /\ prefetch \in {"todo", "shown", "refused"}
  /\ now \in 1 .. N + 1
  /\ chosen \in Methods \cup {Absent, "none"}
  /\ status \in [Controls -> Outcomes \cup {Absent}]
  /\ found \in [Controls -> Methods \cup {Absent, "none"}]
  /\ guessed \in SUBSET Controls
  /\ told \in [Units -> SUBSET States]

Init ==
  /\ systemd \in BOOLEAN /\ systemctl \in BOOLEAN
  /\ host \in [Units -> States] /\ changes = 0
  /\ known = [u \in Units |-> Absent]
  /\ noInit = FALSE
  /\ successes = 0 /\ failures = 0
  /\ prefetch = "todo"
  /\ now = 1
  /\ chosen = Absent
  /\ status = [i \in Controls |-> Absent]
  /\ found = [i \in Controls |-> Absent]
  /\ guessed = {}
  /\ told = [u \in Units |-> {}]

(* An administrator, a package script or a timer starts or stops a unit.   *)
HostChanges(u) ==
  /\ changes < MaxChanges
  /\ host' = [host EXCEPT ![u] = IF @ = "used" THEN "idle" ELSE "used"]
  /\ changes' = changes + 1
  /\ UNCHANGED <<systemd, systemctl, cacheVars, prefetch, now, chosen, status, found, guessed, told>>

-----------------------------------------------------------------------------
(* System.units(names), one way out each.                                  *)

(* Bug: nothing is remembered, every call asks for all its units.          *)
AllMissing(names) == names

Missing(names) == {u \in names : known[u] = Absent}

(* Nothing is missing: no command runs.                                    *)
Remembered(names) ==
  /\ Missing(names) = {}
  /\ UNCHANGED cacheVars

(* Bug: the whole request is asked for again, not what is missing of it.   *)
ShownAgain(names) ==
  /\ Missing(names) # {} /\ ~noInit /\ systemd /\ systemctl
  /\ known' = [u \in Units |-> IF u \in names THEN host[u] ELSE known[u]]
  /\ successes' = successes + 1
  /\ UNCHANGED <<noInit, failures>>

(* Bug: fewer records than units are accepted, the rest get no state.      *)
ShownShort(names) ==
  /\ Missing(names) # {} /\ ~noInit /\ systemd /\ systemctl
  /\ \E some \in SUBSET Missing(names) :
       known' = [u \in Units |-> IF u \in some THEN host[u] ELSE known[u]]
  /\ successes' = successes + 1
  /\ UNCHANGED <<noInit, failures>>

(* systemctl reports one record per missing unit.                          *)
Shown(names) ==
  /\ Missing(names) # {} /\ ~noInit /\ systemd /\ systemctl
  /\ known' = [u \in Units |-> IF u \in Missing(names) THEN host[u] ELSE known[u]]
  /\ successes' = successes + 1
  /\ UNCHANGED <<noInit, failures>>

(* Bug: the failed command is not counted against the collector.           *)
RefusedSilently(names) ==
  /\ Missing(names) # {}
  /\ noInit' = (noInit \/ ~systemd)
  /\ failures' = IF ~noInit /\ ~systemd THEN failures + 1 ELSE failures
  /\ UNCHANGED <<known, successes>>

(* EvidenceUnavailable: systemd is known not to run here, or is found not  *)
(* to (remembered); systemctl is not installed (neither remembered nor     *)
(* counted); or it fails, times out or reports too few records (counted).  *)
Refused(names) ==
  /\ Missing(names) # {}
  /\ noInit' = (noInit \/ ~systemd)
  /\ failures' = IF noInit \/ (systemd /\ ~systemctl) THEN failures ELSE failures + 1
  /\ UNCHANGED <<known, successes>>

Answered(names) == Remembered(names) \/ Shown(names)

-----------------------------------------------------------------------------
(* Bug: only units given as plain names are collected, not {"name": ...}.  *)
PrefetchNamesOnly ==
  /\ prefetch = "todo"
  /\ \/ Answered(Prefetched \ {timesyncd}) /\ prefetch' = "shown"
     \/ Refused(Prefetched \ {timesyncd}) /\ prefetch' = "refused"
  /\ UNCHANGED <<hostVars, now, chosen, status, found, guessed, told>>

(* Engine._prefetch_units: whatever goes wrong is swallowed.               *)
Prefetch ==
  /\ prefetch = "todo"
  /\ \/ Answered(Prefetched) /\ prefetch' = "shown"
     \/ Refused(Prefetched) /\ prefetch' = "refused"
  /\ UNCHANGED <<hostVars, now, chosen, status, found, guessed, told>>

Running == prefetch # "todo" /\ now \in Controls

Tell(names) ==
  told' = [u \in Units |-> IF u \in names THEN told[u] \cup {known'[u]} ELSE told[u]]

(* The condition's units, asked for only when the packages leave a choice. *)
Asked(method) ==
  IF method \in TimeMethods
  THEN IF {chrony, timesyncd} \subseteq Installed THEN {chrony, timesyncd} ELSE {}
  ELSE IF rsyslog \in Installed /\ LoggingMethod = Absent THEN {rsyslog} ELSE {}

(* time_daemon_in_use and logging_method_in_use on the states `s'.         *)
InUse(method, s) ==
  IF method \in TimeMethods
  THEN IF {chrony, timesyncd} \subseteq Installed
       THEN IF s[timesyncd] = "used" /\ s[chrony] # "used" THEN "timesyncd" ELSE "chrony"
       ELSE IF chrony \in Installed THEN "chrony"
       ELSE IF timesyncd \in Installed THEN "timesyncd" ELSE "none"
  ELSE IF LoggingMethod # Absent THEN LoggingMethod
  ELSE IF rsyslog \in Installed /\ s[rsyslog] = "used" THEN "rsyslog" ELSE "journald"

(* What the conditions answer when the units cannot be read.               *)
Guess(method) == IF method \in TimeMethods THEN "chrony" ELSE "rsyslog"

Judge(i, verdict) ==
  /\ status' = [status EXCEPT ![i] = verdict]
  /\ now' = now + 1
  /\ chosen' = Absent

(* The condition settles which method is in use, and may skip the control. *)
Choose(i, method) ==
  /\ found' = [found EXCEPT ![i] = method]
  /\ \/ method = Condition[i] /\ chosen' = method /\ UNCHANGED <<now, status>>
     \/ method # Condition[i] /\ Judge(i, "NOT_APPLICABLE")

Decide ==
  /\ Running /\ Condition[now] # Absent /\ chosen = Absent
  /\ Answered(Asked(Condition[now]))
  /\ Tell(Asked(Condition[now]))
  /\ Choose(now, InUse(Condition[now], known'))
  /\ UNCHANGED <<hostVars, prefetch, guessed>>

DecideBlindly ==
  /\ Running /\ Condition[now] # Absent /\ chosen = Absent
  /\ Refused(Asked(Condition[now]))
  /\ Choose(now, Guess(Condition[now]))
  /\ guessed' = guessed \cup {now}
  /\ UNCHANGED <<hostVars, prefetch, told>>

(* The provider: unit_state, units_not_in_use, service_not_in_use and      *)
(* single_time_daemon all ask for their units at once and raise together.  *)
Provide ==
  /\ Running /\ (Condition[now] = Absent \/ chosen # Absent)
  /\ \/ Answered(Subject[now]) /\ Tell(Subject[now]) /\ Judge(now, "JUDGED")
     \/ Refused(Subject[now]) /\ Judge(now, "NOT_ASSESSED") /\ UNCHANGED told
  /\ UNCHANGED <<hostVars, prefetch, found, guessed>>

Next ==
  \/ \E u \in Units : HostChanges(u)
  \/ Prefetch \/ Decide \/ DecideBlindly \/ Provide

Spec == Init /\ [][Next]_vars
-----------------------------------------------------------------------------
(* Conditions of one family found two different methods in use.            *)
Family(i) == IF Condition[i] \in TimeMethods THEN TimeMethods ELSE LogMethods
Disagree(i, j) ==
  /\ found[i] # Absent /\ found[j] # Absent
  /\ Family(i) = Family(j) /\ found[i] # found[j]

(* Every control of the run judges a unit on the same state of it, however *)
(* the host changes and however often a query fails in between             *)
(* (system.py:803-804, 829-836).                                           *)
OneStatePerUnit == \A u \in Units : told[u] \subseteq {known[u]}

(* Once the prefetch got through, the two subsections of a family cannot   *)
(* both be skipped or both be assessed: all its conditions found the same  *)
(* method in use, and none of them guessed (engine.py:231-236 with         *)
(* conditions.py:82-120).                                                  *)
PrefetchAligns ==
  prefetch = "shown" /\ {chrony, timesyncd, rsyslog} \subseteq Prefetched =>
    /\ guessed = {}
    /\ \A i, j \in Controls : ~Disagree(i, j)

(* Even without the prefetch, conditions of a family disagree only across  *)
(* a refusal: two answers never contradict each other, an answer and a     *)
(* guess may (conditions.py:88-89, 118-119).                               *)
OnlyGuessesDisagree ==
  \A i, j \in Controls : Disagree(i, j) => (i \in guessed) # (j \in guessed)

(* A control left unassessed or guessed for want of unit states shows in   *)
(* the collector: it has a failure on record, unless the command itself is *)
(* not installed, which nothing counts (system.py:806-823, 543-548).       *)
RefusalIsCounted ==
  /\ systemctl \/ ~systemd
  /\ guessed # {} \/ \E i \in Controls : status[i] = "NOT_ASSESSED"
  => failures > 0

(* That systemd is not running is found once and blamed once, however many *)
(* controls it ends, and no state is known then (system.py:808-817).       *)
NoInitCountedOnce ==
  noInit => failures = 1 /\ successes = 0 /\ \A u \in Units : known[u] = Absent

(* docs/benchmark-definitions.md:76-77: "a condition that cannot be        *)
(* evaluated leaves the control NOT_ASSESSED rather than guessing".        *)
NoGuessing == \A i \in guessed : status[i] \in {Absent, "NOT_ASSESSED"}
=============================================================================
