------------------------- MODULE ProviderAuditProofs -------------------------
(***************************************************************************)
(* Proof that a pass on audit rules means what it says (PassMeansAudited)  *)
(* for every requirement and every host of AuditAssumption: a rule that    *)
(* the code accepts for a requirement records the events it asks for. And  *)
(* that all verdicts on accounts speak of one snapshot (OneSnapshot), on   *)
(* every host of AccountsAssumption: each check is told by the databases   *)
(* it collects, and those are in the cache. And that a refused read only   *)
(* withholds a verdict (RefusalOnlyWithholds), for every check of every    *)
(* family under RefusalAssumption: provider by provider, what a user reads *)
(* is what root reads or leaves the check unassessed. And that a backward  *)
(* search for a kernel parameter finds what a boot leaves in force         *)
(* (BootAppliesIt), for any layers of files under SysctlAssumption. And    *)
(* that the walk of the Include lines reads what the server reads          *)
(* (IncludesFollowed), for any files under SshAssumption. And that a       *)
(* package is called outdated exactly when the policy of Debian orders its *)
(* version before the candidate (CurrentMeansNoNewer), for any versions    *)
(* under VersionsAssumption.                                               *)
(***************************************************************************)
EXTENDS Refusals, FiniteSetTheorems, SequenceTheorems, WellFoundedInduction, TLAPS

(* What root sees of a host it has collected nothing of. *)
AuditView(h) == [root |-> root, val |-> h, now |-> h, denied |-> Denied["audit"], hidden |-> Hidden["audit"]]

(* Nothing is collected, the host stays as it is, and a pass just given is that of the check on this host. *)
Inv ==
  family = "audit" =>
    /\ host = before /\ AuditHost(host)
    /\ DOMAIN cache = {}
    /\ \E S : verdicts \in Seq(S)
    /\ Len(verdicts) <= Len(Checks["audit"])
    /\ verdicts # <<>> /\ Asked.type = "audit_rules" /\ Last(verdicts) = "PASS" =>
         audit_rules(AuditView(host), Asked) = "PASS"

(* While nothing is collected a view shows the host itself. *)
LEMMA ViewIsHost ==
  ASSUME family = "audit", host = [i \in DOMAIN host |-> host[i]], DOMAIN cache = {}
  PROVE  View = AuditView(host)
<1>1. Altered(host, cache) = [i \in DOMAIN host |-> host[i]]
  BY DOMAIN host \cup DOMAIN cache = DOMAIN host DEF Altered
<1> QED
  BY <1>1 DEF View, ViewOf, AuditView

(* A control passes only when its provider says so. *)
LEMMA PassIsProvided ==
  ASSUME NEW check, NEW e, VerdictOf(check, e) = "PASS"
  PROVE  Provide(check, e) = "PASS"
<1> DEFINE conditions == IF "applies_if" \in DOMAIN check THEN check.applies_if ELSE <<>>
           j == SelectInSeq(conditions, LAMBDA c : Applies(c, e) # TRUE)
<1>1. VerdictOf(check, e) = IF j = 0 THEN Provide(check, e) ELSE If(Applies(conditions[j], e), "")
  BY DEF VerdictOf
<1>2. If(Applies(conditions[j], e), "") # "PASS"
  BY DEF If
<1> HIDE DEF j, conditions
<1> QED BY <1>1, <1>2

(* A pass is only given when root has read both sets of rules and missed nothing in either. *)
LEMMA PassMissesNothing ==
  ASSUME NEW e, NEW check, audit_rules(e, check) = "PASS", NEW rules \in {disk_rules(e), loaded_rules(e)}
  PROVE  rules # Unavailable /\ loaded_rules(e) # Unavailable /\ ~missing_requirements(e, check, rules)
BY DEF audit_rules, OnDiskAndLoaded, Verdict

(* Root reads: a pass is given to root only, whom every rule read is one of AuditHost's. *)
LEMMA PassIsRoots ==
  ASSUME AuditHost(host), NEW check, audit_rules(AuditView(host), check) = "PASS"
  PROVE  root = TRUE
<1> DEFINE e == AuditView(host)
<1>1. loaded_rules(e) # Unavailable
  BY PassMissesNothing
<1>2. Exists(e, "auditctl") /\ Run(e, "auditctl").ok
  BY <1>1 DEF loaded_rules
<1>3. host.auditctl # Absent /\ (IF root THEN host.auditctl.root ELSE host.auditctl.user).ok
  <2>1. Content(e, "auditctl") # Absent
    BY <1>2 DEF Exists
  <2>2. Content(e, "auditctl") = host.auditctl
    BY <2>1 DEF Content, AuditView
  <2>3. e.root = root
    BY DEF AuditView
  <2> QED
    BY <1>2, <2>1, <2>2, <2>3 DEF Run
<1> QED
  BY <1>3 DEF AuditHost

------------------------------------------------------------------------------
(* Fields *)

(* The uid that stands for no uid is a number far above those of users. *)
LEMMA UnsetIsNat == Unset \in Nat /\ 1000 \in 1 .. Unset - 1
<1>1. Unset \in Nat
  BY SMT DEF Unset
<1>2. Unset > 1000
  BY SMT DEF Unset
<1> QED
  BY <1>1, <1>2

(* The events of a condition, one by one. *)
LEMMA EventValues ==
  ASSUME UidMin1 \in 1 .. Unset - 1, NEW ev \in Events
  PROVE  DOMAIN ev = {"auid", "euid", "uid", "exit", "a0"} /\ \A n \in DOMAIN ev : ev[n] \in Nat
BY UnsetIsNat DEF Events

(* A threshold that matches is met by every id that meets the one asked for. *)
LEMMA ThresholdHolds ==
  ASSUME UidMin1 \in 1 .. Unset - 1, NEW ev \in Events, NEW f, NEW w, Written(f),
         ~(f.op = ">=" /\ f.value.num # Junk /\ f.value.num < 0),
         w.name \in Ids, w.op = ">=", w.value.text = "UID_MIN",
         field_matches(f, w, UidMin1), Holds(w, ev)
  PROVE  f.name \in DOMAIN ev /\ Holds(f, ev)
<1>1. f.name = w.name /\ f.op = ">=" /\ f.value.num # Junk /\ f.value.num <= UidMin1
  <2>1. f.name = w.name /\ f.op = ">=" /\ f.value.num # Junk
    BY DEF field_matches
  <2>2. f.value.num \in Int /\ UidMin1 \in Int
    BY <2>1, UnsetIsNat DEF Written
  <2>3. f.value.num <= UidMin1
    BY <2>2 DEF field_matches
  <2> QED BY <2>1, <2>3
<1>2. ev[w.name] >= UidMin1
  <2>1. Limit(w, ev) = UidMin1
    BY DEF Limit, UNSET_VALUES
  <2>2. ev[w.name] \in Int /\ UidMin1 \in Int
    BY EventValues, UnsetIsNat DEF Ids
  <2> QED BY <2>1, <2>2 DEF Holds
<1>3. f.value.num \in Int /\ f.value.num >= 0
  BY <1>1 DEF Written
<1>4. Limit(f, ev) = f.value.num
  <2>1. f.value.text \notin {"UID_MIN", "uid", "euid"}
    BY <1>1 DEF Written
  <2>2. f.value.text \notin UNSET_VALUES
    BY <1>1, <1>3, UnsetIsNat DEF Written
  <2> QED BY <2>1, <2>2, SMT DEF Limit
<1>5. f.name \in DOMAIN ev /\ ev[f.name] \in Nat
  BY <1>1, EventValues DEF Ids
<1>6. ev[f.name] >= Limit(f, ev)
  BY <1>1, <1>2, <1>3, <1>4, <1>5
<1> QED
  BY <1>1, <1>5, <1>6 DEF Holds

(* Each spelling of no login is the same number. *)
LEMMA UnsetHolds ==
  ASSUME UidMin1 \in 1 .. Unset - 1, NEW ev \in Events, NEW f, NEW w,
         w.name \in Ids, w.op \in {"=", "!="}, w.value.text = "unset",
         field_matches(f, w, UidMin1), Holds(w, ev)
  PROVE  f.name \in DOMAIN ev /\ Holds(f, ev)
<1>1. f.name = w.name /\ f.op = w.op /\ f.value.text \in UNSET_VALUES
  BY DEF field_matches
<1>2. Limit(f, ev) = Unset /\ Limit(w, ev) = Unset
  BY <1>1, SMT DEF Limit, UNSET_VALUES
<1>3. f.name \in DOMAIN ev
  BY <1>1, EventValues DEF Ids
<1> QED
  BY <1>1, <1>2, <1>3 DEF Holds

(* The two sides of a comparison of ids may be swapped. *)
LEMMA ActingHolds ==
  ASSUME UidMin1 \in 1 .. Unset - 1, NEW ev \in Events, NEW f, NEW w,
         w.op = "!=", {w.name, w.value.text} = {"uid", "euid"},
         field_matches(f, w, UidMin1), Holds(w, ev)
  PROVE  f.name \in DOMAIN ev /\ Holds(f, ev)
<1>1. f.op = "!=" /\ {f.name, f.value.text} = {"uid", "euid"}
  BY DEF field_matches
<1>2. /\ f.name \in {"uid", "euid"} /\ f.value.text \in {"uid", "euid"} /\ f.name # f.value.text
      /\ w.name \in {"uid", "euid"} /\ w.value.text \in {"uid", "euid"} /\ w.name # w.value.text
  BY <1>1, SMTT(30)
<1>3. Limit(f, ev) = ev[f.value.text] /\ Limit(w, ev) = ev[w.value.text]
  BY <1>2, SMT DEF Limit, UNSET_VALUES
<1>4. ev[w.name] # ev[w.value.text]
  BY <1>3 DEF Holds
<1>5. ev[f.name] # ev[f.value.text]
  BY <1>2, <1>4
<1>6. f.name \in DOMAIN ev
  BY <1>2, EventValues
<1> QED
  BY <1>1, <1>3, <1>5, <1>6 DEF Holds

(* Numbers are compared as numbers. *)
LEMMA NumberHolds ==
  ASSUME UidMin1 \in 1 .. Unset - 1, NEW ev \in Events, NEW f, NEW w, Written(f),
         w.name \in {"exit", "a0"}, w.op \in {"=", "!="}, w.value.num \in (0 .. Unset - 1) \ {Junk},
         w.value.text \notin UNSET_VALUES \cup {"UID_MIN", "uid", "euid"},
         field_matches(f, w, UidMin1), Holds(w, ev)
  PROVE  f.name \in DOMAIN ev /\ Holds(f, ev)
<1>1. f.name = w.name /\ f.op = w.op /\ f.value.num # Junk /\ f.value.num = w.value.num
  <2>1. w.value.text # "UID_MIN" /\ w.value.text # "unset" /\ {w.name, w.value.text} # {"uid", "euid"}
    BY DEF UNSET_VALUES
  <2> QED BY <2>1 DEF field_matches
<1>2. f.value.text \notin UNSET_VALUES \cup {"UID_MIN", "uid", "euid"}
  BY <1>1 DEF Written
<1>3. Limit(f, ev) = w.value.num /\ Limit(w, ev) = w.value.num
  BY <1>1, <1>2, SMT DEF Limit
<1>4. f.name \in DOMAIN ev
  BY <1>1, EventValues
<1> QED
  BY <1>1, <1>3, <1>4 DEF Holds

(* A rule that the code takes for a requirement records what the requirement asks for. *)
LEMMA MatchHolds ==
  ASSUME UidMin1 \in 1 .. Unset - 1, NEW ev \in Events, NEW f, NEW w, Written(f), Demand(w),
         ~(f.op = ">=" /\ f.value.num # Junk /\ f.value.num < 0),
         field_matches(f, w, UidMin1), Holds(w, ev)
  PROVE  f.name \in DOMAIN ev /\ Holds(f, ev)
BY ThresholdHolds, UnsetHolds, ActingHolds, NumberHolds DEF Demand

(* So a rule whose fields the code accepts for a requirement records what the requirement asks for. *)
LEMMA AcceptedRecords ==
  ASSUME UidMin1 \in 1 .. Unset - 1, NEW wanted, \A w \in wanted : Demand(w),
         NEW ev \in Events, \A w \in wanted : Holds(w, ev),
         NEW r, \A f \in r.fields : Written(f), fields_ok(r, wanted, UidMin1)
  PROVE  Records(r, wanted, ev)
<1> SUFFICES ASSUME ~Narrowed(r, wanted), NEW f \in r.fields
             PROVE  f.name \in DOMAIN ev /\ Holds(f, ev)
  BY DEF Records
<1>1. /\ ~(f.op = ">=" /\ f.value.num # Junk /\ f.value.num < 0)
      /\ \E w \in wanted : field_matches(f, w, UidMin1)
  BY DEF Narrowed
<1> QED
  BY <1>1, MatchHolds

------------------------------------------------------------------------------
(* The verdict *)

(* What root reads on such a host. *)
LEMMA RootReads ==
  ASSUME AuditHost(host), root = TRUE
  PROVE  /\ audit_uid_min(AuditView(host)) \in 1 .. Unset - 1
         /\ \A i : ~Exists(AuditView(host), i) => Content(AuditView(host), i) = Absent
         /\ AuditView(host) = RootView("audit", host)
<1> DEFINE e == AuditView(host)
<1>1. \A i : ~Closed(e, i) /\ ~Unseen(e, i) /\ e.val = host
  BY DEF Closed, Unseen, AuditView
<1>2. \/ CollectOr(e, "login_defs", [uid_min |-> 1000]) = [uid_min |-> 1000]
      \/ /\ CollectOr(e, "login_defs", [uid_min |-> 1000]) = host.login_defs
         /\ host.login_defs # Absent
  BY <1>1 DEF CollectOr, ReadText, Content
<1>3. audit_uid_min(e) \in 1 .. Unset - 1
  <2>1. CASE CollectOr(e, "login_defs", [uid_min |-> 1000]) = [uid_min |-> 1000]
    <3>1. audit_uid_min(e) = 1000
      BY <2>1 DEF audit_uid_min
    <3> QED BY <3>1, UnsetIsNat
  <2>2. CASE /\ CollectOr(e, "login_defs", [uid_min |-> 1000]) = host.login_defs
             /\ host.login_defs # Absent
    <3>1. audit_uid_min(e) = host.login_defs.uid_min
      BY <2>2 DEF audit_uid_min
    <3>2. host.login_defs.uid_min \in 1 .. Unset - 1
      BY <2>2 DEF AuditHost
    <3> QED BY <3>1, <3>2
  <2> QED BY <1>2, <2>1, <2>2
<1>4. \A i : ~Exists(e, i) => Content(e, i) = Absent
  BY <1>1 DEF Exists
<1>5. e = RootView("audit", host)
  BY DEF AuditView, RootView
<1> QED
  BY <1>3, <1>4, <1>5

(* A requirement on calls that is not missing is met by a rule that records every event of it. *)
LEMMA CallsAreRecorded ==
  ASSUME View = AuditView(host), UidMin1 \in 1 .. Unset - 1,
         NEW rules, \A r \in rules : \A f \in r.fields : Written(f),
         NEW check, ~missing_requirements(View, check, rules),
         NEW g \in check.syscalls, \A w \in g.fields : Demand(w),
         NEW arch \in required_archs(View), NEW call \in g.names, NEW ev \in Wanted(g)
  PROVE  \E r \in rules : OnCall(r, arch, call) /\ Records(r, g.fields, ev)
<1>1. syscall_found(rules, arch, native(View), call, g.fields, UidMin1)
  BY DEF missing_requirements, UidMin1
<1>2. PICK r \in rules : OnCall(r, arch, call) /\ fields_ok(r, g.fields, UidMin1)
  BY <1>1 DEF syscall_found, OnCall
<1>3. ev \in Events /\ \A w \in g.fields : Holds(w, ev)
  BY DEF Wanted
<1>4. Records(r, g.fields, ev)
  BY <1>2, <1>3, AcceptedRecords
<1> QED
  BY <1>2, <1>4

(* And one on a file by a rule that watches it, unless the file need not be there and is not. *)
LEMMA FilesAreWatched ==
  ASSUME View = AuditView(host), UidMin1 \in 1 .. Unset - 1,
         \A i : ~Exists(View, i) => Content(View, i) = Absent,
         NEW rules, \A r \in rules : \A f \in r.fields : Written(f),
         NEW check, ~missing_requirements(View, check, rules),
         NEW w \in check.watches, \A x \in w.fields : Demand(x),
         NEW access \in w.perms, NEW ev \in Wanted(w),
         ~(w.if_exists /\ Content(View, watch_path(View, w)) = Absent)
  PROVE  \E r \in rules : OnFile(r, watch_path(View, w), access) /\ Records(r, w.fields, ev)
<1>1. watch_found(rules, watch_path(View, w), w.perms, w.fields, UidMin1)
  BY DEF missing_requirements, UidMin1
<1>2. PICK r \in rules :
        /\ norm(r.path) = norm(watch_path(View, w)) /\ w.perms \subseteq r.perms
        /\ \/ r.kind = "watch" /\ w.fields = {}
           \/ exit_rule(r) /\ fields_ok(r, w.fields, UidMin1)
  BY <1>1 DEF watch_found
<1>3. fields_ok(r, w.fields, UidMin1)
  BY <1>2 DEF fields_ok
<1>4. ev \in Events /\ \A x \in w.fields : Holds(x, ev)
  BY DEF Wanted
<1>5. Records(r, w.fields, ev)
  BY <1>2, <1>3, <1>4, AcceptedRecords
<1>6. OnFile(r, watch_path(View, w), access)
  BY <1>2 DEF OnFile
<1> QED
  BY <1>5, <1>6

(* Whatever check a state has just passed on audit rules, it kept its promise. *)
LEMMA InvImplies == AuditAssumption /\ family \in Families /\ Inv => PassMeansAudited
<1> SUFFICES ASSUME AuditAssumption, family \in Families, Inv, family = "audit", host = before,
                    Judged({"audit_rules"}), Last(verdicts) = "PASS",
                    NEW rules \in {disk_rules(View), loaded_rules(View)}
    PROVE  /\ \A g \in Asked.syscalls : \A arch \in required_archs(View), call \in g.names, ev \in Wanted(g) :
                \E r \in rules : OnCall(r, arch, call) /\ Records(r, g.fields, ev)
           /\ \A w \in Asked.watches : \A access \in w.perms, ev \in Wanted(w) :
                \/ w.if_exists /\ Content(View, watch_path(View, w)) = Absent
                \/ \E r \in rules : OnFile(r, watch_path(View, w), access) /\ Records(r, w.fields, ev)
  BY DEF PassMeansAudited
<1>1. AuditHost(host) /\ View = AuditView(host)
  BY ViewIsHost DEF Inv, AuditHost
<1>2. Asked.type = "audit_rules" /\ audit_rules(View, Asked) = "PASS"
  BY <1>1 DEF Inv, Judged
<1>3. root = TRUE
  BY <1>1, <1>2, PassIsRoots
<1>4. rules # Unavailable /\ ~missing_requirements(View, Asked, rules)
  BY <1>2, PassMissesNothing
<1>5. /\ UidMin1 \in 1 .. Unset - 1
      /\ \A i : ~Exists(View, i) => Content(View, i) = Absent
      /\ View = RootView("audit", host)
  BY <1>1, <1>3, RootReads DEF UidMin1
<1>6. \A r \in rules : \A f \in r.fields : Written(f)
  BY <1>1, <1>4, <1>5 DEF AuditHost
<1>7. AuditCheck(Asked)
  <2>1. Len(verdicts) \in DOMAIN Checks["audit"]
    BY DEF Inv, Judged, AuditAssumption
  <2> QED BY <2>1 DEF Asked, AuditAssumption
<1>8. \A g \in Asked.syscalls \cup Asked.watches : \A w \in g.fields : Demand(w)
  BY <1>2, <1>7 DEF AuditCheck
<1>9. ASSUME NEW g \in Asked.syscalls, NEW arch \in required_archs(View), NEW call \in g.names, NEW ev \in Wanted(g)
      PROVE  \E r \in rules : OnCall(r, arch, call) /\ Records(r, g.fields, ev)
  BY <1>1, <1>4, <1>5, <1>6, <1>8, CallsAreRecorded
<1>10. ASSUME NEW w \in Asked.watches, NEW access \in w.perms, NEW ev \in Wanted(w),
              ~(w.if_exists /\ Content(View, watch_path(View, w)) = Absent)
       PROVE  \E r \in rules : OnFile(r, watch_path(View, w), access) /\ Records(r, w.fields, ev)
  BY <1>1, <1>4, <1>5, <1>6, <1>8, <1>10, FilesAreWatched
<1> QED
  BY <1>9, <1>10

(* Nothing is collected when an audit begins. *)
LEMMA InitInv == AuditAssumption /\ Init => Inv
<1> SUFFICES ASSUME AuditAssumption, Init, family = "audit"
             PROVE  /\ host = before /\ AuditHost(host)
                    /\ DOMAIN cache = {}
                    /\ \E S : verdicts \in Seq(S)
                    /\ Len(verdicts) <= Len(Checks["audit"])
                    /\ verdicts = <<>>
  BY DEF Inv
<1>1. AuditHost(host)
  BY DEF Init, AuditAssumption
<1>2. verdicts = <<>> /\ cache = <<>> /\ host = before
  BY DEF Init
<1>3. DOMAIN cache = {} /\ verdicts \in Seq({}) /\ Len(verdicts) = 0
  BY <1>2
<1>4. Len(Checks["audit"]) \in Nat
  BY DEF Init, AuditAssumption
<1> QED
  BY <1>1, <1>2, <1>3, <1>4

(* A control of this family collects nothing, and its verdict is that of its provider on the host. *)
LEMMA AssessInv == AuditAssumption /\ family \in Families /\ Inv /\ Assess => Inv'
<1> SUFFICES ASSUME AuditAssumption, family \in Families, Inv, Assess, family = "audit"
             PROVE  Inv'
  BY DEF Inv, Assess
<1> DEFINE n == Len(verdicts)
           check == Checks["audit"][n + 1]
<1>1. n \in Nat /\ n + 1 \in DOMAIN Checks["audit"] /\ n + 1 <= Len(Checks["audit"])
  BY DEF Inv, Assess, AuditAssumption
<1>2. AuditCheck(check)
  BY <1>1 DEF AuditAssumption
<1>3. Reads(check, View) = {}
  BY <1>2 DEF AuditCheck, Reads, Collected
<1>4. DOMAIN cache' = {}
  BY <1>3 DEF Inv, Assess, Next1, Altered
<1>5. /\ verdicts' = Append(verdicts, VerdictOf(check, View))
      /\ UNCHANGED <<family, root, host, before>>
  BY DEF Assess, Next1
<1>6. PICK S : verdicts \in Seq(S)
  BY DEF Inv
<1>7. /\ verdicts' \in Seq(S \cup {VerdictOf(check, View)})
      /\ Len(verdicts') = n + 1 /\ verdicts'[n + 1] = VerdictOf(check, View)
  BY <1>5, <1>6
<1>8. Last(verdicts)' = VerdictOf(check, View) /\ Asked' = check
  BY <1>5, <1>7 DEF Last, Asked
<1>9. ASSUME check.type = "audit_rules", VerdictOf(check, View) = "PASS"
      PROVE  audit_rules(AuditView(host), check) = "PASS"
  <2>1. Provide(check, View) = "PASS" /\ Provide(check, View) = audit_rules(View, check)
    BY <1>9, PassIsProvided DEF Provide, AuditVerdict
  <2>2. View = AuditView(host)
    BY ViewIsHost DEF Inv, AuditHost
  <2> QED BY <2>1, <2>2
<1>10. AuditView(host)' = AuditView(host) /\ AuditHost(host)' = AuditHost(host)
  BY <1>5 DEF AuditView
<1> QED
  <2> HIDE DEF n, check
  <2> QED BY <1>1, <1>4, <1>5, <1>7, <1>8, <1>9, <1>10 DEF Inv

(* A control on audit rules that passes has both sets of rules record every event its       *)
(* requirements ask for, on every host and for every requirement of AuditAssumption: the    *)
(* comparison of rules (auditd.py:227-313) takes no spelling for one that means more.       *)
THEOREM PassMeansAuditedHolds == Spec => []PassMeansAudited
<1>1. Init => family \in Families /\ Inv
  BY AuditAssumption, InitInv DEF Init
<1>2. family \in Families /\ Inv /\ [Next]_vars => (family \in Families /\ Inv)'
  <2> SUFFICES ASSUME family \in Families, Inv, [Next]_vars
               PROVE  (family \in Families /\ Inv)'
    OBVIOUS
  <2>1. CASE Assess
    <3>1. family' = family
      BY <2>1 DEF Assess
    <3> QED BY <2>1, <3>1, AuditAssumption, AssessInv
  <2>2. CASE Edit
    BY <2>2 DEF Edit, Inv
  <2>3. CASE UNCHANGED vars
    BY <2>3 DEF vars, Inv, Asked, AuditView
  <2> QED BY <2>1, <2>2, <2>3 DEF Next
<1>3. family \in Families /\ Inv => PassMeansAudited
  BY AuditAssumption, InvImplies
<1> QED
  BY <1>1, <1>2, <1>3, PTL DEF Spec

------------------------------------------------------------------------------
(* The user databases *)

(* Two hosts, as the same reader sees them, that differ at most in the objects of D. *)
Alike(e1, e2, D) ==
  /\ e1.root = e2.root /\ e1.denied = e2.denied /\ e1.hidden = e2.hidden
  /\ \A i : i \notin D => Content(e1, i) = Content(e2, i)

(* Every read of an object outside D answers the same. *)
LEMMA ReadsAlike ==
  ASSUME NEW e1, NEW e2, NEW D, Alike(e1, e2, D), NEW i, i \notin D
  PROVE  /\ Closed(e1, i) = Closed(e2, i) /\ ReadText(e1, i) = ReadText(e2, i)
         /\ Meta(e1, i) = Meta(e2, i) /\ Exists(e1, i) = Exists(e2, i) /\ Glob(e1, i) = Glob(e2, i)
         /\ Collect(e1, i) = Collect(e2, i) /\ Run(e1, i) = Run(e2, i)
         /\ \A empty : CollectOr(e1, i, empty) = CollectOr(e2, i, empty)
BY DEF Alike, Closed, Unseen, ReadText, Meta, Exists, Glob, Collect, Run, CollectOr

(* A condition of the account controls reads no user database. *)
LEMMA ConditionsAlike ==
  ASSUME NEW e1, NEW e2, NEW D \in SUBSET Databases, Alike(e1, e2, D), NEW c, AccountCondition(c)
  PROVE  Applies(c, e1) = Applies(c, e2)
<1> DEFINE Named == {"packages", "sshd", "network_router", "ipv6_disable", "ipv6_all", "ipv6_default", "proc_ipv6"}
<1>1. \A i \in Named : i \notin D
  BY DEF Databases
<1>2. \A i \in Named : ReadText(e1, i) = ReadText(e2, i) /\ Exists(e1, i) = Exists(e2, i)
        /\ Collect(e1, i) = Collect(e2, i) /\ Content(e1, i) = Content(e2, i)
  BY <1>1, ReadsAlike DEF Alike
<1>3. c.type = "path_exists" => Exists(e1, c.path) = Exists(e2, c.path)
  BY ReadsAlike DEF AccountCondition
<1>4. Packages(e1) = Packages(e2) /\ \A n : Installed(e1, n) = Installed(e2, n)
  BY <1>2 DEF Packages, Installed
<1>5. \A names : any_installed(e1, names) = any_installed(e2, names)
  BY <1>4 DEF any_installed
<1>6. sshd_installed(e1) = sshd_installed(e2)
  BY <1>2, <1>4 DEF sshd_installed
<1>7. ipv6_active(e1) = ipv6_active(e2)
  BY <1>2 DEF ipv6_active
<1> QED
  BY <1>2, <1>3, <1>5, <1>6, <1>7 DEF Applies, AccountCondition

(* What the checks make of a database is told by that database, and the names by the C library. *)
LEMMA DatabasesAlike ==
  ASSUME NEW e1, NEW e2, NEW D, Alike(e1, e2, D)
  PROVE  /\ "login_defs" \notin D => LoginDefs(e1) = LoginDefs(e2) /\ UidMin(e1) = UidMin(e2)
         /\ "shells" \notin D => ValidShells(e1) = ValidShells(e2)
         /\ "shadow" \notin D => Hashed(e1) = Hashed(e2) /\ \A n : ShadowStatus(e1, n) = ShadowStatus(e2, n)
         /\ "passwd" \notin D /\ "nss" \notin D => \A n : UserName(e1, n) = UserName(e2, n)
         /\ "group" \notin D /\ "nss" \notin D => \A n : GroupName(e1, n) = GroupName(e2, n)
         /\ "passwd" \notin D /\ "shells" \notin D => interactive_users(e1) = interactive_users(e2)
<1>1. "login_defs" \notin D => LoginDefs(e1) = LoginDefs(e2) /\ UidMin(e1) = UidMin(e2)
  BY ReadsAlike DEF LoginDefs, UidMin
<1>2. "shells" \notin D => ValidShells(e1) = ValidShells(e2)
  BY ReadsAlike DEF ValidShells
<1>3. "shadow" \notin D => Hashed(e1) = Hashed(e2) /\ \A n : ShadowStatus(e1, n) = ShadowStatus(e2, n)
  <2> SUFFICES ASSUME "shadow" \notin D
               PROVE  Hashed(e1) = Hashed(e2) /\ \A n : ShadowStatus(e1, n) = ShadowStatus(e2, n)
    OBVIOUS
  <2>1. Collect(e1, "shadow") = Collect(e2, "shadow")
    BY ReadsAlike
  <2>2. Hashed(e1) = Hashed(e2)
    BY <2>1 DEF Hashed
  <2>3. ASSUME NEW n PROVE ShadowStatus(e1, n) = ShadowStatus(e2, n)
    BY <2>1 DEF ShadowStatus
  <2> QED BY <2>2, <2>3
<1>4. "passwd" \notin D /\ "nss" \notin D => \A n : UserName(e1, n) = UserName(e2, n)
  <2> SUFFICES ASSUME "passwd" \notin D, "nss" \notin D, NEW n PROVE UserName(e1, n) = UserName(e2, n)
    OBVIOUS
  <2>1. Collect(e1, "passwd") = Collect(e2, "passwd") /\ Content(e1, "nss") = Content(e2, "nss")
    BY ReadsAlike DEF Alike
  <2> QED BY <2>1 DEF UserName
<1>5. "group" \notin D /\ "nss" \notin D => \A n : GroupName(e1, n) = GroupName(e2, n)
  <2> SUFFICES ASSUME "group" \notin D, "nss" \notin D, NEW n PROVE GroupName(e1, n) = GroupName(e2, n)
    OBVIOUS
  <2>1. Collect(e1, "group") = Collect(e2, "group") /\ Content(e1, "nss") = Content(e2, "nss")
    BY ReadsAlike DEF Alike
  <2> QED BY <2>1 DEF GroupName
<1>6. "passwd" \notin D /\ "shells" \notin D => interactive_users(e1) = interactive_users(e2)
  <2> SUFFICES ASSUME "passwd" \notin D, "shells" \notin D PROVE interactive_users(e1) = interactive_users(e2)
    OBVIOUS
  <2>1. Collect(e1, "passwd") = Collect(e2, "passwd")
    BY ReadsAlike
  <2> QED BY <1>2, <2>1 DEF interactive_users, Having
<1> QED BY <1>1, <1>2, <1>3, <1>4, <1>5, <1>6

(* The settings kept outside the databases are read the same. *)
LEMMA SettingsAlike ==
  ASSUME NEW e1, NEW e2, NEW D \in SUBSET Databases, Alike(e1, e2, D)
  PROVE  /\ useradd_inactive(e1) = useradd_inactive(e2)
         /\ Glob(e1, "profile_d") = Glob(e2, "profile_d") /\ ReadText(e1, "profile") = ReadText(e2, "profile")
<1>1. \A i \in {"useradd", "default_useradd", "profile", "profile_d"} : i \notin D
  BY DEF Databases
<1>2. /\ Exists(e1, "useradd") = Exists(e2, "useradd") /\ Run(e1, "useradd") = Run(e2, "useradd")
      /\ CollectOr(e1, "default_useradd", -1) = CollectOr(e2, "default_useradd", -1)
  BY <1>1, ReadsAlike
<1>3. Glob(e1, "profile_d") = Glob(e2, "profile_d") /\ ReadText(e1, "profile") = ReadText(e2, "profile")
  BY <1>1, ReadsAlike
<1> QED BY <1>2, <1>3 DEF useradd_inactive

(* The checks of the password policy. *)
LEMMA PolicyAlike ==
  ASSUME NEW e1, NEW e2, NEW D \in SUBSET Databases, Alike(e1, e2, D), NEW x
  PROVE  /\ {"login_defs", "shadow"} \cap D = {} => password_aging(e1, x) = password_aging(e2, x)
         /\ "login_defs" \notin D => encrypt_method(e1, x) = encrypt_method(e2, x) /\ default_umask(e1) = default_umask(e2)
         /\ "shadow" \notin D => /\ inactive_lock(e1, x) = inactive_lock(e2, x)
                                /\ password_change_past(e1, x) = password_change_past(e2, x)
         /\ root_umask(e1) = root_umask(e2) /\ shell_timeout(e1, x) = shell_timeout(e2, x)
<1>1. \A i \in {"useradd", "default_useradd", "root_dot", "profile", "profile_d", "tmout"} : i \notin D
  BY DEF Databases
<1>2. {"login_defs", "shadow"} \cap D = {} => password_aging(e1, x) = password_aging(e2, x)
  <2> SUFFICES ASSUME {"login_defs", "shadow"} \cap D = {} PROVE password_aging(e1, x) = password_aging(e2, x)
    OBVIOUS
  <2>1. Hashed(e1) = Hashed(e2) /\ LoginDefs(e1) = LoginDefs(e2) /\ Collect(e1, "shadow") = Collect(e2, "shadow")
    BY DatabasesAlike, ReadsAlike
  <2> QED BY <2>1 DEF password_aging
<1>3. "login_defs" \notin D => encrypt_method(e1, x) = encrypt_method(e2, x) /\ default_umask(e1) = default_umask(e2)
  <2> SUFFICES ASSUME "login_defs" \notin D
               PROVE  encrypt_method(e1, x) = encrypt_method(e2, x) /\ default_umask(e1) = default_umask(e2)
    OBVIOUS
  <2>1. /\ LoginDefs(e1) = LoginDefs(e2) /\ Glob(e1, "profile_d") = Glob(e2, "profile_d")
        /\ ReadText(e1, "profile") = ReadText(e2, "profile")
        /\ CollectOr(e1, "profile", <<>>) = CollectOr(e2, "profile", <<>>)
    BY <1>1, DatabasesAlike, ReadsAlike
  <2>2. encrypt_method(e1, x) = encrypt_method(e2, x)
    BY <2>1 DEF encrypt_method
  <2>3. default_umask(e1) = default_umask(e2)
    BY <2>1 DEF default_umask
  <2> QED BY <2>2, <2>3
<1>4. "shadow" \notin D => /\ inactive_lock(e1, x) = inactive_lock(e2, x)
                          /\ password_change_past(e1, x) = password_change_past(e2, x)
  <2> SUFFICES ASSUME "shadow" \notin D
               PROVE  inactive_lock(e1, x) = inactive_lock(e2, x) /\ password_change_past(e1, x) = password_change_past(e2, x)
    OBVIOUS
  <2>1. Hashed(e1) = Hashed(e2) /\ Collect(e1, "shadow") = Collect(e2, "shadow")
    BY DatabasesAlike, ReadsAlike
  <2>2. useradd_inactive(e1) = useradd_inactive(e2)
    BY SettingsAlike
  <2>3. inactive_lock(e1, x) = inactive_lock(e2, x)
    BY <2>1, <2>2 DEF inactive_lock
  <2>4. password_change_past(e1, x) = password_change_past(e2, x)
    BY <2>1 DEF password_change_past
  <2> QED BY <2>3, <2>4
<1>5. root_umask(e1) = root_umask(e2)
  <2>1. ReadText(e1, "root_dot") = ReadText(e2, "root_dot") /\ CollectOr(e1, "root_dot", <<>>) = CollectOr(e2, "root_dot", <<>>)
    BY <1>1, ReadsAlike
  <2> QED BY <2>1 DEF root_umask
<1>6. shell_timeout(e1, x) = shell_timeout(e2, x)
  <2>1. Glob(e1, "tmout") = Glob(e2, "tmout")
    BY <1>1, ReadsAlike
  <2> QED BY <2>1 DEF shell_timeout
<1> QED BY <1>2, <1>3, <1>4, <1>5, <1>6

(* The checks of single entries, and those that hold one database against another. *)
LEMMA EntriesAlike ==
  ASSUME NEW e1, NEW e2, NEW D \in SUBSET Databases, Alike(e1, e2, D), NEW kind
  PROVE  /\ "passwd" \notin D => /\ uid_zero(e1) = uid_zero(e2) /\ gid_zero_users(e1) = gid_zero_users(e2)
                                /\ shadowed_passwords(e1) = shadowed_passwords(e2)
         /\ "group" \notin D => gid_zero_groups(e1) = gid_zero_groups(e2)
         /\ "shadow" \notin D => root_access(e1) = root_access(e2) /\ shadow_not_empty(e1) = shadow_not_empty(e2)
         /\ {"passwd", "group"} \cap D = {} => passwd_groups_exist(e1) = passwd_groups_exist(e2)
         /\ (IF kind \in {"uid", "user"} THEN "passwd" ELSE "group") \notin D => duplicates(e1, kind) = duplicates(e2, kind)
         /\ {"passwd", "shells", "login_defs"} \cap D = {} => system_account_shells(e1) = system_account_shells(e2)
         /\ {"passwd", "shells", "shadow"} \cap D = {} => nologin_accounts_locked(e1) = nologin_accounts_locked(e2)
<1>1. \A i : i \notin D => Collect(e1, i) = Collect(e2, i)
  BY ReadsAlike
<1>2. "passwd" \notin D => /\ uid_zero(e1) = uid_zero(e2) /\ gid_zero_users(e1) = gid_zero_users(e2)
                          /\ shadowed_passwords(e1) = shadowed_passwords(e2)
  <2> SUFFICES ASSUME Collect(e1, "passwd") = Collect(e2, "passwd")
               PROVE  /\ uid_zero(e1) = uid_zero(e2) /\ gid_zero_users(e1) = gid_zero_users(e2)
                      /\ shadowed_passwords(e1) = shadowed_passwords(e2)
    BY <1>1
  <2>1. uid_zero(e1) = uid_zero(e2)
    BY DEF uid_zero
  <2>2. gid_zero_users(e1) = gid_zero_users(e2)
    BY DEF gid_zero_users
  <2>3. shadowed_passwords(e1) = shadowed_passwords(e2)
    BY DEF shadowed_passwords
  <2> QED BY <2>1, <2>2, <2>3
<1>3. "group" \notin D => gid_zero_groups(e1) = gid_zero_groups(e2)
  <2> SUFFICES ASSUME Collect(e1, "group") = Collect(e2, "group")
               PROVE  gid_zero_groups(e1) = gid_zero_groups(e2)
    BY <1>1
  <2> QED BY DEF gid_zero_groups
<1>4. "shadow" \notin D => root_access(e1) = root_access(e2) /\ shadow_not_empty(e1) = shadow_not_empty(e2)
  <2> SUFFICES ASSUME Collect(e1, "shadow") = Collect(e2, "shadow")
               PROVE  root_access(e1) = root_access(e2) /\ shadow_not_empty(e1) = shadow_not_empty(e2)
    BY <1>1
  <2>1. root_access(e1) = root_access(e2)
    BY DEF root_access
  <2>2. shadow_not_empty(e1) = shadow_not_empty(e2)
    BY DEF shadow_not_empty
  <2> QED BY <2>1, <2>2
<1>5. {"passwd", "group"} \cap D = {} => passwd_groups_exist(e1) = passwd_groups_exist(e2)
  <2> SUFFICES ASSUME Collect(e1, "passwd") = Collect(e2, "passwd"), Collect(e1, "group") = Collect(e2, "group")
               PROVE  passwd_groups_exist(e1) = passwd_groups_exist(e2)
    BY <1>1
  <2> QED BY DEF passwd_groups_exist
<1>6. (IF kind \in {"uid", "user"} THEN "passwd" ELSE "group") \notin D => duplicates(e1, kind) = duplicates(e2, kind)
  <2> DEFINE i == IF kind \in {"uid", "user"} THEN "passwd" ELSE "group"
  <2> SUFFICES ASSUME Collect(e1, i) = Collect(e2, i) PROVE duplicates(e1, kind) = duplicates(e2, kind)
    BY <1>1
  <2> QED BY DEF duplicates, Repeats
<1>7. {"passwd", "shells", "login_defs"} \cap D = {} => system_account_shells(e1) = system_account_shells(e2)
  <2> SUFFICES ASSUME {"passwd", "shells", "login_defs"} \cap D = {}
               PROVE  system_account_shells(e1) = system_account_shells(e2)
    OBVIOUS
  <2>1. /\ Collect(e1, "passwd") = Collect(e2, "passwd") /\ ValidShells(e1) = ValidShells(e2)
        /\ LoginDefs(e1) = LoginDefs(e2) /\ UidMin(e1) = UidMin(e2)
    BY <1>1, DatabasesAlike
  <2> DEFINE Told(passwd, shells, defs, min) ==
        Needs(<<shells, defs, passwd>>,
              Verdict(\E x \in ToSet(passwd) :
                        /\ x.name \notin Exempt
                        /\ x.uid < min \/ x.uid = 65534
                        /\ x.shell \in shells))
  <2>2. system_account_shells(e1) = Told(Collect(e1, "passwd"), ValidShells(e1), LoginDefs(e1), UidMin(e1))
    BY DEF system_account_shells
  <2>3. system_account_shells(e2) = Told(Collect(e2, "passwd"), ValidShells(e2), LoginDefs(e2), UidMin(e2))
    BY DEF system_account_shells
  <2> HIDE DEF Told
  <2> QED BY <2>1, <2>2, <2>3
<1>8. {"passwd", "shells", "shadow"} \cap D = {} => nologin_accounts_locked(e1) = nologin_accounts_locked(e2)
  <2> SUFFICES ASSUME {"passwd", "shells", "shadow"} \cap D = {}
               PROVE  nologin_accounts_locked(e1) = nologin_accounts_locked(e2)
    OBVIOUS
  <2>1. /\ Collect(e1, "passwd") = Collect(e2, "passwd") /\ ValidShells(e1) = ValidShells(e2)
        /\ Collect(e1, "shadow") = Collect(e2, "shadow") /\ \A n : ShadowStatus(e1, n) = ShadowStatus(e2, n)
    BY <1>1, DatabasesAlike
  <2> QED BY <2>1 DEF nologin_accounts_locked
<1> QED BY <1>2, <1>3, <1>4, <1>5, <1>6, <1>7, <1>8

(* The directories root is given, and the homes of passwd, are no databases. *)
PathApart(e) == e.root => \A d \in ToSet(Run(e, "rootshell").out) : d \notin Databases
HomesApart(e) == Collect(e, "passwd") # Unavailable => \A x \in ToSet(Collect(e, "passwd")) : x.home \notin Databases

(* The check of the PATH of root reads the directories in it, and who owns them. *)
LEMMA RootPathAlike ==
  ASSUME NEW e1, NEW e2, NEW D \in SUBSET Databases, Alike(e1, e2, D), PathApart(e1),
         e1.root => {"passwd", "login_defs"} \cap D = {}
  PROVE  root_path(e1) = root_path(e2)
<1>1. CASE RequireRoot(e1) = Unavailable
  <2>1. RequireRoot(e2) = Unavailable
    BY <1>1 DEF RequireRoot, Alike
  <2> QED BY <1>1, <2>1 DEF root_path, root_login_path
<1>2. CASE RequireRoot(e1) # Unavailable
  <2>1. e1.root /\ RequireRoot(e2) = RequireRoot(e1)
    BY <1>2 DEF RequireRoot, Alike
  <2>2. /\ "rootshell" \notin D /\ "passwd" \notin D /\ "login_defs" \notin D /\ "nss" \notin D
    BY <2>1 DEF Databases
  <2>3. /\ Run(e1, "rootshell") = Run(e2, "rootshell") /\ Collect(e1, "passwd") = Collect(e2, "passwd")
        /\ LoginDefs(e1) = LoginDefs(e2) /\ \A n : UserName(e1, n) = UserName(e2, n)
    BY <2>2, ReadsAlike, DatabasesAlike
  <2>4. root_login_path(e1) = root_login_path(e2)
    BY <2>1, <2>3 DEF root_login_path
  <2>5. CASE root_login_path(e1) = Unavailable
    BY <2>4, <2>5 DEF root_path
  <2>6. CASE root_login_path(e1) # Unavailable
    <3> DEFINE path == root_login_path(e1)
               dirs == {d \in ToSet(path) : d \notin {"", "."}}
               Bad(e, d) == LET m == Meta(e, d) IN
                              \/ m = Absent
                              \/ ~m.isdir
                              \/ UserName(e, m.uid) # "root"
                              \/ m.mode \cap Mask022 # {}
               Lost(e) == path = Unavailable \/ \E d \in dirs : Meta(e, d) = Unavailable
               Loose1(e) == Contains(path, "") \/ Contains(path, ".") \/ \E d \in dirs : Bad(e, d)
    <3>1. path = Run(e1, "rootshell").out
      BY <2>6 DEF root_login_path
    <3>2. \A d \in dirs : d \notin D
      BY <2>1, <3>1 DEF PathApart
    <3>3. \A i : i \notin D => Meta(e1, i) = Meta(e2, i)
      BY ReadsAlike
    <3>4. \A d \in dirs : Meta(e1, d) = Meta(e2, d)
      <4> HIDE DEF dirs
      <4> QED BY <3>2, <3>3
    <3>5. \A d \in dirs : Bad(e1, d) <=> Bad(e2, d)
      <4> HIDE DEF dirs
      <4> QED BY <2>3, <3>4
    <3>6. root_path(e1) = IF Lost(e1) THEN "NOT_ASSESSED" ELSE Verdict(Loose1(e1))
      BY DEF root_path
    <3>7. root_path(e2) = IF Lost(e2) THEN "NOT_ASSESSED" ELSE Verdict(Loose1(e2))
      BY <2>4 DEF root_path
    <3>8. Lost(e1) <=> Lost(e2)
      BY <3>4
    <3>9. Verdict(Loose1(e1)) = Verdict(Loose1(e2))
      BY <3>5 DEF Verdict
    <3> HIDE DEF Lost, Loose1
    <3> QED BY <3>6, <3>7, <3>8, <3>9
  <2> QED BY <2>5, <2>6
<1> QED BY <1>1, <1>2

(* The check of the group shadow collects passwd only when there is such a group. *)
LEMMA ShadowGroupAlike ==
  ASSUME NEW e1, NEW e2, NEW D \in SUBSET Databases, Alike(e1, e2, D), "group" \notin D,
         FirstNamed(Collect(e1, "group"), "shadow") # Absent => "passwd" \notin D
  PROVE  shadow_group_empty(e1) = shadow_group_empty(e2)
<1>1. /\ Collect(e1, "group") = Collect(e2, "group")
      /\ "passwd" \notin D => Collect(e1, "passwd") = Collect(e2, "passwd")
  BY ReadsAlike
<1>2. CASE FirstNamed(Collect(e1, "group"), "shadow") = Absent
  BY <1>1, <1>2 DEF shadow_group_empty
<1>3. CASE Collect(e1, "passwd") = Collect(e2, "passwd")
  BY <1>1, <1>3 DEF shadow_group_empty
<1> QED BY <1>1, <1>2, <1>3

(* The check of home directories. *)
LEMMA HomesAlike ==
  ASSUME NEW e1, NEW e2, NEW D \in SUBSET Databases, Alike(e1, e2, D), HomesApart(e1),
         {"passwd", "shells"} \cap D = {}
  PROVE  home_directories(e1) = home_directories(e2)
<1>1. /\ Collect(e1, "passwd") = Collect(e2, "passwd") /\ ValidShells(e1) = ValidShells(e2)
      /\ interactive_users(e1) = interactive_users(e2) /\ \A n : UserName(e1, n) = UserName(e2, n)
  BY ReadsAlike, DatabasesAlike DEF Databases
<1>2. CASE Collect(e1, "passwd") = Unavailable
  BY <1>1, <1>2 DEF home_directories
<1>3. CASE Collect(e1, "passwd") # Unavailable
  <2> DEFINE users == interactive_users(e1)
             Bad(e, u) == LET m == Meta(e, u.home) IN
                m = Absent \/ ~m.isdir \/ UserName(e, m.uid) # u.name \/ m.mode \cap Mask027 # {}
  <2>1. \A u \in users : u.home \notin D
    BY <1>3 DEF HomesApart, interactive_users, Having
  <2>2. \A u \in users : Meta(e1, u.home) = Meta(e2, u.home)
    BY <2>1, ReadsAlike
  <2>3. \A u \in users : Bad(e1, u) <=> Bad(e2, u)
    BY <1>1, <2>2
  <2>4. home_directories(e1) =
          IF ValidShells(e1) = Unavailable \/ Collect(e1, "passwd") = Unavailable THEN "NOT_ASSESSED"
          ELSE IF \E u \in users : Meta(e1, u.home) = Unavailable THEN "NOT_ASSESSED"
          ELSE Verdict(\E u \in users : Bad(e1, u))
    BY DEF home_directories
  <2>5. home_directories(e2) =
          IF ValidShells(e2) = Unavailable \/ Collect(e2, "passwd") = Unavailable THEN "NOT_ASSESSED"
          ELSE IF \E u \in users : Meta(e2, u.home) = Unavailable THEN "NOT_ASSESSED"
          ELSE Verdict(\E u \in users : Bad(e2, u))
    BY <1>1 DEF home_directories
  <2>6. (\E u \in users : Meta(e1, u.home) = Unavailable) <=> (\E u \in users : Meta(e2, u.home) = Unavailable)
    BY <2>2
  <2>7. (\E u \in users : Bad(e1, u)) <=> (\E u \in users : Bad(e2, u))
    BY <2>3
  <2> HIDE DEF users, Bad
  <2> QED BY <1>1, <2>4, <2>5, <2>6, <2>7 DEF Verdict
<1> QED BY <1>2, <1>3

(* A walk over a home reads nothing else. *)
LEMMA WalksAlike ==
  ASSUME NEW e1, NEW e2, NEW D \in SUBSET Databases, Alike(e1, e2, D), NEW h, h \notin D
  PROVE  /\ home_fstype(e1, h) = home_fstype(e2, h)
         /\ \A kind : walk_dot_entries(e1, h, kind) = walk_dot_entries(e2, h, kind)
<1>1. "mounts" \notin D
  BY DEF Databases
<1>2. /\ Collect(e1, "mounts") = Collect(e2, "mounts") /\ Content(e1, h) = Content(e2, h)
      /\ Closed(e1, h) = Closed(e2, h) /\ e1.root = e2.root
  BY <1>1, ReadsAlike DEF Alike
<1>3. home_fstype(e1, h) = home_fstype(e2, h)
  <2> DEFINE Of(ms, home) ==
        LET over == {j \in DOMAIN ms : ms[j].target \in home.path}
        IN  IF over = {} THEN ""
            ELSE ms[CHOOSE j \in over : \A k \in over :
                      ms[k].depth < ms[j].depth \/ (ms[k].depth = ms[j].depth /\ k <= j)].fstype
  <2>1. home_fstype(e1, h) = Of(Collect(e1, "mounts"), Content(e1, h))
    BY DEF home_fstype
  <2>2. home_fstype(e2, h) = Of(Collect(e2, "mounts"), Content(e2, h))
    BY DEF home_fstype
  <2> HIDE DEF Of
  <2> QED BY <1>2, <2>1, <2>2
<1>4. Walked(e1, h) = Walked(e2, h)
  BY <1>2 DEF Walked
<1>5. ASSUME NEW kind PROVE walk_dot_entries(e1, h, kind) = walk_dot_entries(e2, h, kind)
  BY <1>2, <1>4 DEF walk_dot_entries
<1> QED BY <1>3, <1>5

(* The local users and their homes come from passwd and shells. *)
LEMMA LocalAlike ==
  ASSUME NEW e1, NEW e2, NEW D \in SUBSET Databases, Alike(e1, e2, D), HomesApart(e1),
         {"passwd", "shells"} \cap D = {}, Collect(e1, "passwd") # Unavailable
  PROVE  LocalHomes(e1) = LocalHomes(e2) /\ \A u \in LocalHomes(e1) : u.home \notin D
<1>1. interactive_users(e1) = interactive_users(e2)
  BY DatabasesAlike
<1>2. \A u \in interactive_users(e1) : u.home \notin D
  BY DEF HomesApart, interactive_users, Having
<1>3. \A i : i \notin D => /\ Exists(e1, i) = Exists(e2, i) /\ Content(e1, i) = Content(e2, i)
                           /\ home_fstype(e1, i) = home_fstype(e2, i)
  BY ReadsAlike, WalksAlike DEF Alike
<1>4. \A u \in interactive_users(e1) :
        /\ Exists(e1, u.home) = Exists(e2, u.home) /\ Content(e1, u.home) = Content(e2, u.home)
        /\ home_fstype(e1, u.home) = home_fstype(e2, u.home)
  BY <1>2, <1>3
<1>5. LocalHomes(e1) \subseteq interactive_users(e1)
  BY DEF LocalHomes
<1>6. LocalHomes(e1) = LocalHomes(e2)
  BY <1>1, <1>4 DEF LocalHomes
<1> QED BY <1>2, <1>5, <1>6

(* The checks of dot files and directories ask who owns a file once there is a home to walk. *)
LEMMA DotsAlike ==
  ASSUME NEW e1, NEW e2, NEW D \in SUBSET Databases, Alike(e1, e2, D), HomesApart(e1),
         {"passwd", "shells"} \cap D = {},
         (Collect(e1, "passwd") # Unavailable /\ ValidShells(e1) # Unavailable /\ Collect(e1, "mounts") # Unavailable
            /\ LocalHomes(e1) # {}) => "group" \notin D
  PROVE  dot_files(e1) = dot_files(e2) /\ dot_directories(e1) = dot_directories(e2)
<1> DEFINE Ready(e) == ~(ValidShells(e) = Unavailable \/ Collect(e, "passwd") = Unavailable)
           Unmounted(e) == interactive_users(e) # {} /\ Collect(e, "mounts") = Unavailable
           Blocked(e, kind) == \E u \in LocalHomes(e) : walk_dot_entries(e, u.home, kind) = Unavailable
           BadFile(e) == \E u \in LocalHomes(e) : \E t \in walk_dot_entries(e, u.home, "file") :
             \/ t.name \in {".forward", ".rhosts"}
             \/ DotProblem(e, u, t, IF t.name \in {".netrc", ".bash_history"} THEN Mask177 ELSE Mask133)
           BadDir(e) == \E u \in LocalHomes(e) : \E t \in walk_dot_entries(e, u.home, "dir") :
             DotProblem(e, u, t, IF t.name = ".ssh" THEN Mask077 ELSE Mask027)
           Told(e, kind, bad) == IF ~Ready(e) \/ Unmounted(e) \/ Blocked(e, kind) THEN "NOT_ASSESSED" ELSE Verdict(bad)
<1>1. \A e : dot_files(e) = Told(e, "file", BadFile(e))
  BY DEF dot_files, DotVerdict
<1>2. \A e : dot_directories(e) = Told(e, "dir", BadDir(e))
  BY DEF dot_directories, DotVerdict
<1>3. /\ ValidShells(e1) = ValidShells(e2) /\ Collect(e1, "passwd") = Collect(e2, "passwd")
      /\ Collect(e1, "mounts") = Collect(e2, "mounts") /\ interactive_users(e1) = interactive_users(e2)
      /\ \A n : UserName(e1, n) = UserName(e2, n)
  BY DatabasesAlike, ReadsAlike DEF Databases
<1>4. Ready(e1) = Ready(e2) /\ Unmounted(e1) = Unmounted(e2)
  BY <1>3
<1>5. CASE ~Ready(e1)
  BY <1>1, <1>2, <1>4, <1>5
<1>6. CASE Unmounted(e1)
  BY <1>1, <1>2, <1>4, <1>6
<1>7. CASE Ready(e1) /\ ~Unmounted(e1)
  <2>1. LocalHomes(e1) = LocalHomes(e2) /\ \A u \in LocalHomes(e1) : u.home \notin D
    BY <1>7, LocalAlike
  <2>2. \A u \in LocalHomes(e1), kind \in {"file", "dir"} :
          walk_dot_entries(e1, u.home, kind) = walk_dot_entries(e2, u.home, kind)
    BY <2>1, WalksAlike
  <2>3. \A u \in LocalHomes(e1) : \A t, mask : DotProblem(e1, u, t, mask) = DotProblem(e2, u, t, mask)
    <3> SUFFICES ASSUME NEW u \in LocalHomes(e1), NEW t, NEW mask
                 PROVE  DotProblem(e1, u, t, mask) = DotProblem(e2, u, t, mask)
      OBVIOUS
    <3>1. \A n : GroupName(e1, n) = GroupName(e2, n)
      <4>1. LocalHomes(e1) # {} /\ (LocalHomes(e1) # {} => interactive_users(e1) # {})
        BY DEF LocalHomes
      <4>2. "group" \notin D /\ "nss" \notin D
        BY <1>7, <4>1 DEF Databases
      <4> QED BY <4>2, DatabasesAlike
    <3> QED BY <1>3, <3>1 DEF DotProblem
  <2>4. \A kind \in {"file", "dir"} : Blocked(e1, kind) <=> Blocked(e2, kind)
    BY <2>1, <2>2
  <2>5. BadFile(e1) <=> BadFile(e2)
    BY <2>1, <2>2, <2>3
  <2>6. BadDir(e1) <=> BadDir(e2)
    BY <2>1, <2>2, <2>3
  <2> HIDE DEF Ready, Unmounted, Blocked, BadFile, BadDir
  <2>7. Told(e1, "file", BadFile(e1)) = Told(e2, "file", BadFile(e2)) /\ Told(e1, "dir", BadDir(e1)) = Told(e2, "dir", BadDir(e2))
    BY <1>4, <2>4, <2>5, <2>6 DEF Verdict
  <2> HIDE DEF Told
  <2> QED BY <1>1, <1>2, <2>7
<1> QED BY <1>5, <1>6, <1>7

(* A database that was collected is refused to both or to none. *)
LEMMA RaisesAlike ==
  ASSUME NEW e1, NEW e2, NEW D, Alike(e1, e2, D), NEW d, d \notin D
  PROVE  Raises(e1, d) <=> Raises(e2, d)
BY ReadsAlike, DatabasesAlike DEF Raises

(* Databases one after the other, to the first refused. *)
LEMMA ThenHas ==
  ASSUME NEW e, NEW d, NEW more
  PROVE  d \in Then(e, d, more) /\ (~Raises(e, d) => more \subseteq Then(e, d, more))
BY DEF Then

LEMMA ThenAlike ==
  ASSUME NEW e1, NEW e2, NEW d, Raises(e1, d) <=> Raises(e2, d), NEW m1, NEW m2, ~Raises(e1, d) => m1 = m2
  PROVE  Then(e1, d, m1) = Then(e2, d, m2)
BY DEF Then

(* Which databases a provider collects is told by those it collects. *)
LEMMA CollectedStay ==
  ASSUME NEW e1, NEW e2, NEW check, Alike(e1, e2, Databases \ Collected(check, e1)), HomesApart(e1)
  PROVE  Collected(check, e2) = Collected(check, e1)
<1> DEFINE D == Databases \ Collected(check, e1)
<1>1. e1.root = e2.root /\ D \in SUBSET Databases /\ Alike(e1, e2, D)
  BY DEF Alike
<1>2. \A d \in Collected(check, e1) : Raises(e1, d) <=> Raises(e2, d)
  <2> SUFFICES ASSUME NEW d \in Collected(check, e1) PROVE Raises(e1, d) <=> Raises(e2, d)
    OBVIOUS
  <2>1. d \notin D
    OBVIOUS
  <2> HIDE DEF D
  <2> QED BY <1>1, <2>1, RaisesAlike
<1>3. CASE check.type \in {"password_aging", "passwd_groups_exist", "home_directories"}
  <2> DEFINE first == IF check.type = "password_aging" THEN "login_defs"
                      ELSE IF check.type = "passwd_groups_exist" THEN "group" ELSE "shells"
             rest == IF check.type = "password_aging" THEN {"shadow"} ELSE {"passwd"}
  <2>1. \A e : Collected(check, e) = Then(e, first, rest)
    BY <1>3 DEF Collected
  <2> HIDE DEF first, rest
  <2> QED BY <1>2, <2>1, ThenHas, ThenAlike
<1>4. CASE check.type \in {"system_account_shells", "nologin_accounts_locked"}
  <2> DEFINE second == IF check.type = "system_account_shells" THEN "login_defs" ELSE "shadow"
             Rest(e) == Then(e, second, {"passwd"})
  <2>1. \A e : Collected(check, e) = Then(e, "shells", Rest(e))
    BY <1>4 DEF Collected
  <2>2. ~Raises(e1, "shells") => Rest(e1) = Rest(e2)
    <3> HIDE DEF second
    <3>1. ~Raises(e1, "shells") => second \in Collected(check, e1)
      BY <2>1, ThenHas
    <3> QED BY <1>2, <3>1, ThenAlike
  <2>3. "shells" \in Collected(check, e1)
    BY <2>1, ThenHas
  <2> HIDE DEF Rest
  <2> QED BY <1>2, <2>1, <2>2, <2>3, ThenAlike
<1>5. CASE check.type = "shadow_group_empty"
  <2> DEFINE Rest(e) == IF FirstNamed(Collect(e, "group"), "shadow") = Absent THEN {} ELSE {"passwd"}
  <2>1. \A e : Collected(check, e) = Then(e, "group", Rest(e))
    BY <1>5 DEF Collected
  <2>2. "group" \in Collected(check, e1)
    BY <2>1, ThenHas
  <2>3. "group" \notin D
    BY <2>2
  <2>4. Collect(e1, "group") = Collect(e2, "group")
    <3> HIDE DEF D
    <3> QED BY <1>1, <2>3, ReadsAlike
  <2>5. Rest(e1) = Rest(e2)
    BY <2>4
  <2> HIDE DEF Rest
  <2> QED BY <1>2, <2>1, <2>2, <2>5, ThenAlike
<1>6. CASE check.type = "root_path"
  <2> DEFINE path(e) == Then(e, "passwd", {"login_defs"})
  <2>1. \A e : Collected(check, e) = IF e.root THEN path(e) ELSE {}
    BY <1>6 DEF Collected
  <2>2. e1.root => "passwd" \in Collected(check, e1)
    BY <2>1, ThenHas
  <2>3. e1.root => path(e1) = path(e2)
    BY <1>2, <2>2, ThenAlike
  <2> HIDE DEF path
  <2> QED BY <1>1, <2>1, <2>3
<1>7. CASE check.type \in {"dot_files", "dot_directories"}
  <2> DEFINE Group(e) == IF Collect(e, "mounts") # Unavailable /\ LocalHomes(e) # {} THEN {"group"} ELSE {}
             Rest(e) == Then(e, "passwd", Group(e))
  <2>1. \A e : Collected(check, e) = Then(e, "shells", Rest(e))
    BY <1>7 DEF Collected, DotReads
  <2>2. "shells" \in Collected(check, e1) /\ (~Raises(e1, "shells") => "passwd" \in Collected(check, e1))
    BY <2>1, ThenHas
  <2>3. (~Raises(e1, "shells") /\ ~Raises(e1, "passwd")) => Group(e1) = Group(e2)
    <3> SUFFICES ASSUME ~Raises(e1, "shells"), ~Raises(e1, "passwd") PROVE Group(e1) = Group(e2)
      OBVIOUS
    <3>1. {"passwd", "shells"} \cap D = {} /\ "mounts" \notin D
      BY <2>2 DEF Databases
    <3> HIDE DEF D
    <3>2. Collect(e1, "passwd") # Unavailable /\ Collect(e1, "mounts") = Collect(e2, "mounts")
      BY <1>1, <3>1, ReadsAlike DEF Raises
    <3>3. LocalHomes(e1) = LocalHomes(e2)
      BY <1>1, <3>1, <3>2, LocalAlike
    <3> QED BY <3>2, <3>3
  <2> HIDE DEF Group
  <2>4. ~Raises(e1, "shells") => Rest(e1) = Rest(e2)
    BY <1>2, <2>2, <2>3, ThenAlike
  <2> HIDE DEF Rest
  <2> QED BY <1>2, <2>1, <2>2, <2>4, ThenAlike
<1>8. CASE check.type = "inactive_lock"
  <2>1. useradd_inactive(e1) = useradd_inactive(e2)
    BY <1>1, SettingsAlike
  <2> QED BY <1>8, <2>1 DEF Collected
<1>9. CASE check.type = "default_umask"
  <2>1. Glob(e1, "profile_d") = Glob(e2, "profile_d") /\ ReadText(e1, "profile") = ReadText(e2, "profile")
    BY <1>1, SettingsAlike
  <2> QED BY <1>9, <2>1 DEF Collected
<1>10. CASE check.type \notin {"password_aging", "passwd_groups_exist", "home_directories", "system_account_shells",
                               "nologin_accounts_locked", "shadow_group_empty", "root_path", "dot_files",
                               "dot_directories", "inactive_lock", "default_umask"}
  BY <1>10 DEF Collected
<1> QED BY <1>3, <1>4, <1>5, <1>6, <1>7, <1>8, <1>9, <1>10

(* A refused database is one a verdict is withheld for. *)
LEMMA RefusedWithholds ==
  ASSUME NEW e, NEW x
  PROVE  /\ Raises(e, "login_defs") => password_aging(e, x) = "NOT_ASSESSED" /\ system_account_shells(e) = "NOT_ASSESSED"
         /\ Raises(e, "shells") => /\ system_account_shells(e) = "NOT_ASSESSED"
                                   /\ nologin_accounts_locked(e) = "NOT_ASSESSED"
                                   /\ home_directories(e) = "NOT_ASSESSED"
                                   /\ dot_files(e) = "NOT_ASSESSED" /\ dot_directories(e) = "NOT_ASSESSED"
         /\ Raises(e, "shadow") => nologin_accounts_locked(e) = "NOT_ASSESSED"
         /\ Raises(e, "group") => passwd_groups_exist(e) = "NOT_ASSESSED" /\ shadow_group_empty(e) = "NOT_ASSESSED"
         /\ Raises(e, "passwd") => /\ root_path(e) = "NOT_ASSESSED"
                                   /\ dot_files(e) = "NOT_ASSESSED" /\ dot_directories(e) = "NOT_ASSESSED"
<1> DEFINE defs == LoginDefs(e) = Unavailable
           shells == ValidShells(e) = Unavailable
           shadow == Collect(e, "shadow") = Unavailable
           group == Collect(e, "group") = Unavailable
           passwd == Collect(e, "passwd") = Unavailable
<1>1. /\ Raises(e, "login_defs") <=> defs
      /\ Raises(e, "shells") <=> shells
      /\ Raises(e, "shadow") <=> shadow
      /\ Raises(e, "group") <=> group
      /\ Raises(e, "passwd") <=> passwd
  BY DEF Raises
<1>2. \A b, v : Needs(<<Unavailable, b>>, v) = "NOT_ASSESSED"
  <2> TAKE b, v
  <2>1. 1 \in DOMAIN <<Unavailable, b>> /\ <<Unavailable, b>>[1] = Unavailable
    OBVIOUS
  <2> QED BY <2>1 DEF Needs
<1>3. \A b, c, v : /\ Needs(<<Unavailable, b, c>>, v) = "NOT_ASSESSED"
                  /\ Needs(<<b, Unavailable, c>>, v) = "NOT_ASSESSED"
  <2> TAKE b, c, v
  <2>1. 1 \in DOMAIN <<Unavailable, b, c>> /\ <<Unavailable, b, c>>[1] = Unavailable
    OBVIOUS
  <2>2. 2 \in DOMAIN <<b, Unavailable, c>> /\ <<b, Unavailable, c>>[2] = Unavailable
    OBVIOUS
  <2> QED BY <2>1, <2>2 DEF Needs
<1> DEFINE Loose1 == Verdict(\E y \in ToSet(Collect(e, "passwd")) :
                              /\ y.name \notin Exempt
                              /\ y.uid < UidMin(e) \/ y.uid = 65534
                              /\ y.shell \in ValidShells(e))
<1>0. system_account_shells(e) = Needs(<<ValidShells(e), LoginDefs(e), Collect(e, "passwd")>>, Loose1)
  BY DEF system_account_shells
<1> HIDE DEF Loose1
<1>4. defs => password_aging(e, x) = "NOT_ASSESSED" /\ system_account_shells(e) = "NOT_ASSESSED"
  <2>1. defs => password_aging(e, x) = "NOT_ASSESSED"
    BY <1>2 DEF password_aging
  <2>2. defs => system_account_shells(e) = "NOT_ASSESSED"
    BY <1>0, <1>3
  <2> QED BY <2>1, <2>2
<1>5. shells => system_account_shells(e) = "NOT_ASSESSED" /\ nologin_accounts_locked(e) = "NOT_ASSESSED"
  <2>1. shells => nologin_accounts_locked(e) = "NOT_ASSESSED"
    BY <1>3 DEF nologin_accounts_locked
  <2> QED BY <1>0, <1>3, <2>1
<1>6. shells => home_directories(e) = "NOT_ASSESSED"
  BY DEF home_directories
<1>7. shells \/ passwd => dot_files(e) = "NOT_ASSESSED" /\ dot_directories(e) = "NOT_ASSESSED"
  BY DEF dot_files, dot_directories, DotVerdict
<1>8. shadow => nologin_accounts_locked(e) = "NOT_ASSESSED"
  BY <1>3 DEF nologin_accounts_locked
<1>9. group => passwd_groups_exist(e) = "NOT_ASSESSED" /\ shadow_group_empty(e) = "NOT_ASSESSED"
  BY <1>2 DEF passwd_groups_exist, shadow_group_empty
<1>10. passwd => root_path(e) = "NOT_ASSESSED"
  BY DEF root_path, root_login_path
<1> HIDE DEF defs, shells, shadow, group, passwd
<1> QED BY <1>1, <1>4, <1>5, <1>6, <1>7, <1>8, <1>9, <1>10

(* A verdict is told by the databases its check collects: none reads one past the cache, and *)
(* a refused one withholds it.                                                               *)
LEMMA AccountAlike ==
  ASSUME NEW e1, NEW e2, NEW check, AccountCheck(check), check.type # "nologin_not_in_shells",
         Alike(e1, e2, Databases \ Collected(check, e1)), HomesApart(e1), PathApart(e1)
  PROVE  AccountVerdict(check, e1) = AccountVerdict(check, e2)
<1> DEFINE C == Collected(check, e1)
           D == Databases \ C
<1>1. D \in SUBSET Databases /\ Alike(e1, e2, D)
  OBVIOUS
<1>2. \A d \in C : d \notin D
  OBVIOUS
<1> HIDE DEF D
<1>3. \A d \in C : Raises(e1, d) <=> Raises(e2, d)
  BY <1>1, <1>2, RaisesAlike
<1>4. CASE check.type = "password_aging"
  <2>1. "login_defs" \in C /\ (~Raises(e1, "login_defs") => "shadow" \in C)
    BY <1>4, ThenHas DEF Collected
  <2>2. password_aging(e1, check.rule) = password_aging(e2, check.rule)
    BY <1>1, <1>2, <1>3, <2>1, PolicyAlike, RefusedWithholds
  <2> QED BY <1>4, <2>2 DEF AccountVerdict
<1>5. CASE check.type = "default_umask"
  <2>1. ReadText(e1, "profile") # Unavailable /\ Glob(e1, "profile_d") # Unavailable => "login_defs" \in C
    BY <1>5 DEF Collected
  <2>2. ReadText(e1, "profile") = ReadText(e2, "profile") /\ Glob(e1, "profile_d") = Glob(e2, "profile_d")
    BY <1>1, SettingsAlike
  <2>3. CASE ReadText(e1, "profile") = Unavailable \/ Glob(e1, "profile_d") = Unavailable
    <3>1. ASSUME NEW e, ReadText(e, "profile") = Unavailable \/ Glob(e, "profile_d") = Unavailable
          PROVE  default_umask(e) = "NOT_ASSESSED"
      <4> DEFINE reads == <<Glob(e, "profile_d"), ReadText(e, "profile"), LoginDefs(e)>>
      <4>1. {1, 2} \subseteq DOMAIN reads /\ reads[1] = Glob(e, "profile_d") /\ reads[2] = ReadText(e, "profile")
        OBVIOUS
      <4>2. \E j \in DOMAIN reads : reads[j] = Unavailable
        BY <3>1, <4>1
      <4>3. \A v : Needs(reads, v) = "NOT_ASSESSED"
        BY <4>2 DEF Needs
      <4> QED BY <4>3 DEF default_umask
    <3> QED BY <1>5, <2>2, <2>3, <3>1 DEF AccountVerdict
  <2>4. CASE "login_defs" \notin D
    BY <1>1, <1>5, <2>4, PolicyAlike DEF AccountVerdict
  <2> QED BY <1>2, <2>1, <2>3, <2>4
<1>6. CASE check.type = "inactive_lock"
  <2>1. useradd_inactive(e1) # Unavailable => "shadow" \in C
    BY <1>6 DEF Collected
  <2>2. useradd_inactive(e1) = useradd_inactive(e2)
    BY <1>1, SettingsAlike
  <2>3. CASE useradd_inactive(e1) = Unavailable
    <3>1. ASSUME NEW e, useradd_inactive(e) = Unavailable PROVE inactive_lock(e, check.rule) = "NOT_ASSESSED"
      <4>1. 1 \in DOMAIN <<useradd_inactive(e), Collect(e, "shadow")>>
            /\ <<useradd_inactive(e), Collect(e, "shadow")>>[1] = Unavailable
        BY <3>1
      <4> QED BY <4>1 DEF inactive_lock, Needs
    <3> QED BY <1>6, <2>2, <2>3, <3>1 DEF AccountVerdict
  <2>4. CASE "shadow" \notin D
    BY <1>1, <1>6, <2>4, PolicyAlike DEF AccountVerdict
  <2> QED BY <1>2, <2>1, <2>3, <2>4
<1>7. CASE check.type \in {"encrypt_method", "password_change_past", "root_umask", "shell_timeout"}
  <2>1. /\ check.type = "encrypt_method" => "login_defs" \in C
        /\ check.type = "password_change_past" => "shadow" \in C
    BY DEF Collected
  <2> QED BY <1>1, <1>2, <1>7, <2>1, PolicyAlike DEF AccountVerdict
<1>8. CASE check.type \in {"uid_zero", "gid_zero_users", "shadowed_passwords", "gid_zero_groups", "root_access",
                           "shadow_not_empty", "duplicates"}
  <2>1. /\ check.type \in {"uid_zero", "gid_zero_users", "shadowed_passwords"} => "passwd" \in C
        /\ check.type = "gid_zero_groups" => "group" \in C
        /\ check.type \in {"root_access", "shadow_not_empty"} => "shadow" \in C
        /\ check.type = "duplicates" => (IF check.kind \in {"uid", "user"} THEN "passwd" ELSE "group") \in C
    BY DEF Collected
  <2> HIDE DEF C
  <2> QED BY <1>1, <1>2, <1>8, <2>1, EntriesAlike DEF AccountVerdict
<1>9. CASE check.type = "passwd_groups_exist"
  <2>1. "group" \in C /\ (~Raises(e1, "group") => "passwd" \in C)
    BY <1>9, ThenHas DEF Collected
  <2>2. passwd_groups_exist(e1) = passwd_groups_exist(e2)
    BY <1>1, <1>2, <1>3, <2>1, EntriesAlike, RefusedWithholds
  <2> QED BY <1>9, <2>2 DEF AccountVerdict
<1>10. CASE check.type = "system_account_shells"
  <2> DEFINE Rest == Then(e1, "login_defs", {"passwd"})
  <2>1. C = Then(e1, "shells", Rest)
    BY <1>10 DEF Collected
  <2>2. "login_defs" \in Rest /\ (~Raises(e1, "login_defs") => "passwd" \in Rest)
    BY ThenHas
  <2> HIDE DEF Rest, C
  <2>3. /\ "shells" \in C
        /\ ~Raises(e1, "shells") => "login_defs" \in C
        /\ (~Raises(e1, "shells") /\ ~Raises(e1, "login_defs")) => "passwd" \in C
    BY <2>1, <2>2, ThenHas
  <2>4. system_account_shells(e1) = system_account_shells(e2)
    BY <1>1, <1>2, <1>3, <2>3, EntriesAlike, RefusedWithholds
  <2> QED BY <1>10, <2>4 DEF AccountVerdict
<1>11. CASE check.type = "nologin_accounts_locked"
  <2> DEFINE Rest == Then(e1, "shadow", {"passwd"})
  <2>1. C = Then(e1, "shells", Rest)
    BY <1>11 DEF Collected
  <2>2. "shadow" \in Rest /\ (~Raises(e1, "shadow") => "passwd" \in Rest)
    BY ThenHas
  <2> HIDE DEF Rest, C
  <2>3. /\ "shells" \in C
        /\ ~Raises(e1, "shells") => "shadow" \in C
        /\ (~Raises(e1, "shells") /\ ~Raises(e1, "shadow")) => "passwd" \in C
    BY <2>1, <2>2, ThenHas
  <2>4. nologin_accounts_locked(e1) = nologin_accounts_locked(e2)
    BY <1>1, <1>2, <1>3, <2>3, EntriesAlike, RefusedWithholds
  <2> QED BY <1>11, <2>4 DEF AccountVerdict
<1>12. CASE check.type = "root_path"
  <2>1. e1.root => "passwd" \in C /\ (~Raises(e1, "passwd") => "login_defs" \in C)
    BY <1>12, ThenHas DEF Collected
  <2>2. CASE e1.root /\ Raises(e1, "passwd")
    BY <1>3, <1>12, <2>1, <2>2, RefusedWithholds DEF AccountVerdict
  <2>3. CASE e1.root => {"passwd", "login_defs"} \cap D = {}
    <3>1. root_path(e1) = root_path(e2)
      BY <1>1, <2>3, RootPathAlike
    <3> QED BY <1>12, <3>1 DEF AccountVerdict
  <2> QED BY <1>2, <2>1, <2>2, <2>3
<1>13. CASE check.type = "shadow_group_empty"
  <2> DEFINE Rest == IF FirstNamed(Collect(e1, "group"), "shadow") = Absent THEN {} ELSE {"passwd"}
  <2>1. C = Then(e1, "group", Rest)
    BY <1>13 DEF Collected
  <2>2. "group" \in C /\ (~Raises(e1, "group") => Rest \subseteq C)
    BY <2>1, ThenHas
  <2>3. CASE Raises(e1, "group")
    BY <1>3, <1>13, <2>2, <2>3, RefusedWithholds DEF AccountVerdict
  <2>4. CASE ~Raises(e1, "group")
    <3>1. "group" \notin D /\ (FirstNamed(Collect(e1, "group"), "shadow") # Absent => "passwd" \notin D)
      BY <1>2, <2>2, <2>4
    <3>2. shadow_group_empty(e1) = shadow_group_empty(e2)
      BY <1>1, <3>1, ShadowGroupAlike
    <3> QED BY <1>13, <3>2 DEF AccountVerdict
  <2> QED BY <2>3, <2>4
<1>14. CASE check.type = "home_directories"
  <2>1. "shells" \in C /\ (~Raises(e1, "shells") => "passwd" \in C)
    BY <1>14, ThenHas DEF Collected
  <2>2. home_directories(e1) = home_directories(e2)
    BY <1>1, <1>2, <1>3, <2>1, HomesAlike, RefusedWithholds
  <2> QED BY <1>14, <2>2 DEF AccountVerdict
<1>15. CASE check.type \in {"dot_files", "dot_directories"}
  <2> DEFINE Group == IF Collect(e1, "mounts") # Unavailable /\ LocalHomes(e1) # {} THEN {"group"} ELSE {}
             Rest == Then(e1, "passwd", Group)
  <2>1. C = Then(e1, "shells", Rest)
    BY <1>15 DEF Collected, DotReads
  <2>2. "passwd" \in Rest /\ (~Raises(e1, "passwd") => Group \subseteq Rest)
    BY ThenHas
  <2> HIDE DEF Rest, Group, C
  <2>3. /\ "shells" \in C
        /\ ~Raises(e1, "shells") => "passwd" \in C
        /\ (~Raises(e1, "shells") /\ ~Raises(e1, "passwd")) => Group \subseteq C
    BY <2>1, <2>2, ThenHas
  <2>4. CASE Raises(e1, "shells") \/ Raises(e1, "passwd")
    <3>1. Raises(e2, "shells") \/ Raises(e2, "passwd")
      BY <1>3, <2>3, <2>4
    <3> QED BY <1>15, <2>4, <3>1, RefusedWithholds DEF AccountVerdict
  <2>5. CASE ~Raises(e1, "shells") /\ ~Raises(e1, "passwd")
    <3>1. {"passwd", "shells"} \cap D = {}
      BY <1>2, <2>3, <2>5
    <3>2. Collect(e1, "mounts") # Unavailable /\ LocalHomes(e1) # {} => "group" \notin D
      BY <1>2, <2>3, <2>5 DEF Group
    <3>3. dot_files(e1) = dot_files(e2) /\ dot_directories(e1) = dot_directories(e2)
      BY <1>1, <3>1, <3>2, DotsAlike
    <3> QED BY <1>15, <3>3 DEF AccountVerdict
  <2> QED BY <2>4, <2>5
<1> QED BY <1>4, <1>5, <1>6, <1>7, <1>8, <1>9, <1>10, <1>11, <1>12, <1>13, <1>14, <1>15 DEF AccountCheck, AccountTypes

(* Whether the conditions of a control hold is no matter of the databases. *)
LEMMA MetAlike ==
  ASSUME NEW e1, NEW e2, NEW check, AccountCheck(check), NEW D \in SUBSET Databases, Alike(e1, e2, D)
  PROVE  Met(check, e1) <=> Met(check, e2)
BY ConditionsAlike DEF Met, AccountCheck

(* Which databases a control collects is told by those it collects. *)
LEMMA ReadsStay ==
  ASSUME NEW e1, NEW e2, NEW check, AccountCheck(check), Alike(e1, e2, Databases \ Reads(check, e1)), HomesApart(e1)
  PROVE  Reads(check, e2) = Reads(check, e1)
<1>1. Met(check, e1) <=> Met(check, e2)
  <2>1. Databases \ Reads(check, e1) \in SUBSET Databases
    OBVIOUS
  <2> QED BY <2>1, MetAlike
<1>2. CASE Met(check, e1)
  BY <1>1, <1>2, CollectedStay DEF Reads
<1> QED BY <1>1, <1>2 DEF Reads

(* Min of a set of numbers is the least of them. *)
LEMMA MinIsIn ==
  ASSUME NEW n \in Nat, NEW S \in SUBSET (1 .. n), S # {}
  PROVE  Min(S) \in S /\ \A m \in S : Min(S) <= m
<1> DEFINE Up1 == {1 .. m : m \in S}
<1>1. IsWellFoundedOn(StrictSubsetOrdering(1 .. n), SUBSET (1 .. n))
  <2>1. IsFiniteSet(1 .. n)
    BY FS_Interval
  <2>2. FiniteSubsetsOf(1 .. n) = SUBSET (1 .. n)
    BY <2>1, FS_FiniteSubsetsOfFinite
  <2>3. IsWellFoundedOn(StrictSubsetOrdering(1 .. n), FiniteSubsetsOf(1 .. n))
    BY FS_StrictSubsetOrderingWellFounded
  <2> QED BY <2>2, <2>3
<1>2. Up1 \subseteq SUBSET (1 .. n) /\ Up1 # {}
  <2>1. ASSUME NEW m \in S PROVE 1 .. m \subseteq 1 .. n
    OBVIOUS
  <2>2. \A d \in Up1 : \E m \in S : d = 1 .. m
    OBVIOUS
  <2>3. Up1 # {}
    OBVIOUS
  <2> HIDE DEF Up1
  <2> QED BY <2>1, <2>2, <2>3
<1>3. PICK c \in Up1 : \A d \in Up1 : <<d, c>> \notin StrictSubsetOrdering(1 .. n)
  BY <1>1, <1>2, WFMin
<1>4. PICK x \in S : c = 1 .. x
  OBVIOUS
<1>5. ASSUME NEW y \in S, y < x PROVE FALSE
  <2>1. 1 .. y \in Up1 /\ (1 .. y) \subseteq c /\ 1 .. y # c /\ {1 .. y, c} \subseteq SUBSET (1 .. n)
    BY <1>2, <1>4, <1>5
  <2> QED BY <1>3, <2>1 DEF StrictSubsetOrdering
<1>6. \A y \in S : x <= y
  BY <1>5
<1> QED BY <1>6 DEF Min

(* It is the only one below all others. *)
LEMMA MinIs ==
  ASSUME NEW n \in Nat, NEW S \in SUBSET (1 .. n), NEW m \in S, \A k \in S : m <= k
  PROVE  Min(S) = m
<1> DEFINE least == Min(S)
<1>1. least \in S /\ \A k \in S : least <= k
  <2>1. S # {}
    OBVIOUS
  <2> QED BY <2>1, MinIsIn
<1> HIDE DEF least
<1>2. least \in Int /\ m \in Int /\ least <= m /\ m <= least
  BY <1>1
<1>3. least = m
  BY <1>2
<1> QED BY <1>3 DEF least

(* VerdictOf where the family is accounts; no variable occurs in it. *)
Judgement(check, e) ==
  LET conditions == IF "applies_if" \in DOMAIN check THEN check.applies_if ELSE <<>>
      j == SelectInSeq(conditions, LAMBDA c : Applies(c, e) # TRUE)
  IN  IF j = 0 THEN AccountVerdict(check, e) ELSE If(Applies(conditions[j], e), "")

(* In this family it is the verdict of the engine. *)
LEMMA VerdictIsJudgement ==
  ASSUME family = "accounts", NEW check, NEW e
  PROVE  VerdictOf(check, e) = Judgement(check, e)
BY DEF VerdictOf, Provide, Judgement

(* The same of a control with its conditions: they are evaluated to the same one. *)
LEMMA VerdictAlike ==
  ASSUME NEW e1, NEW e2, NEW check, AccountCheck(check), check.type # "nologin_not_in_shells",
         Alike(e1, e2, Databases \ Reads(check, e1)), HomesApart(e1), PathApart(e1)
  PROVE  Judgement(check, e1) = Judgement(check, e2)
<1> DEFINE conditions == IF "applies_if" \in DOMAIN check THEN check.applies_if ELSE <<>>
           Failing(e) == {j \in 1 .. Len(conditions) : Applies(conditions[j], e) # TRUE}
           First(e) == SelectInSeq(conditions, LAMBDA c : Applies(c, e) # TRUE)
<1>1. Met(check, e1) => AccountVerdict(check, e1) = AccountVerdict(check, e2)
  BY AccountAlike DEF Reads
<1>2. \A j \in 1 .. Len(conditions) : Applies(conditions[j], e1) = Applies(conditions[j], e2)
  <2>1. \A j \in 1 .. Len(conditions) : AccountCondition(conditions[j])
    BY DEF AccountCheck
  <2>2. Databases \ Reads(check, e1) \in SUBSET Databases
    OBVIOUS
  <2>3. \A c : AccountCondition(c) => Applies(c, e1) = Applies(c, e2)
    BY <2>2, ConditionsAlike
  <2> HIDE DEF conditions
  <2> QED BY <2>1, <2>3
<1>3. Failing(e1) = Failing(e2)
  BY <1>2
<1>4. /\ First(e1) = IF Failing(e1) # {} THEN Min(Failing(e1)) ELSE 0
      /\ First(e2) = IF Failing(e2) # {} THEN Min(Failing(e2)) ELSE 0
  BY DEF SelectInSeq
<1>5. Len(conditions) \in Nat
  BY DEF AccountCheck
<1>6. Failing(e1) \in SUBSET (1 .. Len(conditions))
  OBVIOUS
<1>7. Judgement(check, e1) = IF First(e1) = 0 THEN AccountVerdict(check, e1) ELSE If(Applies(conditions[First(e1)], e1), "")
  BY DEF Judgement
<1>8. Judgement(check, e2) = IF First(e2) = 0 THEN AccountVerdict(check, e2) ELSE If(Applies(conditions[First(e2)], e2), "")
  BY DEF Judgement
<1> HIDE DEF Failing, First, conditions
<1>9. Failing(e1) # {} => Min(Failing(e1)) \in Failing(e1)
  BY <1>5, <1>6, MinIsIn
<1>10. First(e1) = First(e2) /\ (First(e1) # 0 => First(e1) \in 1 .. Len(conditions))
  BY <1>3, <1>4, <1>6, <1>9
<1>11. CASE First(e1) = 0
  <2>1. Failing(e1) = {}
    BY <1>4, <1>6, <1>9, <1>11
  <2>2. Met(check, e1)
    BY <2>1 DEF Met, Failing, conditions
  <2> QED BY <1>1, <1>7, <1>8, <1>10, <1>11, <2>2
<1>12. CASE First(e1) # 0
  <2>1. PICK j \in 1 .. Len(conditions) : j = First(e1) /\ j = First(e2) /\ j # 0
    BY <1>10, <1>12
  <2>2. Applies(conditions[j], e1) = Applies(conditions[j], e2)
    BY <1>2
  <2>3. /\ Judgement(check, e1) = If(Applies(conditions[j], e1), "")
        /\ Judgement(check, e2) = If(Applies(conditions[j], e2), "")
    BY <1>7, <1>8, <2>1
  <2> QED BY <2>2, <2>3
<1> QED BY <1>11, <1>12

(* The verdict of the j-th control is the one of what has been collected, which is all it reads. *)
ToldNow(j) ==
  LET check == Checks["accounts"][j] IN
  /\ Reads(check, View) \subseteq DOMAIN cache
  /\ check.type # "nologin_not_in_shells" => verdicts[j] = Judgement(check, View)

(* What the cache holds was on the host before or is there now, and each verdict given is the one of this view. *)
AccountInv ==
  family = "accounts" =>
    /\ AccountHost(host) /\ AccountHost(before)
    /\ DOMAIN cache \subseteq Databases
    /\ \A d \in DOMAIN cache : cache[d] \in {before[d], host[d]}
    /\ \E S : verdicts \in Seq(S)
    /\ Len(verdicts) <= Len(Checks["accounts"])
    /\ \A j \in 1 .. Len(verdicts) : ToldNow(j)

(* What a view shows of an object: what was collected, else what the host says. *)
LEMMA Contents ==
  ASSUME NEW h, NEW c, NEW r, NEW i
  PROVE  Content(ViewOf(h, c, r), i) =
           IF c # <<>> /\ i \in DOMAIN c THEN c[i] ELSE IF i \in DOMAIN h THEN h[i] ELSE Absent
<1> DEFINE e == ViewOf(h, c, r)
<1>1. e.val = IF c = <<>> THEN h ELSE Altered(h, c)
  BY DEF ViewOf
<1>2. DOMAIN Altered(h, c) = DOMAIN h \cup DOMAIN c
  BY DEF Altered
<1>3. \A k \in DOMAIN h \cup DOMAIN c : Altered(h, c)[k] = IF k \in DOMAIN c THEN c[k] ELSE h[k]
  BY DEF Altered
<1> QED BY <1>1, <1>2, <1>3 DEF Content

(* Nothing is collected at first. *)
LEMMA EmptyDomain == DOMAIN <<>> = {}
OBVIOUS

(* The view of the audit. *)
LEMMA ViewContents ==
  ASSUME NEW i
  PROVE  Content(View, i) = IF i \in DOMAIN cache THEN cache[i] ELSE IF i \in DOMAIN host THEN host[i] ELSE Absent
BY Contents, EmptyDomain DEF View

(* The homes and the directories of the PATH that the audit sees are no databases. *)
LEMMA ViewsApart ==
  ASSUME family = "accounts", AccountInv
  PROVE  HomesApart(View) /\ PathApart(View)
<1>1. Content(View, "rootshell") = host.rootshell
  BY ViewContents DEF AccountInv, AccountHost, Databases
<1>2. PathApart(View)
  <2>1. View.root => Run(View, "rootshell").out = host.rootshell.root.out
    BY <1>1 DEF Run
  <2> QED BY <2>1 DEF PathApart, AccountInv, AccountHost
<1>3. Content(View, "passwd") \in {before.passwd, host.passwd}
  BY ViewContents DEF AccountInv, AccountHost, Databases
<1>4. Collect(View, "passwd") # Unavailable =>
        Collect(View, "passwd") = Content(View, "passwd") /\ Content(View, "passwd") # Absent
  BY DEF Collect, ReadText
<1> QED BY <1>2, <1>3, <1>4 DEF HomesApart, AccountInv, AccountHost

(* To agree on more is to agree on less. *)
LEMMA AlikeWeaker ==
  ASSUME NEW e1, NEW e2, NEW D, NEW E, D \subseteq E, Alike(e1, e2, D)
  PROVE  Alike(e1, e2, E)
BY DEF Alike

(* A verdict given stays the one of any host that shows the collected databases as the audit did. *)
LEMMA ToldStays ==
  ASSUME family = "accounts", AccountInv, AccountsAssumption, family \in Families,
         NEW j \in 1 .. Len(verdicts), NEW e, Alike(View, e, Databases \ DOMAIN cache)
  PROVE  LET check == Checks["accounts"][j] IN
         /\ Reads(check, e) \subseteq DOMAIN cache
         /\ check.type # "nologin_not_in_shells" => verdicts[j] = Judgement(check, e)
<1> DEFINE check == Checks["accounts"][j]
<1>1. Reads(check, View) \subseteq DOMAIN cache
  BY DEF AccountInv, ToldNow
<1>2. Alike(View, e, Databases \ Reads(check, View))
  BY <1>1, AlikeWeaker
<1>3. HomesApart(View) /\ PathApart(View)
  BY ViewsApart
<1>4. j \in DOMAIN Checks["accounts"]
  BY DEF AccountInv, AccountsAssumption
<1>5. AccountCheck(check)
  BY <1>4 DEF AccountsAssumption
<1>6. Reads(check, e) = Reads(check, View)
  BY <1>2, <1>3, <1>5, ReadsStay
<1>7. check.type # "nologin_not_in_shells" => Judgement(check, e) = Judgement(check, View)
  BY <1>2, <1>3, <1>5, VerdictAlike
<1>8. check.type # "nologin_not_in_shells" => verdicts[j] = Judgement(check, View)
  BY DEF AccountInv, ToldNow
<1> QED BY <1>1, <1>6, <1>7, <1>8

(* The snapshot is the cache: stale are the databases collected before the edit. *)
LEMMA AccountImplies ==
  ASSUME AccountsAssumption, family \in Families, AccountInv
  PROVE  OneSnapshot
<1> SUFFICES ASSUME family = "accounts"
             PROVE  \E stale \in SUBSET {d \in Databases : before[d] # host[d]} :
                      \A j \in DOMAIN verdicts :
                        \/ Checks[family][j].type = "nologin_not_in_shells"
                        \/ verdicts[j] = VerdictOf(Checks[family][j],
                             ViewOf(Altered(host, [d \in stale |-> before[d]]), <<>>, root))
  BY DEF OneSnapshot
<1> DEFINE stale == {d \in DOMAIN cache : cache[d] # host[d]}
           seen == Altered(host, [d \in stale |-> before[d]])
           e == ViewOf(seen, <<>>, root)
<1>1. stale \in SUBSET {d \in Databases : before[d] # host[d]} /\ \A d \in stale : cache[d] = before[d]
  BY DEF AccountInv
<1>2. DOMAIN cache \subseteq DOMAIN host
  BY DEF AccountInv, AccountHost
<1>3. DOMAIN seen = DOMAIN host \cup stale /\ \A d \in DOMAIN seen : seen[d] = IF d \in stale THEN before[d] ELSE host[d]
  BY DEF Altered
<1>4. ASSUME NEW i PROVE Content(e, i) = Content(View, i)
  <2>1. Content(e, i) = IF i \in DOMAIN seen THEN seen[i] ELSE Absent
    BY Contents, EmptyDomain
  <2> HIDE DEF seen, e
  <2> QED BY <1>1, <1>2, <1>3, <2>1, ViewContents
<1>5. e.root = View.root /\ e.denied = View.denied /\ e.hidden = View.hidden
  BY DEF View, ViewOf
<1>6. Alike(View, e, Databases \ DOMAIN cache)
  BY <1>4, <1>5 DEF Alike
<1>7. DOMAIN verdicts = 1 .. Len(verdicts)
  BY DEF AccountInv
<1>8. ASSUME NEW j \in DOMAIN verdicts
      PROVE  \/ Checks[family][j].type = "nologin_not_in_shells"
             \/ verdicts[j] = VerdictOf(Checks[family][j], e)
  <2> HIDE DEF e
  <2>1. \/ Checks[family][j].type = "nologin_not_in_shells"
        \/ verdicts[j] = Judgement(Checks[family][j], e)
    BY <1>6, <1>7, ToldStays
  <2> QED BY <2>1, VerdictIsJudgement
<1> QED
  <2> HIDE DEF stale
  <2> QED BY <1>1, <1>8

(* Nothing is collected and nothing judged at first. *)
LEMMA AccountInit == AccountsAssumption /\ Init => AccountInv
<1> SUFFICES ASSUME AccountsAssumption, Init, family = "accounts" PROVE AccountInv
  BY DEF AccountInv
<1>1. AccountHost(host) /\ before = host /\ Len(Checks["accounts"]) \in Nat
  BY DEF Init, AccountsAssumption
<1>2. DOMAIN cache = {} /\ verdicts = <<>>
  BY EmptyDomain DEF Init
<1>3. verdicts \in Seq({}) /\ Len(verdicts) = 0 /\ 1 .. Len(verdicts) = {}
  BY <1>2
<1>4. Len(verdicts) <= Len(Checks["accounts"])
  BY <1>1, <1>3
<1> QED
  <2>1. \A j \in 1 .. Len(verdicts) : ToldNow(j)
    BY <1>3
  <2>2. \E S : verdicts \in Seq(S)
    BY <1>3
  <2>3. DOMAIN cache \subseteq Databases /\ \A d \in DOMAIN cache : cache[d] \in {before[d], host[d]}
    BY <1>2
  <2> QED BY <1>1, <1>4, <2>1, <2>2, <2>3 DEF AccountInv

(* An edit changes only databases, and no verdict given depends on one not collected. *)
LEMMA AccountEdit == AccountsAssumption /\ family \in Families /\ AccountInv /\ Edit => AccountInv'
<1> SUFFICES ASSUME AccountsAssumption, family \in Families, AccountInv, Edit, family = "accounts"
             PROVE  AccountInv'
  BY DEF Edit
<1>1. PICK j \in DOMAIN Alts["accounts"] :
        DOMAIN Alts["accounts"][j] \subseteq Databases /\ host' = Altered(host, Alts["accounts"][j])
  BY DEF Edit
<1>2. host = Base["accounts"] /\ before = host /\ UNCHANGED <<family, root, before, cache, verdicts>>
  BY DEF Edit
<1>3. AccountHost(host')
  BY <1>1, <1>2 DEF AccountsAssumption
<1>4. DOMAIN host' = DOMAIN host \cup DOMAIN Alts["accounts"][j]
      /\ \A i \in DOMAIN host : i \notin Databases => host'[i] = host[i]
  BY <1>1 DEF Altered
<1>5. \A d \in DOMAIN cache : cache[d] = before[d]
  BY <1>2 DEF AccountInv
<1>6. DOMAIN host' = DOMAIN host
  BY <1>1, <1>4 DEF AccountInv, AccountHost
<1>7. Alike(View, View', Databases \ DOMAIN cache)
  <2>1. View'.root = View.root /\ View'.denied = View.denied /\ View'.hidden = View.hidden
    BY <1>2 DEF View, ViewOf
  <2>2. View' = ViewOf(host', cache, root)
    BY <1>2 DEF View, ViewOf
  <2>3. ASSUME NEW i, i \notin Databases \ DOMAIN cache PROVE Content(View', i) = Content(View, i)
    <3>1. Content(View', i) = IF i \in DOMAIN cache THEN cache[i] ELSE IF i \in DOMAIN host' THEN host'[i] ELSE Absent
      BY <2>2, Contents, EmptyDomain
    <3> QED BY <1>4, <1>6, <2>3, <3>1, ViewContents
  <2> QED BY <2>1, <2>3 DEF Alike
<1>8. ASSUME NEW k \in 1 .. Len(verdicts) PROVE ToldNow(k)'
  BY <1>2, <1>7, ToldStays DEF ToldNow
<1> QED BY <1>2, <1>3, <1>5, <1>8 DEF AccountInv

(* A check collects databases only. *)
LEMMA ReadsAreDatabases ==
  ASSUME NEW check, NEW e
  PROVE  Reads(check, e) \subseteq Databases
BY DEF Reads, Collected, DotReads, Then, Databases

(* A control adds what it collects to the cache, so its verdict is that of the view after it. *)
LEMMA AccountAssess == AccountsAssumption /\ family \in Families /\ AccountInv /\ Assess => AccountInv'
<1> SUFFICES ASSUME AccountsAssumption, family \in Families, AccountInv, Assess, family = "accounts"
             PROVE  AccountInv'
  BY DEF Assess, AccountInv
<1> DEFINE n == Len(verdicts)
           check == Checks["accounts"][n + 1]
           R == Reads(check, View)
<1>1. /\ cache' = Altered(cache, [i \in R \ DOMAIN cache |-> host[i]])
      /\ verdicts' = Append(verdicts, Judgement(check, View))
      /\ UNCHANGED <<family, root, host, before>>
      /\ n < Len(Checks["accounts"])
  BY VerdictIsJudgement DEF Assess, Next1
<1>2. n \in Nat /\ n + 1 \in DOMAIN Checks["accounts"] /\ n + 1 <= Len(Checks["accounts"])
  BY <1>1 DEF AccountInv, AccountsAssumption
<1>3. R \subseteq Databases
  BY ReadsAreDatabases
<1>4. DOMAIN cache' = DOMAIN cache \cup R
      /\ \A i \in DOMAIN cache' : cache'[i] = IF i \in DOMAIN cache THEN cache[i] ELSE host[i]
  BY <1>1 DEF Altered
<1>5. /\ DOMAIN cache' \subseteq Databases
      /\ \A d \in DOMAIN cache' : cache'[d] \in {before[d], host[d]}
  BY <1>3, <1>4 DEF AccountInv
<1>6. Databases \subseteq DOMAIN host
  BY DEF AccountInv, AccountHost
<1>7. \A D : Alike(View, View', D)
  <2>1. View'.root = View.root /\ View'.denied = View.denied /\ View'.hidden = View.hidden
    BY <1>1 DEF View, ViewOf
  <2>2. View' = ViewOf(host, cache', root)
    BY <1>1 DEF View, ViewOf
  <2>3. ASSUME NEW i PROVE Content(View', i) = Content(View, i)
    <3>1. Content(View', i) = IF i \in DOMAIN cache' THEN cache'[i] ELSE IF i \in DOMAIN host THEN host[i] ELSE Absent
      BY <2>2, Contents, EmptyDomain
    <3> HIDE DEF R
    <3> QED BY <1>4, <1>5, <1>6, <3>1, ViewContents
  <2> QED BY <2>1, <2>3 DEF Alike
<1>8. PICK S : verdicts \in Seq(S)
  BY DEF AccountInv
<1>9. /\ verdicts' \in Seq(S \cup {Judgement(check, View)}) /\ Len(verdicts') = n + 1
      /\ verdicts'[n + 1] = Judgement(check, View) /\ \A j \in 1 .. n : verdicts'[j] = verdicts[j]
  BY <1>1, <1>8
<1>10. ASSUME NEW j \in 1 .. n PROVE ToldNow(j)'
  <2>1. LET c == Checks["accounts"][j] IN
        /\ Reads(c, View') \subseteq DOMAIN cache
        /\ c.type # "nologin_not_in_shells" => verdicts[j] = Judgement(c, View')
    BY <1>7, ToldStays
  <2> HIDE DEF check, R
  <2> QED BY <1>1, <1>4, <1>9, <2>1 DEF ToldNow
<1>11. ASSUME NEW j, j = n + 1 PROVE ToldNow(j)'
  <2>1. HomesApart(View) /\ PathApart(View)
    BY ViewsApart
  <2>2. AccountCheck(check)
    BY <1>2 DEF AccountsAssumption
  <2>3. Reads(check, View') = R
    BY <1>7, <2>1, <2>2, ReadsStay
  <2>4. check.type # "nologin_not_in_shells" => Judgement(check, View') = Judgement(check, View)
    BY <1>7, <2>1, <2>2, VerdictAlike
  <2> QED BY <1>1, <1>4, <1>9, <1>11, <2>3, <2>4 DEF ToldNow
<1>12. \A j \in 1 .. n + 1 : j \in 1 .. n \/ j = n + 1
  BY <1>2
<1> QED
  <2> HIDE DEF check, R
  <2>1. \A j \in 1 .. Len(verdicts') : ToldNow(j)'
    BY <1>9, <1>10, <1>11, <1>12
  <2>2. \E T : verdicts' \in Seq(T)
    BY <1>9
  <2>3. Len(verdicts') <= Len(Checks["accounts"])
    BY <1>2, <1>9
  <2>4. AccountHost(host)' /\ AccountHost(before)'
    BY <1>1 DEF AccountInv
  <2> QED BY <1>1, <1>5, <2>1, <2>2, <2>3, <2>4 DEF AccountInv

(* All verdicts of an audit of accounts speak of one snapshot of the user databases, on     *)
(* every host, for every definition and at whatever step an edit comes: System.cached       *)
(* (system.py:389) shares one evidence, and no check of accounts.py reads past it but       *)
(* nologin_not_in_shells.                                                                   *)
THEOREM OneSnapshotHolds == Spec => []OneSnapshot
<1>1. Init => family \in Families /\ AccountInv
  BY AccountsAssumption, AccountInit DEF Init
<1>2. family \in Families /\ AccountInv /\ [Next]_vars => (family \in Families /\ AccountInv)'
  <2> SUFFICES ASSUME family \in Families, AccountInv, [Next]_vars
               PROVE  (family \in Families /\ AccountInv)'
    OBVIOUS
  <2>1. CASE Assess
    <3>1. family' = family
      BY <2>1 DEF Assess
    <3> QED BY <2>1, <3>1, AccountsAssumption, AccountAssess
  <2>2. CASE Edit
    <3>1. family' = family
      BY <2>2 DEF Edit
    <3> QED BY <2>2, <3>1, AccountsAssumption, AccountEdit
  <2>3. CASE UNCHANGED vars
    <3>1. UNCHANGED <<family, root, host, before, cache, verdicts>> /\ View' = View
      BY <2>3 DEF vars, View, ViewOf
    <3>2. ASSUME NEW j, ToldNow(j) PROVE ToldNow(j)'
      BY <3>1, <3>2 DEF ToldNow
    <3>3. AccountInv'
      BY <3>1, <3>2 DEF AccountInv
    <3> QED BY <3>1, <3>3
  <2> QED BY <2>1, <2>2, <2>3 DEF Next
<1>3. family \in Families /\ AccountInv => OneSnapshot
  BY AccountsAssumption, AccountImplies
<1> QED BY <1>1, <1>2, <1>3, PTL DEF Spec

------------------------------------------------------------------------------
(* What a refused read does to each provider. *)

(* e is what a user who is not root sees of what root sees in f; passwd and group stay open. *)
AsUser(e, f) ==
  /\ ~e.root /\ f.root
  /\ e.val = f.val /\ e.now = f.now
  /\ ~Closed(e, "passwd") /\ ~Closed(e, "group")

(* Every read of the user is withheld or answers what it answers root; whether an object *)
(* exists is told alike unless it lies below a closed directory.                          *)
LEMMA UserReads ==
  ASSUME NEW e, NEW f, AsUser(e, f), NEW i
  PROVE  /\ ReadText(e, i) = Unavailable \/ ReadText(e, i) = ReadText(f, i)
         /\ ReadNow(e, i) = Unavailable \/ ReadNow(e, i) = ReadNow(f, i)
         /\ Meta(e, i) = Unavailable \/ Meta(e, i) = Meta(f, i)
         /\ Glob(e, i) = Unavailable \/ Glob(e, i) = Glob(f, i)
         /\ Collect(e, i) = Unavailable \/ Collect(e, i) = Collect(f, i)
         /\ \A empty : CollectOr(e, i, empty) = Unavailable \/ CollectOr(e, i, empty) = CollectOr(f, i, empty)
         /\ i \notin e.hidden => Exists(e, i) = Exists(f, i)
         /\ i \notin e.hidden => (WalkFiles(e, i) = Unavailable \/ WalkFiles(e, i) = WalkFiles(f, i))
BY DEF AsUser, Closed, Unseen, ReadText, ReadNow, Meta, Exists, Glob, Collect, CollectOr, WalkFiles, Content

(* Root reads every file. *)
LEMMA RootReadsAll ==
  ASSUME NEW e, NEW f, AsUser(e, f), NEW s
  PROVE  ~Withheld(f, s)
BY DEF AsUser, Withheld

(* One read that is withheld withholds the verdict. *)
LEMMA NeedsEach ==
  ASSUME NEW reads, NEW o, NEW j \in DOMAIN reads, reads[j] = Unavailable
  PROVE  Needs(reads, o) = "NOT_ASSESSED"
BY DEF Needs
(* The same of the one or two reads of most providers. *)
LEMMA NeedsBoth ==
  ASSUME NEW a, NEW b, NEW o
  PROVE  /\ a = Unavailable => Needs(<<a>>, o) = "NOT_ASSESSED"
         /\ a = Unavailable \/ b = Unavailable => Needs(<<a, b>>, o) = "NOT_ASSESSED"
BY DEF Needs

(* A command that a user may run answers it what it answers root, as far as it is there. *)
LEMMA SameToAll ==
  ASSUME NEW e, NEW f, AsUser(e, f), NEW c, c \notin e.hidden,
         Content(f, c) # Absent => Content(f, c)["user"] = Content(f, c)["root"]
  PROVE  Exists(e, c) = Exists(f, c) /\ (Exists(f, c) => Run(e, c) = Run(f, c))
BY UserReads DEF AsUser, Content, Run, Exists

------------------------------------------------------------------------------
(* access.py *)
(* The lines of sudoers and the files it includes. *)
LEMMA SudoersWithhold ==
  ASSUME NEW e, NEW f, AsUser(e, f), "sudoers" \notin e.hidden, "sudoers_d" \notin e.hidden
  PROVE  sudoers_lines(e) = Unavailable \/ sudoers_lines(e) = sudoers_lines(f)
<1>1. /\ Exists(e, "sudoers") = Exists(f, "sudoers")
      /\ ReadText(e, "sudoers") = Unavailable \/ ReadText(e, "sudoers") = ReadText(f, "sudoers")
      /\ WalkFiles(e, "sudoers_d") = Unavailable \/ WalkFiles(e, "sudoers_d") = WalkFiles(f, "sudoers_d")
  BY UserReads
<1> QED BY <1>1 DEF sudoers_lines

(* The four checks on sudo; the log of sudo is one of their fallbacks. *)
LEMMA SudoWithholds ==
  ASSUME NEW e, NEW f, AsUser(e, f), NEW arg, {"sudoers", "sudoers_d", "journalctl"} \cap e.hidden = {},
         JournalAnswers(f)
  PROVE  /\ sudo_use_pty(e) \in {"NOT_ASSESSED", sudo_use_pty(f)}
         /\ sudo_forbidden(e, arg) \in {"NOT_ASSESSED", sudo_forbidden(f, arg)}
         /\ sudo_timestamp_timeout(e, arg) \in {"NOT_ASSESSED", sudo_timestamp_timeout(f, arg)}
         /\ sudo_logfile(e) \in {"NOT_ASSESSED", sudo_logfile(f)}
<1>1. sudoers_lines(e) = Unavailable \/ sudoers_lines(e) = sudoers_lines(f)
  BY SudoersWithhold
<1>2. sudo_use_pty(e) \in {"NOT_ASSESSED", sudo_use_pty(f)}
  BY <1>1 DEF sudo_use_pty, Sudoers, Needs
<1>3. sudo_forbidden(e, arg) \in {"NOT_ASSESSED", sudo_forbidden(f, arg)}
  <2>1. CASE sudoers_lines(e) = Unavailable
    BY <2>1, NeedsBoth DEF sudo_forbidden
  <2>2. CASE sudoers_lines(e) = sudoers_lines(f)
    BY <2>2 DEF sudo_forbidden, Sudoers, Verdict
  <2> QED BY <1>1, <2>1, <2>2
<1>4. sudo_timestamp_timeout(e, arg) \in {"NOT_ASSESSED", sudo_timestamp_timeout(f, arg)}
  BY <1>1 DEF sudo_timestamp_timeout, Sudoers, Needs
<1>5. sudo_logfile(e) \in {"NOT_ASSESSED", sudo_logfile(f)}
  <2>1. /\ Collect(e, "packages") = Unavailable \/ Collect(e, "packages") = Collect(f, "packages")
        /\ CollectOr(e, "auth_log", {}) = Unavailable \/ CollectOr(e, "auth_log", {}) = CollectOr(f, "auth_log", {})
        /\ Exists(e, "journalctl") = Exists(f, "journalctl")
    BY UserReads
  <2>2. Exists(e, "journalctl") /\ Run(e, "journalctl").ok /\ Run(e, "journalctl").out # {} =>
        Run(f, "journalctl").ok /\ Run(f, "journalctl").out # {}
    BY DEF AsUser, Content, Run, Exists, JournalAnswers
  <2> QED BY <1>1, <2>1, <2>2 DEF sudo_logfile, Sudoers, Packages, Installed
<1> QED BY <1>2, <1>3, <1>4, <1>5

(* The checks on PAM and su. *)
LEMMA PamWithholds ==
  ASSUME NEW e, NEW f, AsUser(e, f), NEW check, NEW p, NEW q
  PROVE  /\ su_restricted(e) \in {"NOT_ASSESSED", su_restricted(f)}
         /\ pam_module_enabled(e, p) \in {"NOT_ASSESSED", pam_module_enabled(f, p)}
         /\ faillock_option(e, p, q) \in {"NOT_ASSESSED", faillock_option(f, p, q)}
         /\ faillock_root(e, p) \in {"NOT_ASSESSED", faillock_root(f, p)}
         /\ pwquality_option(e, check) \in {"NOT_ASSESSED", pwquality_option(f, check)}
         /\ pwhistory_option(e, p, q) \in {"NOT_ASSESSED", pwhistory_option(f, p, q)}
         /\ pam_unix_args(e, check) \in {"NOT_ASSESSED", pam_unix_args(f, check)}
<1>1. \A i : pam_lines(e, i) = Unavailable \/ pam_lines(e, i) = pam_lines(f, i)
  BY UserReads DEF pam_lines
<1>2. \A i : conf_values(e, i) = Unavailable \/ conf_values(e, i) = conf_values(f, i)
  BY UserReads DEF conf_values
<1>3. su_restricted(e) \in {"NOT_ASSESSED", su_restricted(f)}
  <2> DEFINE Wheel(lines) == SelectInSeq(lines, LAMBDA l : /\ l.type = "auth" /\ l.control \in {"required", "requisite"}
                                                         /\ l.module = "pam_wheel.so"
                                                         /\ HasArg(l, "use_uid") /\ HasArg(l, "group"))
             Args(lines) == lines[Wheel(lines)].args
             Name(lines) == Args(lines)[SelectInSeq(Args(lines), LAMBDA a : a.name = "group")].value
             Judge(lines, groups) ==
               LET g == SelectInSeq(groups, LAMBDA h : h.name = Name(lines))
               IN  Verdict(g = 0 \/ groups[g].members # {})
             Of(lines, groups) ==
               IF lines = Unavailable THEN "NOT_ASSESSED"
               ELSE IF Wheel(lines) = 0 THEN "FAIL" ELSE Needs(<<groups>>, Judge(lines, groups))
  <2>1. /\ su_restricted(e) = Of(pam_lines(e, "pam_su"), Collect(e, "group"))
        /\ su_restricted(f) = Of(pam_lines(f, "pam_su"), Collect(f, "group"))
    BY DEF su_restricted
  <2>2. Collect(e, "group") = Unavailable \/ Collect(e, "group") = Collect(f, "group")
    BY UserReads
  <2> HIDE DEF Wheel, Judge
  <2>3. \A lines, groups : /\ Of(Unavailable, groups) = "NOT_ASSESSED"
                           /\ Of(lines, Unavailable) \in {"NOT_ASSESSED", Of(lines, groups)}
    BY NeedsBoth
  <2> HIDE DEF Of
  <2> QED BY <1>1, <2>1, <2>2, <2>3
<1>4. ASSUME NEW files
      PROVE  (\E j \in DOMAIN files : Readable(e, files)[j] = Unavailable) \/ Readable(e, files) = Readable(f, files)
  BY <1>1 DEF Readable
<1>5. pam_module_enabled(e, p) \in {"NOT_ASSESSED", pam_module_enabled(f, p)}
  <2> DEFINE files == [j \in DOMAIN p |-> p[j].file]
  <2>1. CASE \E j \in DOMAIN files : Readable(e, files)[j] = Unavailable
    <3>1. DOMAIN Readable(e, files) = DOMAIN files
      BY DEF Readable
    <3> HIDE DEF files
    <3> QED BY <2>1, <3>1, NeedsEach DEF pam_module_enabled, files
  <2>2. CASE Readable(e, files) = Readable(f, files)
    <3>1. \A j \in DOMAIN p : pam_lines(e, p[j].file) = pam_lines(f, p[j].file)
      BY <2>2 DEF Readable
    <3>2. \A r \in ToSet(p) : module_lines(e, <<r.file>>, r.module, r.type) = module_lines(f, <<r.file>>, r.module, r.type)
      <4> SUFFICES ASSUME NEW j \in DOMAIN p
                   PROVE module_lines(e, <<p[j].file>>, p[j].module, p[j].type) = module_lines(f, <<p[j].file>>, p[j].module, p[j].type)
        BY DEF ToSet
      <4>1. Readable(e, <<p[j].file>>) = Readable(f, <<p[j].file>>)
        BY <3>1 DEF Readable
      <4> QED BY <4>1 DEF module_lines
    <3> HIDE DEF files
    <3> QED BY <2>2, <3>2 DEF pam_module_enabled, files
  <2> QED BY <1>4, <2>1, <2>2
<1>6. \A files, m, t : (\E j \in DOMAIN files : Readable(e, files)[j] = Unavailable) \/ module_lines(e, files, m, t) = module_lines(f, files, m, t)
  BY <1>4 DEF module_lines
<1>7. \A file, m, t : pam_lines(e, file) = Unavailable \/ module_lines(e, <<file>>, m, t) = module_lines(f, <<file>>, m, t)
  <2> TAKE file, m, t
  <2>1. (\E j \in DOMAIN <<file>> : Readable(e, <<file>>)[j] = Unavailable) => pam_lines(e, file) = Unavailable
    BY DEF Readable
  <2> QED BY <1>6, <2>1
<1>8. pam_lines(e, "common_auth") = Unavailable \/ faillock_args(e) = faillock_args(f)
  BY <1>7 DEF faillock_args
<1>9. faillock_option(e, p, q) \in {"NOT_ASSESSED", faillock_option(f, p, q)} /\ faillock_root(e, p) \in {"NOT_ASSESSED", faillock_root(f, p)}
  <2>1. CASE conf_values(e, "faillock") = Unavailable \/ pam_lines(e, "common_auth") = Unavailable
    BY <2>1, NeedsBoth DEF faillock_option, faillock_root
  <2>2. CASE conf_values(e, "faillock") = conf_values(f, "faillock") /\ faillock_args(e) = faillock_args(f)
             /\ pam_lines(e, "common_auth") = pam_lines(f, "common_auth")
    BY <2>2 DEF faillock_option, faillock_root
  <2> QED BY <1>1, <1>2, <1>8, <2>1, <2>2
<1>10. pwquality_option(e, check) \in {"NOT_ASSESSED", pwquality_option(f, check)}
  <2>1. pwquality_conf(e) = Unavailable \/ pwquality_conf(e) = pwquality_conf(f)
    <3>1. Glob(e, "pwquality_d") = Unavailable \/ Glob(e, "pwquality_d") = Glob(f, "pwquality_d")
      BY UserReads
    <3>2. CASE Glob(e, "pwquality_d") = Unavailable \/ conf_values(e, "pwquality") = Unavailable
      BY <3>2 DEF pwquality_conf
    <3>3. CASE Glob(e, "pwquality_d") = Glob(f, "pwquality_d") /\ conf_values(e, "pwquality") = conf_values(f, "pwquality")
      BY <3>3 DEF pwquality_conf
    <3> QED BY <1>2, <3>1, <3>2, <3>3
  <2>2. CASE pwquality_conf(e) = Unavailable \/ pam_lines(e, "common_password") = Unavailable
    BY <2>2, NeedsBoth DEF pwquality_option
  <2>3. CASE /\ pwquality_conf(e) = pwquality_conf(f)
             /\ pam_lines(e, "common_password") = pam_lines(f, "common_password")
             /\ \A m, t : module_lines(e, <<"common_password">>, m, t) = module_lines(f, <<"common_password">>, m, t)
    BY <2>3 DEF pwquality_option
  <2> QED BY <1>1, <1>7, <2>1, <2>2, <2>3
<1>11. pwhistory_option(e, p, q) \in {"NOT_ASSESSED", pwhistory_option(f, p, q)}
  <2>1. CASE conf_values(e, "pwhistory") = Unavailable \/ pam_lines(e, "common_password") = Unavailable
    BY <2>1, NeedsBoth DEF pwhistory_option
  <2>2. CASE /\ conf_values(e, "pwhistory") = conf_values(f, "pwhistory")
             /\ pam_lines(e, "common_password") = pam_lines(f, "common_password")
             /\ \A m, t : module_lines(e, <<"common_password">>, m, t) = module_lines(f, <<"common_password">>, m, t)
    BY <2>2 DEF pwhistory_option
  <2> QED BY <1>1, <1>2, <1>7, <2>1, <2>2
<1>12. pam_unix_args(e, check) \in {"NOT_ASSESSED", pam_unix_args(f, check)}
  <2>1. CASE \E j \in DOMAIN check.files : Readable(e, check.files)[j] = Unavailable
    <3>1. DOMAIN Readable(e, check.files) = DOMAIN check.files
      BY DEF Readable
    <3> QED BY <2>1, <3>1, NeedsEach DEF pam_unix_args
  <2>2. CASE /\ Readable(e, check.files) = Readable(f, check.files)
             /\ \A m, t : module_lines(e, check.files, m, t) = module_lines(f, check.files, m, t)
    BY <2>2 DEF pam_unix_args
  <2> QED BY <1>4, <1>6, <2>1, <2>2
<1> QED BY <1>3, <1>5, <1>9, <1>10, <1>11, <1>12

(* Every check of access.py. *)
LEMMA AccessWithholds ==
  ASSUME NEW e, NEW f, AsUser(e, f), NEW check, check.type \in AccessTypes,
         {"sudoers", "sudoers_d", "journalctl"} \cap e.hidden = {},
         JournalAnswers(f)
  PROVE  AccessVerdict(check, e) \in {"NOT_ASSESSED", AccessVerdict(check, f)}
BY SudoWithholds, PamWithholds DEF AccessVerdict, AccessTypes

------------------------------------------------------------------------------
(* kernel.py, logs.py *)
(* One file per name, of the first directory that has it. *)
LEMMA ChosenWithholds ==
  ASSUME NEW e, NEW f, AsUser(e, f), NEW dirs
  PROVE  Chosen(e, dirs) = Unavailable \/ Chosen(e, dirs) = Chosen(f, dirs)
<1>1. \A j \in DOMAIN dirs : Glob(e, dirs[j]) = Unavailable \/ Glob(e, dirs[j]) = Glob(f, dirs[j])
  BY UserReads
<1>2. CASE \E j \in DOMAIN dirs : Glob(e, dirs[j]) = Unavailable
  BY <1>2 DEF Chosen
<1>3. CASE \A j \in DOMAIN dirs : Glob(e, dirs[j]) = Glob(f, dirs[j])
  <2> DEFINE Of(layer) ==
        LET names == UNION {DOMAIN layer[j] : j \in DOMAIN dirs}
            first(n) == CHOOSE j \in DOMAIN dirs : n \in DOMAIN layer[j] /\ \A k \in 1 .. j - 1 : n \notin DOMAIN layer[k]
        IN  IF \E j \in DOMAIN dirs : layer[j] = Unavailable THEN Unavailable
            ELSE [j \in 1 .. Cardinality(names) |-> layer[first(Nth(names, j))][Nth(names, j)]]
  <2>1. /\ Chosen(e, dirs) = Of([j \in DOMAIN dirs |-> Glob(e, dirs[j])])
        /\ Chosen(f, dirs) = Of([j \in DOMAIN dirs |-> Glob(f, dirs[j])])
    BY DEF Chosen
  <2>2. [j \in DOMAIN dirs |-> Glob(e, dirs[j])] = [j \in DOMAIN dirs |-> Glob(f, dirs[j])]
    BY <1>3
  <2> HIDE DEF Of
  <2> QED BY <2>1, <2>2
<1> QED BY <1>1, <1>2, <1>3

(* The files a tool lists, or the directories searched when it does not. *)
LEMMA ListedWithholds ==
  ASSUME NEW e, NEW f, AsUser(e, f), NEW dirs, NEW tool, tool \notin e.hidden,
         Content(f, tool) # Absent => Content(f, tool)["user"] = Content(f, tool)["root"]
  PROVE  /\ Listed(e, tool, dirs) = Unavailable \/ Listed(e, tool, dirs) = Listed(f, tool, dirs)
         /\ (Exists(e, tool) /\ Run(e, tool).ok) = (Exists(f, tool) /\ Run(f, tool).ok)
<1>1. (Exists(e, tool) /\ Run(e, tool).ok) = (Exists(f, tool) /\ Run(f, tool).ok)
  BY SameToAll
<1>2. Exists(f, tool) => Run(e, tool) = Run(f, tool)
  BY SameToAll
<1> QED BY <1>1, <1>2, ChosenWithholds DEF Listed

(* The checks on kernel modules: blacklists, install lines, what is loaded. *)
LEMMA ModulesWithhold ==
  ASSUME NEW e, NEW f, AsUser(e, f), NEW m, "modprobe" \notin e.hidden,
         Content(f, "modprobe") # Absent => Content(f, "modprobe")["user"] = Content(f, "modprobe")["root"]
  PROVE  /\ kernel_module(e, m) \in {"NOT_ASSESSED", kernel_module(f, m)}
         /\ wireless_interfaces(e) \in {"NOT_ASSESSED", wireless_interfaces(f)}
<1>1. modprobe_config(e) = Unavailable \/ modprobe_config(e) = modprobe_config(f)
  <2> DEFINE own(v) == Exists(v, "modprobe") /\ Run(v, "modprobe").ok
             Of(files, closed) ==
               IF files = Unavailable \/ closed THEN Unavailable
               ELSE [blacklist |-> UNION {g.blacklist : g \in ToSet(files)}, install |-> UNION {g.install : g \in ToSet(files)}]
             Files(v) == Listed(v, "modprobe", ModprobeDirs)
  <2>1. /\ modprobe_config(e) = Of(Files(e), ~own(e) /\ Withheld(e, Files(e)))
        /\ modprobe_config(f) = Of(Files(f), ~own(f) /\ Withheld(f, Files(f)))
    BY DEF modprobe_config
  <2>2. Files(e) = Unavailable \/ Files(e) = Files(f)
    BY ListedWithholds
  <2>3. ~Withheld(f, Files(f))
    BY RootReadsAll
  <2> HIDE DEF Files, own
  <2> QED BY <2>1, <2>2, <2>3
<1>2. LoadedModules(e) = Unavailable \/ LoadedModules(e) = LoadedModules(f)
  BY UserReads DEF LoadedModules
<1>3. kernel_module(e, m) \in {"NOT_ASSESSED", kernel_module(f, m)}
  <2>1. module_locations(e) = Unavailable \/ module_locations(e) = module_locations(f)
    <3>1. Glob(e, "module_tree") = Unavailable \/ Glob(e, "module_tree") = Glob(f, "module_tree")
      BY UserReads
    <3> QED BY <3>1 DEF module_locations
  <2>2. CASE module_locations(e) = Unavailable
    BY <2>2 DEF kernel_module
  <2>3. CASE module_locations(e) = module_locations(f) /\ (modprobe_config(e) = Unavailable \/ LoadedModules(e) = Unavailable)
    BY <2>3, NeedsBoth DEF kernel_module
  <2>4. CASE module_locations(e) = module_locations(f) /\ modprobe_config(e) = modprobe_config(f) /\ LoadedModules(e) = LoadedModules(f)
    BY <2>4 DEF kernel_module, Verdict
  <2> QED BY <1>1, <1>2, <2>1, <2>2, <2>3, <2>4
<1>4. wireless_interfaces(e) \in {"NOT_ASSESSED", wireless_interfaces(f)}
  <2>1. Glob(e, "net_class") = Unavailable \/ Glob(e, "net_class") = Glob(f, "net_class")
    BY UserReads
  <2>2. Exists(e, "modprobe") = Exists(f, "modprobe") /\ (Exists(f, "modprobe") => Run(e, "modprobe") = Run(f, "modprobe"))
    BY SameToAll
  <2>3. CASE Glob(e, "net_class") = Unavailable
    BY <2>3 DEF wireless_interfaces
  <2>4. CASE Glob(e, "net_class") = Glob(f, "net_class") /\ (modprobe_config(e) = Unavailable \/ LoadedModules(e) = Unavailable)
    BY <2>4 DEF wireless_interfaces
  <2>5. CASE Glob(e, "net_class") = Glob(f, "net_class") /\ modprobe_config(e) = modprobe_config(f) /\ LoadedModules(e) = LoadedModules(f)
    BY <2>2, <2>5 DEF wireless_interfaces, Verdict
  <2> QED BY <1>1, <1>2, <2>1, <2>3, <2>4, <2>5
<1> QED BY <1>3, <1>4

(* Kernel parameters, as they are and as they are configured. *)
LEMMA SysctlWithholds ==
  ASSUME NEW e, NEW f, AsUser(e, f), NEW values, "systemd_sysctl" \notin e.hidden,
         Content(f, "systemd_sysctl") # Absent => Content(f, "systemd_sysctl")["user"] = Content(f, "systemd_sysctl")["root"]
  PROVE  sysctl(e, values) \in {"NOT_ASSESSED", sysctl(f, values)}
<1>1. ufw_sysctl_file(e) = Unavailable \/ ufw_sysctl_file(e) = ufw_sysctl_file(f)
  <2>1. /\ CollectOr(e, "ufw_conf", <<>>) = Unavailable \/ CollectOr(e, "ufw_conf", <<>>) = CollectOr(f, "ufw_conf", <<>>)
        /\ CollectOr(e, "default_ufw", Absent) = Unavailable \/ CollectOr(e, "default_ufw", Absent) = CollectOr(f, "default_ufw", Absent)
    BY UserReads
  <2> QED BY <2>1 DEF ufw_sysctl_file
<1>2. sysctl_files(e) = Unavailable \/ sysctl_files(e) = sysctl_files(f)
  BY ListedWithholds DEF sysctl_files
<1>3. /\ ReadText(e, "sysctl_conf") = Unavailable \/ ReadText(e, "sysctl_conf") = ReadText(f, "sysctl_conf")
      /\ ReadText(e, "proc_sys") = Unavailable \/ ReadText(e, "proc_sys") = ReadText(f, "proc_sys")
  BY UserReads
<1>4. sysctl_configured(e) = Unavailable \/ sysctl_configured(e) = sysctl_configured(f)
  <2>1. CASE Unavailable \in {ufw_sysctl_file(e), sysctl_files(e), ReadText(e, "sysctl_conf")}
    BY <2>1 DEF sysctl_configured
  <2>2. CASE /\ ufw_sysctl_file(e) = ufw_sysctl_file(f) /\ sysctl_files(e) = sysctl_files(f)
             /\ ReadText(e, "sysctl_conf") = ReadText(f, "sysctl_conf")
    <3>1. sysctl_order(e) = sysctl_order(f)
      BY <2>2 DEF sysctl_order
    <3> DEFINE files == sysctl_order(f)
               entries == {j \in {k \in DOMAIN files : Fresh(files, k)} : files[j].set # <<>>}
               told == IF entries = {} THEN Absent ELSE Last(files[Min(entries)].set)
    <3>2. sysctl_configured(e) = Unavailable \/ sysctl_configured(e) = told
      BY <3>1 DEF sysctl_configured
    <3>3. sysctl_configured(f) = Unavailable \/ sysctl_configured(f) = told
      BY DEF sysctl_configured
    <3>4. f.root /\ (sysctl_configured(f) = Unavailable => told = Unavailable \/ sysctl_configured(e) = Unavailable)
      BY <2>2 DEF sysctl_configured, AsUser
    <3> HIDE DEF told
    <3> QED BY <3>2, <3>3, <3>4
  <2> QED BY <1>1, <1>2, <1>3, <2>1, <2>2
<1>5. CASE ReadText(e, "proc_sys") = Unavailable \/ sysctl_configured(e) = Unavailable
  BY <1>5, NeedsBoth DEF sysctl
<1>6. CASE ReadText(e, "proc_sys") = ReadText(f, "proc_sys") /\ sysctl_configured(e) = sysctl_configured(f)
  BY <1>6 DEF sysctl
<1> QED BY <1>3, <1>4, <1>5, <1>6

(* A configuration of systemd, as systemd-analyze prints it or from its files. *)
LEMMA OptionWithholds ==
  ASSUME NEW e, NEW f, AsUser(e, f), NEW option, {"systemd_analyze", "systemd_etc", "systemd_lib"} \cap e.hidden = {},
         Content(f, "systemd_analyze") # Absent => Content(f, "systemd_analyze")["user"] = Content(f, "systemd_analyze")["root"]
  PROVE  systemd_option(e, option) = Unavailable \/ systemd_option(e, option) = systemd_option(f, option)
<1>1. /\ Exists(e, "systemd_analyze") = Exists(f, "systemd_analyze")
      /\ Exists(f, "systemd_analyze") => Run(e, "systemd_analyze") = Run(f, "systemd_analyze")
  BY SameToAll
<1>2. Len(SystemdMain) = 2 /\ \A j \in 1 .. 2 : SystemdMain[j] \in {"systemd_etc", "systemd_lib"}
  BY DEF SystemdMain
<1>3. \A j \in 1 .. 2 : /\ Exists(e, SystemdMain[j]) = Exists(f, SystemdMain[j])
                        /\ \/ ReadText(e, SystemdMain[j]) = Unavailable
                           \/ ReadText(e, SystemdMain[j]) = ReadText(f, SystemdMain[j])
                        /\ Content(e, SystemdMain[j]) = Content(f, SystemdMain[j])
  BY <1>2, UserReads DEF AsUser, Content
<1> DEFINE Main(v) == SelectInSeq(SystemdMain, LAMBDA g : Exists(v, g))
           Base1(v) == SelectInSeq(SystemdMain,
                         LAMBDA g : Closed(v, g) \/ (Content(v, g) # Absent /\ Content(v, g).documented[option] # Absent))
<1>4. Main(e) = Main(f) /\ Main(e) \in 0 .. 2
  <2> DEFINE S(v) == {j \in 1 .. 2 : Exists(v, SystemdMain[j])}
  <2>1. \A v : Main(v) = IF S(v) # {} THEN Min(S(v)) ELSE 0
    BY <1>2 DEF SelectInSeq
  <2>2. S(e) = S(f) /\ S(e) \in SUBSET (1 .. 2)
    BY <1>3
  <2> HIDE DEF S
  <2>3. S(e) # {} => Min(S(e)) \in S(e)
    BY <2>2, MinIsIn
  <2> HIDE DEF Main
  <2> QED BY <2>1, <2>2, <2>3
<1>5. /\ Base1(e) # 0 /\ ~Closed(e, SystemdMain[Base1(e)]) => Base1(e) = Base1(f) /\ Base1(e) \in 1 .. 2
      /\ Base1(e) = 0 => Base1(f) = 0
  <2> DEFINE documented(v, j) == Content(v, SystemdMain[j]) # Absent /\ Content(v, SystemdMain[j]).documented[option] # Absent
             S(v) == {j \in 1 .. 2 : Closed(v, SystemdMain[j]) \/ documented(v, j)}
  <2>1. \A v : Base1(v) = IF S(v) # {} THEN Min(S(v)) ELSE 0
    BY <1>2 DEF SelectInSeq
  <2>2. \A j \in 1 .. 2 : documented(e, j) = documented(f, j) /\ ~Closed(f, SystemdMain[j])
    BY <1>3 DEF AsUser, Closed
  <2>3. S(f) = {j \in 1 .. 2 : documented(e, j)}
    BY <2>2
  <2> DEFINE T == {j \in 1 .. 2 : documented(e, j)}
             U == S(e)
  <2>4. U \in SUBSET (1 .. 2) /\ T \subseteq U /\ \A j \in U : Closed(e, SystemdMain[j]) \/ j \in T
    OBVIOUS
  <2> HIDE DEF T, documented, S, Base1
  <2>5. Base1(e) = (IF U # {} THEN Min(U) ELSE 0) /\ Base1(f) = IF T # {} THEN Min(T) ELSE 0
    BY <2>1, <2>3 DEF T
  <2> HIDE DEF U
  <2>6. CASE U = {}
    BY <2>4, <2>5, <2>6
  <2>7. CASE U # {}
    <3>1. Min(U) \in U /\ \A m \in U : Min(U) <= m
      BY <2>4, <2>7, MinIsIn
    <3>2. Base1(e) = Min(U)
      BY <2>5, <2>7
    <3>3. ASSUME ~Closed(e, SystemdMain[Base1(e)]) PROVE Base1(f) = Base1(e)
      <4>1. Min(U) \in T /\ \A m \in T : Min(U) <= m
        BY <2>4, <3>1, <3>2, <3>3
      <4>2. T \in SUBSET (1 .. 2) /\ T # {}
        BY <2>4, <4>1
      <4>3. Min(T) = Min(U)
        BY <4>1, <4>2, MinIs
      <4> QED BY <2>5, <3>2, <4>2, <4>3
    <3>4. Base1(e) \in 1 .. 2
      BY <2>4, <3>1, <3>2
    <3> QED BY <3>3, <3>4
  <2> QED BY <2>6, <2>7
<1> HIDE DEF Main, Base1
<1>6. systemd_config_files(e) = Unavailable \/ systemd_config_files(e) = systemd_config_files(f)
  <2> DEFINE Of(v, j, dropins) ==
        IF Exists(v, "systemd_analyze") /\ Run(v, "systemd_analyze").ok THEN Run(v, "systemd_analyze").out
        ELSE IF dropins = Unavailable \/ (j # 0 /\ ReadText(v, SystemdMain[j]) = Unavailable) THEN Unavailable
        ELSE (IF j = 0 THEN <<>> ELSE <<Content(v, SystemdMain[j])>>) \o dropins
  <2>1. \A v : systemd_config_files(v) = Of(v, Main(v), Chosen(v, SystemdDirs))
    BY DEF systemd_config_files, Main
  <2>2. Chosen(e, SystemdDirs) = Unavailable \/ Chosen(e, SystemdDirs) = Chosen(f, SystemdDirs)
    BY ChosenWithholds
  <2>3. /\ Main(e) # 0 => ReadText(e, SystemdMain[Main(e)]) = Unavailable \/ ReadText(e, SystemdMain[Main(e)]) = ReadText(f, SystemdMain[Main(f)])
        /\ Main(e) # 0 => Content(e, SystemdMain[Main(e)]) = Content(f, SystemdMain[Main(f)])
    BY <1>3, <1>4
  <2>4. Of(e, Main(e), Chosen(e, SystemdDirs)) = Unavailable
        \/ Of(e, Main(e), Chosen(e, SystemdDirs)) = Of(f, Main(f), Chosen(f, SystemdDirs))
    BY <1>1, <1>4, <2>2, <2>3
  <2> HIDE DEF Of
  <2> QED BY <2>1, <2>4
<1>7. systemd_option(e, option) = Unavailable \/ systemd_option(e, option) = systemd_option(f, option)
  <2> DEFINE Setting(files) == SelectLastInSeq(files, LAMBDA g : g.set[option] # <<>>)
             Of(v, files, b) ==
               IF files = Unavailable \/ Withheld(v, files) THEN Unavailable
               ELSE IF Setting(files) # 0 THEN [value |-> Last(files[Setting(files)].set[option]), default |-> Absent]
               ELSE IF b = 0 THEN [value |-> Absent, default |-> Absent]
               ELSE IF Closed(v, SystemdMain[b]) THEN Unavailable
               ELSE [value |-> Absent, default |-> Content(v, SystemdMain[b]).documented[option]]
  <2>1. \A v : systemd_option(v, option) = Of(v, systemd_config_files(v), Base1(v))
    BY DEF systemd_option, Base1
  <2>2. ~Withheld(f, systemd_config_files(f)) /\ \A g : ~Closed(f, g)
    BY RootReadsAll DEF AsUser, Content, Closed
  <2> HIDE DEF Setting
  <2> QED BY <1>3, <1>5, <1>6, <2>1, <2>2
<1> QED BY <1>7

(* The checks on journald, timesyncd and the daemons that keep time. *)
LEMMA JournalWithholds ==
  ASSUME NEW e, NEW f, AsUser(e, f), NEW check, NEW hosts, {"systemd_analyze", "systemd_etc", "systemd_lib"} \cap e.hidden = {},
         Content(f, "systemd_analyze") # Absent => Content(f, "systemd_analyze")["user"] = Content(f, "systemd_analyze")["root"]
  PROVE  /\ systemd_config(e, check) \in {"NOT_ASSESSED", systemd_config(f, check)}
         /\ journald_to_rsyslog(e) \in {"NOT_ASSESSED", journald_to_rsyslog(f)}
         /\ timesyncd_servers(e, hosts) \in {"NOT_ASSESSED", timesyncd_servers(f, hosts)}
         /\ single_time_daemon(e) \in {"NOT_ASSESSED", single_time_daemon(f)}
<1>1. \A o : systemd_option(e, o) = Unavailable \/ systemd_option(e, o) = systemd_option(f, o)
  BY OptionWithholds
<1>2. Packages(e) = Unavailable \/ Packages(e) = Packages(f)
  BY UserReads DEF Packages
<1>3. Units(e) = Unavailable \/ Units(e) = Units(f)
  BY UserReads DEF Units
<1>4. systemd_config(e, check) \in {"NOT_ASSESSED", systemd_config(f, check)}
  <2> DEFINE Of(packages, o) ==
        IF check.package # "" /\ packages = Unavailable THEN "NOT_ASSESSED"
        ELSE IF check.package # "" /\ check.package \notin DOMAIN packages THEN "PASS"
        ELSE Needs(<<o>>,
                   LET default == IF o.default # Absent THEN o.default ELSE check.builtin
                   IN  Verdict(IF o.value # Absent THEN o.value \notin check.expected ELSE default \notin check.expected))
  <2>1. \A v : systemd_config(v, check) = Of(Packages(v), systemd_option(v, check.option))
    BY DEF systemd_config, Installed
  <2>2. \A o : Of(Unavailable, o) = "NOT_ASSESSED" \/ \A p : Of(p, o) = Of(Unavailable, o)
    OBVIOUS
  <2>3. \A p, o : Of(p, Unavailable) \in {"NOT_ASSESSED", Of(p, o)}
    BY NeedsBoth
  <2> HIDE DEF Of
  <2> QED BY <1>1, <1>2, <2>1, <2>2, <2>3
<1>5. journald_to_rsyslog(e) \in {"NOT_ASSESSED", journald_to_rsyslog(f)}
  <2> DEFINE Forward(v) == systemd_option(v, "ForwardToSyslog")
  <2>1. CASE Forward(e) = Unavailable \/ Units(e) = Unavailable
    <3>1. PICK o : journald_to_rsyslog(e) = Needs(<<Forward(e), Units(e)>>, o)
      BY DEF journald_to_rsyslog
    <3> QED BY <2>1, <3>1, NeedsBoth
  <2>2. CASE Forward(e) = Forward(f) /\ Units(e) = Units(f)
    BY <2>2 DEF journald_to_rsyslog
  <2> QED BY <1>1, <1>3, <2>1, <2>2
<1>6. timesyncd_servers(e, hosts) \in {"NOT_ASSESSED", timesyncd_servers(f, hosts)}
  <2> DEFINE Ntp(v) == systemd_option(v, "NTP")
             Fallback(v) == systemd_option(v, "FallbackNTP")
             Found(a, b) == {a.value, b.value} \ {Absent, ""}
             Judge(found) == Verdict(found = {} \/ (hosts # {} /\ ~(found \subseteq hosts)))
             Of(a, b) == Needs(<<a, b>>, Judge(Found(a, b)))
  <2>1. \A v : timesyncd_servers(v, hosts) = Of(Ntp(v), Fallback(v))
    BY DEF timesyncd_servers
  <2> HIDE DEF Judge, Found
  <2>2. ASSUME NEW a, NEW b, a = Unavailable \/ b = Unavailable PROVE Of(a, b) = "NOT_ASSESSED"
    BY <2>2, NeedsBoth
  <2> HIDE DEF Of
  <2> QED BY <1>1, <2>1, <2>2
<1>7. single_time_daemon(e) \in {"NOT_ASSESSED", single_time_daemon(f)}
  <2>1. CASE Units(e) = Unavailable
    BY <2>1, NeedsBoth DEF single_time_daemon
  <2>2. CASE Units(e) = Units(f)
    BY <2>2 DEF single_time_daemon
  <2> QED BY <1>3, <2>1, <2>2
<1> QED BY <1>4, <1>5, <1>6, <1>7

(* The checks on rsyslog. *)
LEMMA RsyslogWithholds ==
  ASSUME NEW e, NEW f, AsUser(e, f), "rsyslog_conf" \notin e.hidden
  PROVE  /\ rsyslog_file_create_mode(e) \in {"NOT_ASSESSED", rsyslog_file_create_mode(f)}
         /\ rsyslog_no_remote_input(e) \in {"NOT_ASSESSED", rsyslog_no_remote_input(f)}
         /\ rsyslog_gtls(e) \in {"NOT_ASSESSED", rsyslog_gtls(f)}
<1>1. rsyslog_lines(e) = Unavailable \/ rsyslog_lines(e) = rsyslog_lines(f)
  <2>1. /\ Exists(e, "rsyslog_conf") = Exists(f, "rsyslog_conf")
        /\ ReadText(e, "rsyslog_conf") = Unavailable \/ ReadText(e, "rsyslog_conf") = ReadText(f, "rsyslog_conf")
        /\ Glob(e, "rsyslog_d") = Unavailable \/ Glob(e, "rsyslog_d") = Glob(f, "rsyslog_d")
    BY UserReads
  <2> QED BY <2>1 DEF rsyslog_lines
<1>2. CASE rsyslog_lines(e) = Unavailable
  BY <1>2, NeedsBoth DEF rsyslog_file_create_mode, rsyslog_no_remote_input, rsyslog_gtls
<1>3. CASE rsyslog_lines(e) = rsyslog_lines(f)
  <2>1. \A key : Tagged(e, key) = Tagged(f, key)
    BY <1>3 DEF Tagged
  <2> QED BY <1>3, <2>1 DEF rsyslog_file_create_mode, rsyslog_no_remote_input, rsyslog_gtls
<1> QED BY <1>1, <1>2, <1>3

(* The sources of chrony. *)
LEMMA ChronyWithholds ==
  ASSUME NEW e, NEW f, AsUser(e, f), NEW hosts
  PROVE  chrony_sources(e, hosts) \in {"NOT_ASSESSED", chrony_sources(f, hosts)}
<1>1. chrony_files(e) = Unavailable \/ chrony_files(e) = chrony_files(f)
  <2> DEFINE More(v, conf) == [j \in DOMAIN conf.dirs |-> Glob(v, conf.dirs[j])]
             Of(v, conf, more) ==
               IF conf = Unavailable THEN Unavailable
               ELSE IF \E j \in DOMAIN more : more[j] = Unavailable \/ Withheld(v, more[j]) THEN Unavailable
               ELSE conf.sources \cup UNION {g.sources : g \in ToSet(FlattenSeq(more))}
             Conf(v) == CollectOr(v, "chrony_conf", [sources |-> {}, dirs |-> <<>>])
  <2>1. \A v : chrony_files(v) = Of(v, Conf(v), More(v, Conf(v)))
    BY DEF chrony_files
  <2>2. Conf(e) = Unavailable \/ Conf(e) = Conf(f)
    BY UserReads
  <2>3. CASE Conf(e) = Unavailable
    BY <2>1, <2>3
  <2>4. CASE Conf(e) = Conf(f) /\ \E j \in DOMAIN Conf(e).dirs : Glob(e, Conf(e).dirs[j]) = Unavailable
    BY <2>1, <2>4
  <2>5. CASE Conf(e) = Conf(f) /\ \A j \in DOMAIN Conf(e).dirs : Glob(e, Conf(e).dirs[j]) # Unavailable
    <3>1. \A j \in DOMAIN Conf(e).dirs : Glob(e, Conf(e).dirs[j]) = Glob(f, Conf(f).dirs[j])
      BY <2>5, UserReads
    <3>2. More(e, Conf(e)) = More(f, Conf(f))
      BY <2>5, <3>1
    <3>3. \A s : ~Withheld(f, s)
      BY RootReadsAll
    <3> HIDE DEF More, Conf
    <3> QED BY <2>1, <2>5, <3>2, <3>3
  <2> QED BY <2>2, <2>3, <2>4, <2>5
<1>2. CASE chrony_files(e) = Unavailable
  BY <1>2, NeedsBoth DEF chrony_sources
<1>3. CASE chrony_files(e) = chrony_files(f)
  BY <1>3 DEF chrony_sources
<1> QED BY <1>1, <1>2, <1>3

(* Every check of kernel.py and logs.py but the one on the processes of chrony. *)
LEMMA KernelWithholds ==
  ASSUME NEW e, NEW f, AsUser(e, f), NEW check, check.type \in KernelTypes \ {"chrony_user"},
         KernelNames \cap e.hidden = {},
         AnswersAll(f, {"modprobe", "systemd_sysctl", "systemd_analyze"})
  PROVE  KernelVerdict(check, e) \in {"NOT_ASSESSED", KernelVerdict(check, f)}
<1>1. CASE check.type \in {"kernel_module", "wireless_interfaces"}
  BY <1>1, ModulesWithhold DEF KernelVerdict, KernelNames, AnswersAll
<1>2. CASE check.type = "sysctl"
  BY <1>2, SysctlWithholds DEF KernelVerdict, KernelNames, AnswersAll
<1>3. CASE check.type \in {"systemd_config", "journald_to_rsyslog", "timesyncd_servers", "single_time_daemon"}
  BY <1>3, JournalWithholds DEF KernelVerdict, KernelNames, AnswersAll
<1>4. CASE check.type \in {"rsyslog_file_create_mode", "rsyslog_no_remote_input", "rsyslog_gtls"}
  BY <1>4, RsyslogWithholds DEF KernelVerdict, KernelNames
<1>5. CASE check.type = "chrony_sources"
  BY <1>5, ChronyWithholds DEF KernelVerdict
<1> QED BY <1>1, <1>2, <1>3, <1>4, <1>5 DEF KernelTypes

(* conditions.py: a condition the user cannot tell is not told otherwise. *)
LEMMA ConditionWithholds ==
  ASSUME NEW e, NEW f, AsUser(e, f), NEW c, {"sshd", "proc_ipv6"} \cap e.hidden = {},
         c.type \in ConditionTypes,
         c.type = "path_exists" => c.path \notin e.hidden
  PROVE  Applies(c, e) = Unavailable \/ Applies(c, e) = Applies(c, f)
<1>1. Packages(e) = Unavailable \/ Packages(e) = Packages(f)
  BY UserReads DEF Packages
<1>2. \A names : any_installed(e, names) = Unavailable \/ any_installed(e, names) = any_installed(f, names)
  BY <1>1 DEF any_installed, Installed
<1>3. Exists(e, "sshd") = Exists(f, "sshd") /\ Exists(e, "proc_ipv6") = Exists(f, "proc_ipv6")
      /\ (c.type = "path_exists" => Exists(e, c.path) = Exists(f, c.path))
  BY UserReads
<1>4. sshd_installed(e) = Unavailable \/ sshd_installed(e) = sshd_installed(f)
  BY <1>1, <1>3 DEF sshd_installed, Installed
<1>5. ipv6_active(e) = Unavailable \/ ipv6_active(e) = ipv6_active(f)
  <2>1. /\ ReadText(e, "ipv6_disable") = Unavailable \/ ReadText(e, "ipv6_disable") = ReadText(f, "ipv6_disable")
        /\ ReadText(e, "ipv6_all") = Unavailable \/ ReadText(e, "ipv6_all") = ReadText(f, "ipv6_all")
        /\ ReadText(e, "ipv6_default") = Unavailable \/ ReadText(e, "ipv6_default") = ReadText(f, "ipv6_default")
    BY UserReads
  <2>2. \A a, b : ToSet(<<a, b>>) = {a, b}
    BY DEF ToSet
  <2>3. \A v : ipv6_active(v) =
          IF ReadText(v, "ipv6_disable") = Unavailable THEN Unavailable
          ELSE IF ReadText(v, "ipv6_disable") \notin {Absent, "0"} \/ ~Exists(v, "proc_ipv6") THEN FALSE
          ELSE IF Unavailable \in {ReadText(v, "ipv6_all"), ReadText(v, "ipv6_default")} THEN Unavailable
          ELSE <<ReadText(v, "ipv6_all"), ReadText(v, "ipv6_default")>> # <<"1", "1">>
    BY <2>2 DEF ipv6_active
  <2> QED BY <1>3, <2>1, <2>3
<1>6. Content(e, "network_router") = Content(f, "network_router")
  BY DEF AsUser, Content
<1> QED BY <1>2, <1>3, <1>4, <1>5, <1>6 DEF Applies, ConditionTypes

------------------------------------------------------------------------------
(* packages.py *)
(* The checks on installed packages and on units. *)
LEMMA InstalledWithholds ==
  ASSUME NEW e, NEW f, AsUser(e, f), NEW check, NEW arg
  PROVE  /\ package_installed(e, arg) \in {"NOT_ASSESSED", package_installed(f, arg)}
         /\ package_absent(e, arg) \in {"NOT_ASSESSED", package_absent(f, arg)}
         /\ unit_state(e, check) \in {"NOT_ASSESSED", unit_state(f, check)}
         /\ units_not_in_use(e, arg) \in {"NOT_ASSESSED", units_not_in_use(f, arg)}
         /\ service_not_in_use(e, arg) \in {"NOT_ASSESSED", service_not_in_use(f, arg)}
<1>1. Packages(e) = Unavailable \/ Packages(e) = Packages(f)
  BY UserReads DEF Packages
<1>2. Units(e) = Unavailable \/ Units(e) = Units(f)
  BY UserReads DEF Units
<1> DEFINE Inst(packages) == Needs(<<packages>>, Verdict(~ \E option \in arg : option \subseteq DOMAIN packages))
           Abs(packages) == Needs(<<packages>>, Verdict(arg \cap DOMAIN packages # {}))
           State(units) ==
             LET asked == IF check.any_existing THEN {s \in check.units : units[s.name].exists} ELSE check.units
             IN  Needs(<<units>>, Verdict(asked = {} \/ \E s \in asked : UnitProblem(units[s.name], s)))
           Idle(units, names) == Needs(<<units>>, Verdict(\E n \in names : InUse(units[n])))
           Service(packages, units) ==
             LET present == {g \in arg : g.packages \cap DOMAIN packages # {}} IN
             IF packages = Unavailable THEN "NOT_ASSESSED"
             ELSE IF present = {} THEN "PASS"
             ELSE Idle(units, UNION {g.units : g \in present})
<1>3. \A v : /\ package_installed(v, arg) = Inst(Packages(v)) /\ package_absent(v, arg) = Abs(Packages(v))
             /\ unit_state(v, check) = State(Units(v)) /\ units_not_in_use(v, arg) = Idle(Units(v), arg)
             /\ service_not_in_use(v, arg) = Service(Packages(v), Units(v))
  BY DEF package_installed, package_absent, Matching, unit_state, units_not_in_use, service_not_in_use
<1>4. /\ Inst(Unavailable) = "NOT_ASSESSED" /\ Abs(Unavailable) = "NOT_ASSESSED" /\ State(Unavailable) = "NOT_ASSESSED"
      /\ \A names : Idle(Unavailable, names) = "NOT_ASSESSED"
  BY NeedsBoth
<1>5. /\ \A units : Service(Unavailable, units) = "NOT_ASSESSED"
      /\ \A packages, units : Service(packages, Unavailable) \in {"NOT_ASSESSED", Service(packages, units)}
  <2> HIDE DEF Idle
  <2> QED BY <1>4
<1> HIDE DEF Inst, Abs, State, Idle, Service
<1> QED
  BY <1>1, <1>2, <1>3, <1>4, <1>5

(* The checks that ask APT. *)
LEMMA AptWithholds ==
  ASSUME NEW e, NEW f, AsUser(e, f), NEW arg, {"apt_cache", "apt_config", "sources_list"} \cap e.hidden = {},
         AnswersAll(f, {"apt_cache", "apt_config"})
  PROVE  /\ package_current(e, arg) \in {"NOT_ASSESSED", package_current(f, arg)}
         /\ apt_config_check(e, arg) \in {"NOT_ASSESSED", apt_config_check(f, arg)}
         /\ apt_sources_https(e, arg) \in {"NOT_ASSESSED", apt_sources_https(f, arg)}
<1>1. Packages(e) = Unavailable \/ Packages(e) = Packages(f)
  BY UserReads DEF Packages
<1>2. /\ Exists(e, "apt_cache") = Exists(f, "apt_cache") /\ (Exists(f, "apt_cache") => Run(e, "apt_cache") = Run(f, "apt_cache"))
      /\ Exists(e, "apt_config") = Exists(f, "apt_config") /\ (Exists(f, "apt_config") => Run(e, "apt_config") = Run(f, "apt_config"))
  BY SameToAll DEF AnswersAll
<1>3. package_current(e, arg) \in {"NOT_ASSESSED", package_current(f, arg)}
  <2>1. apt_policy(e, arg) = apt_policy(f, arg)
    BY <1>2 DEF apt_policy
  <2>2. Glob(e, "apt_lists") = Unavailable \/ Glob(e, "apt_lists") = Glob(f, "apt_lists")
    BY UserReads
  <2> QED BY <1>1, <2>1, <2>2 DEF package_current, Installed
<1>4. apt_config_check(e, arg) \in {"NOT_ASSESSED", apt_config_check(f, arg)}
  <2>1. apt_config(e) = apt_config(f)
    BY <1>2 DEF apt_config
  <2> QED BY <2>1 DEF apt_config_check
<1>5. apt_sources_https(e, arg) \in {"NOT_ASSESSED", apt_sources_https(f, arg)}
  <2>1. source_files(e, arg) = Unavailable \/ source_files(e, arg) = source_files(f, arg)
    <3>1. Glob(e, "sources_list_d") = Unavailable \/ Glob(e, "sources_list_d") = Glob(f, "sources_list_d")
      BY UserReads
    <3>2. Exists(e, "sources_list") = Exists(f, "sources_list") /\ ~Closed(f, "sources_list")
      BY UserReads DEF AsUser, Closed
    <3>3. e.val.sources_list = f.val.sources_list
      BY DEF AsUser
    <3> QED BY <3>1, <3>2, <3>3 DEF source_files
  <2>2. ~Withheld(f, source_files(f, arg))
    BY RootReadsAll
  <2> QED BY <2>1, <2>2 DEF apt_sources_https, Verdict
<1> QED BY <1>3, <1>4, <1>5

(* Every check of packages.py. *)
LEMMA PackageWithholds ==
  ASSUME NEW e, NEW f, AsUser(e, f), NEW check, check.type \in PackageTypes,
         {"apt_cache", "apt_config", "sources_list"} \cap e.hidden = {},
         AnswersAll(f, {"apt_cache", "apt_config"})
  PROVE  PackageVerdict(check, e) \in {"NOT_ASSESSED", PackageVerdict(check, f)}
<1>1. CASE check.type \in {"package_installed", "package_absent", "unit_state", "units_not_in_use", "service_not_in_use"}
  BY <1>1, InstalledWithholds DEF PackageVerdict
<1>2. CASE check.type \in {"package_current", "apt_config", "apt_sources_https"}
  BY <1>2, AptWithholds DEF PackageVerdict
<1> QED
  BY <1>1, <1>2 DEF PackageTypes

------------------------------------------------------------------------------
(* content.py, security.py *)
(* The checks on banners. *)
LEMMA BannerWithholds ==
  ASSUME NEW e, NEW f, AsUser(e, f), NEW check, e.hidden = {}
  PROVE  banner_content(e, check) \in {"NOT_ASSESSED", banner_content(f, check)}
<1>1. \A i : /\ Exists(e, i) = Exists(f, i) /\ Content(e, i) = Content(f, i)
             /\ ReadText(e, i) = Unavailable \/ ReadText(e, i) = ReadText(f, i)
             /\ Glob(e, i) = Unavailable \/ Glob(e, i) = Glob(f, i)
  <2>1. \A i : Content(e, i) = Content(f, i)
    BY DEF AsUser, Content
  <2> QED BY <2>1, UserReads
<1> DEFINE all == check.pam = "all"
           Pam(stacks) ==
             {y.motd : y \in {z \in UNION {ToSet(g.lines) : g \in ToSet(stacks)} :
                                ~z.comment /\ (all \/ z.session) /\ z.motd # Absent}}
           Found(v, pam) == {p \in check.paths : Exists(v, p)} \cup {p \in pam : Exists(v, p)}
           Files(v, pam) == {p \in Found(v, pam) : Content(v, p).isfile}
           Bad(v, pam) == \/ check.require_configured /\ Found(v, pam) = {}
                          \/ \E p \in Files(v, pam) : ReadText(v, p).found \cap {"escape", "os"} # {}
           Judge(v, pam) == IF \E p \in Files(v, pam) : ReadText(v, p) = Unavailable THEN "NOT_ASSESSED"
                            ELSE Verdict(Bad(v, pam))
           Of(v, stacks) ==
             IF check.pam # "" /\ (stacks = Unavailable \/ Withheld(v, stacks)) THEN "NOT_ASSESSED"
             ELSE Judge(v, IF check.pam = "" THEN {} ELSE Pam(stacks))
<1>2. \A v : banner_content(v, check) = Of(v, motd_services(v, all))
  BY DEF banner_content, pam_motd_files, pam_motd_paths
<1>3. motd_services(e, all) = Unavailable \/ motd_services(e, all) = motd_services(f, all)
  <2>1. \A d : Services(e, d) = Services(f, d)
    BY <1>1 DEF Services
  <2> DEFINE Ordered(a, b) ==
        LET placed == [j \in DOMAIN Login |-> SelectSeq(a \o b, LAMBDA g : g.service = Login[j])]
        IN  FlattenSeq([j \in DOMAIN Login |-> Upto(placed[j], 1)])
  <2>2. \A v : motd_services(v, all) = IF all THEN Glob(v, "pam_d") ELSE Ordered(Services(v, "pam_d"), Services(v, "usr_pam_d"))
    BY DEF motd_services
  <2> HIDE DEF Ordered
  <2> QED BY <1>1, <2>1, <2>2
<1>4. \A pam : Judge(e, pam) \in {"NOT_ASSESSED", Judge(f, pam)}
  <2> SUFFICES ASSUME NEW pam PROVE Judge(e, pam) \in {"NOT_ASSESSED", Judge(f, pam)}
    OBVIOUS
  <2>1. Found(e, pam) = Found(f, pam)
    BY <1>1
  <2>2. Files(e, pam) = Files(f, pam)
    <3> HIDE DEF Found
    <3> QED BY <1>1, <2>1
  <2>3. CASE \E p \in Files(e, pam) : ReadText(e, p) = Unavailable
    BY <2>3
  <2>4. CASE \A p \in Files(e, pam) : ReadText(e, p) = ReadText(f, p)
    <3>1. Bad(e, pam) <=> Bad(f, pam)
      <4> HIDE DEF Found, Files
      <4> QED BY <2>1, <2>2, <2>4
    <3>2. (\E p \in Files(e, pam) : ReadText(e, p) = Unavailable) <=> (\E p \in Files(f, pam) : ReadText(f, p) = Unavailable)
      <4> HIDE DEF Files
      <4> QED BY <2>2, <2>4
    <3> HIDE DEF Bad, Files
    <3> QED BY <3>1, <3>2 DEF Verdict
  <2> HIDE DEF Judge, Files
  <2> QED BY <1>1, <2>3, <2>4
<1>5. /\ check.pam # "" => Of(e, Unavailable) = "NOT_ASSESSED"
      /\ check.pam = "" => \A s, t : Of(e, s) \in {"NOT_ASSESSED", Of(f, t)}
      /\ \A s : Of(e, s) \in {"NOT_ASSESSED", Of(f, s)}
  <2> HIDE DEF Judge, Pam
  <2> QED BY <1>4, RootReadsAll
<1> HIDE DEF Of, all
<1> QED
  BY <1>2, <1>3, <1>5

(* The checks on GRUB, limits, apport and GDM. *)
LEMMA BootReadsWithhold ==
  ASSUME NEW e, NEW f, AsUser(e, f), NEW check, e.hidden = {}
  PROVE  /\ bootloader_password(e) \in {"NOT_ASSESSED", bootloader_password(f)}
         /\ GrubEntries(e) = Unavailable \/ GrubEntries(e) = GrubEntries(f)
         /\ grub_cmdline(e, check) \in {"NOT_ASSESSED", grub_cmdline(f, check)}
         /\ core_dump_limit(e) \in {"NOT_ASSESSED", core_dump_limit(f)}
         /\ apport_disabled(e) \in {"NOT_ASSESSED", apport_disabled(f)}
         /\ gdm_config(e, check) \in {"NOT_ASSESSED", gdm_config(f, check)}
<1>1. \A i : /\ Exists(e, i) = Exists(f, i) /\ Content(e, i) = Content(f, i)
             /\ ReadText(e, i) = Unavailable \/ ReadText(e, i) = ReadText(f, i)
             /\ Glob(e, i) = Unavailable \/ Glob(e, i) = Glob(f, i)
             /\ Collect(e, i) = Unavailable \/ Collect(e, i) = Collect(f, i)
             /\ WalkFiles(e, i) = Unavailable \/ WalkFiles(e, i) = WalkFiles(f, i)
             /\ \A empty : CollectOr(e, i, empty) = Unavailable \/ CollectOr(e, i, empty) = CollectOr(f, i, empty)
  <2>1. \A i : Content(e, i) = Content(f, i)
    BY DEF AsUser, Content
  <2> QED BY <2>1, UserReads
<1>2. bootloader_password(e) \in {"NOT_ASSESSED", bootloader_password(f)}
  BY <1>1 DEF bootloader_password
<1>3. GrubEntries(e) = Unavailable \/ GrubEntries(e) = GrubEntries(f)
  BY <1>1, RootReadsAll DEF GrubEntries, grub_configs
<1>4. grub_cmdline(e, check) \in {"NOT_ASSESSED", grub_cmdline(f, check)}
  <2>1. cmdlines(e) = Unavailable \/ cmdlines(e) = cmdlines(f)
    BY <1>1, <1>3, DistinctAnswers DEF cmdlines
  <2> DEFINE Of(lines) ==
        IF lines = Unavailable THEN "NOT_ASSESSED"
        ELSE LET entries == ToSet(FlattenSeq(lines)) IN
             IF entries = {} THEN "NOT_ASSESSED"
             ELSE Verdict(\E l \in entries : \/ check.require # "" /\ check.require \notin l
                                             \/ check.forbid # "" /\ check.forbid \in l)
  <2>2. \A v : grub_cmdline(v, check) = Of(cmdlines(v))
    BY DEF grub_cmdline
  <2>3. Of(Unavailable) = "NOT_ASSESSED"
    OBVIOUS
  <2> HIDE DEF Of
  <2> QED BY <2>1, <2>2, <2>3
<1>5. core_dump_limit(e) \in {"NOT_ASSESSED", core_dump_limit(f)}
  <2> DEFINE Of(v, main, files) ==
        LET limits == main \o FlattenSeq([j \in DOMAIN files |-> files[j].limits])
        IN  IF files = Unavailable \/ main = Unavailable \/ Withheld(v, files) THEN "NOT_ASSESSED"
            ELSE Verdict(limits = <<>> \/ \E n \in ToSet(limits) : n # 0)
  <2>1. \A v : core_dump_limit(v) = Of(v, CollectOr(v, "limits_conf", <<>>), Glob(v, "limits_d"))
    BY DEF core_dump_limit
  <2>2. \A main, files : /\ Of(e, Unavailable, files) = "NOT_ASSESSED" /\ Of(e, main, Unavailable) = "NOT_ASSESSED"
                         /\ Of(e, main, files) \in {"NOT_ASSESSED", Of(f, main, files)}
    BY RootReadsAll
  <2> HIDE DEF Of
  <2> QED BY <1>1, <2>1, <2>2
<1>6. apport_disabled(e) \in {"NOT_ASSESSED", apport_disabled(f)}
  <2> DEFINE Out(default, units) == Verdict(default \/ units["apport"].active)
             Of(packages, default, units) ==
               IF packages = Unavailable THEN "NOT_ASSESSED"
               ELSE IF "apport" \notin DOMAIN packages THEN "PASS"
               ELSE Needs(<<default, units>>, Out(default, units))
  <2>1. \A v : apport_disabled(v) = Of(Packages(v), CollectOr(v, "default_apport", FALSE), Units(v))
    BY DEF apport_disabled, Installed
  <2> HIDE DEF Out
  <2>2. \A p, d, u : p = Unavailable \/ d = Unavailable \/ u = Unavailable => Of(p, d, u) \in {"NOT_ASSESSED", IF "apport" \notin DOMAIN p THEN "PASS" ELSE "NOT_ASSESSED"}
    BY NeedsBoth
  <2>4. \A p, d, u : p # Unavailable /\ "apport" \notin DOMAIN p => Of(p, d, u) = "PASS"
    OBVIOUS
  <2>5. \A d, u : Of(Unavailable, d, u) = "NOT_ASSESSED"
    OBVIOUS
  <2>3. /\ Packages(e) = Unavailable \/ Packages(e) = Packages(f)
        /\ Units(e) = Unavailable \/ Units(e) = Units(f)
        /\ CollectOr(e, "default_apport", FALSE) = Unavailable \/ CollectOr(e, "default_apport", FALSE) = CollectOr(f, "default_apport", FALSE)
    BY <1>1 DEF Packages, Units
  <2> HIDE DEF Of
  <2>6. CASE Packages(e) = Unavailable
    BY <2>1, <2>5, <2>6
  <2> DEFINE P == Packages(f)
             D(v) == CollectOr(v, "default_apport", FALSE)
  <2>7. CASE Packages(e) = P /\ P # Unavailable /\ (D(e) = Unavailable \/ Units(e) = Unavailable)
    <3>1. Of(P, D(e), Units(e)) \in {"NOT_ASSESSED", Of(P, D(f), Units(f))}
      BY <2>2, <2>4, <2>7
    <3> QED BY <2>1, <2>7, <3>1
  <2>8. CASE Packages(e) = P /\ D(e) = D(f) /\ Units(e) = Units(f)
    BY <2>1, <2>8
  <2> QED BY <2>3, <2>6, <2>7, <2>8
<1>7. gdm_config(e, check) \in {"NOT_ASSESSED", gdm_config(f, check)}
  <2> DEFINE Names1 == {"gdm3_custom", "gdm3_daemon", "gdm_custom", "gdm_daemon"}
  <2>1. CASE \E i \in Names1 : Exists(e, i) /\ ReadText(e, i) = Unavailable
    BY <2>1 DEF gdm_config
  <2>2. CASE \A i \in Names1 : Exists(e, i) => ReadText(e, i) = ReadText(f, i)
    <3>1. {i \in Names1 : Exists(e, i)} = {i \in Names1 : Exists(f, i)}
      BY <1>1
    <3>2. {i \in {g \in Names1 : Exists(e, g)} : check.setting \in ReadText(e, i)}
          = {i \in {g \in Names1 : Exists(f, g)} : check.setting \in ReadText(f, i)}
      BY <2>2, <3>1
    <3> DEFINE Of(bad, matching) == IF bad THEN "NOT_ASSESSED" ELSE Verdict((matching # {}) = (check.expect = "absent"))
    <3>3. \A v : gdm_config(v, check) =
                  Of(\E i \in {g \in Names1 : Exists(v, g)} : ReadText(v, i) = Unavailable,
                     {i \in {g \in Names1 : Exists(v, g)} : check.setting \in ReadText(v, i)})
      BY DEF gdm_config
    <3>4. (\E i \in {g \in Names1 : Exists(e, g)} : ReadText(e, i) = Unavailable)
          <=> (\E i \in {g \in Names1 : Exists(f, g)} : ReadText(f, i) = Unavailable)
      BY <2>2, <3>1
    <3> QED BY <3>2, <3>3, <3>4
  <2> QED BY <1>1, <2>1, <2>2
<1> QED
  BY <1>2, <1>3, <1>4, <1>5, <1>6, <1>7

(* The checks on AppArmor: what aa-status refuses to tell is withheld. *)
LEMMA ApparmorWithholds ==
  ASSUME NEW e, NEW f, AsUser(e, f), e.hidden = {},
         ApparmorAnswers(f)
  PROVE  /\ apparmor_enabled(e) \in {"NOT_ASSESSED", apparmor_enabled(f)}
         /\ apparmor_enforcing(e) \in {"NOT_ASSESSED", apparmor_enforcing(f)}
<1>1. apparmor_status(e) = Unavailable \/ apparmor_status(e) = apparmor_status(f)
  <2>1. Exists(e, "aa_status") = Exists(f, "aa_status") /\ Content(e, "aa_status") = Content(f, "aa_status")
    BY UserReads DEF AsUser, Content
  <2> QED BY <2>1 DEF apparmor_status, Run, AsUser, Exists, ApparmorAnswers
<1>2. /\ CollectOr(e, "grub_apparmor", {}) = Unavailable \/ CollectOr(e, "grub_apparmor", {}) = CollectOr(f, "grub_apparmor", {})
      /\ Units(e) = Unavailable \/ Units(e) = Units(f)
      /\ GrubEntries(e) = Unavailable \/ GrubEntries(e) = GrubEntries(f)
  BY UserReads, BootReadsWithhold DEF Units
<1>3. apparmor_enforcing(e) \in {"NOT_ASSESSED", apparmor_enforcing(f)}
  <2> DEFINE Out(s) == Verdict(s.loaded = 0 \/ s.enforce # s.loaded \/ s.lenient > 0 \/ s.unconfined > 0)
             Of(s) == Needs(<<s>>, Out(s))
  <2>1. \A v : apparmor_enforcing(v) = Of(apparmor_status(v))
    BY DEF apparmor_enforcing
  <2> HIDE DEF Out
  <2>2. Of(Unavailable) = "NOT_ASSESSED"
    BY NeedsBoth
  <2> HIDE DEF Of
  <2> QED BY <1>1, <2>1, <2>2
<1>4. apparmor_enabled(e) \in {"NOT_ASSESSED", apparmor_enabled(f)}
  <2> DEFINE Out(entries, dropin, units, s) ==
        Verdict(\/ \E l \in ToSet(FlattenSeq(entries)) : "apparmor=0" \in l
                \/ "apparmor=0" \in dropin
                \/ ~Enabled(units["apparmor"])
                \/ ~units["apparmor"].active
                \/ s.loaded <= 0)
             Of(entries, dropin, units, s) == Needs(<<entries, dropin, units, s>>, Out(entries, dropin, units, s))
             Dropin(v) == CollectOr(v, "grub_apparmor", {})
  <2>1. \A v : apparmor_enabled(v) = Of(GrubEntries(v), Dropin(v), Units(v), apparmor_status(v))
    BY DEF apparmor_enabled
  <2> HIDE DEF Out
  <2>2. \A a, b, c, d : a = Unavailable \/ b = Unavailable \/ c = Unavailable \/ d = Unavailable => Of(a, b, c, d) = "NOT_ASSESSED"
    BY DEF Needs
  <2> HIDE DEF Of
  <2> QED BY <1>1, <1>2, <2>1, <2>2
<1> QED
  BY <1>3, <1>4

(* Every check of content.py and security.py but the one that asks the session. *)
LEMMA BootWithholds ==
  ASSUME NEW e, NEW f, AsUser(e, f), NEW check, check.type \in BootTypes \ {"gsettings"}, e.hidden = {},
         ApparmorAnswers(f)
  PROVE  BootVerdict(check, e) \in {"NOT_ASSESSED", BootVerdict(check, f)}
<1>1. CASE check.type = "banner_content"
  BY <1>1, BannerWithholds DEF BootVerdict
<1>2. CASE check.type \in {"bootloader_password", "grub_cmdline", "core_dump_limit", "apport_disabled", "gdm_config"}
  BY <1>2, BootReadsWithhold DEF BootVerdict
<1>3. CASE check.type \in {"apparmor_enabled", "apparmor_enforcing"}
  BY <1>3, ApparmorWithholds DEF BootVerdict
<1> QED
  BY <1>1, <1>2, <1>3 DEF BootTypes

------------------------------------------------------------------------------
(* esxi.py *)
(* Every check of esxi.py but those on virtual machines. *)
LEMMA EsxiWithholds ==
  ASSUME NEW e, NEW f, AsUser(e, f), NEW check, check.type \in EsxiTypes,
         {"esxcli", "vimcmd", "chkconfig"} \cap e.hidden = {},
         AnswersAll(f, {"esxcli", "vimcmd", "chkconfig"})
  PROVE  EsxiVerdict(check, e) \in {"NOT_ASSESSED", EsxiVerdict(check, f)}
<1>1. \A c \in {"esxcli", "vimcmd", "chkconfig"} : Exists(e, c) = Exists(f, c) /\ (Exists(f, c) => Run(e, c) = Run(f, c))
  BY SameToAll DEF AnswersAll
<1>2. \A q : esxcli(e, q) = esxcli(f, q) /\ vimcmd(e, q) = vimcmd(f, q)
  BY <1>1 DEF esxcli, vimcmd, Ask
<1>3. \A k : advanced_option(e, k) = advanced_option(f, k)
  BY <1>2 DEF advanced_option
<1>4. services(e) = services(f)
  <2>1. e.val = f.val
    BY DEF AsUser
  <2>2. CASE Exists(f, "chkconfig")
    BY <1>1, <1>2, <2>1, <2>2 DEF services
  <2>3. CASE ~Exists(f, "chkconfig")
    BY <1>1, <1>2, <2>1, <2>3 DEF services
  <2> QED BY <2>2, <2>3
<1>5. CASE check.type = "esxi_advanced"
  BY <1>3, <1>5 DEF EsxiVerdict, esxi_advanced, Verdict
<1>6. CASE check.type = "esxi_mob_disabled"
  BY <1>2, <1>3, <1>6 DEF EsxiVerdict, esxi_mob_disabled
<1>7. CASE check.type \in {"esxi_acceptance", "esxi_lockdown", "esxi_coredump_network", "esxi_nonroot_admin"}
  BY <1>2, <1>7 DEF EsxiVerdict, esxi_acceptance, esxi_lockdown, lockdown_mode, esxi_coredump_network, esxi_nonroot_admin
<1>8. CASE check.type = "esxi_service_disabled"
  BY <1>4, <1>8 DEF EsxiVerdict, esxi_service_disabled
<1>9. CASE check.type = "esxi_ntp"
  <2> DEFINE Out(servers, s, approved) ==
        Verdict(\/ servers = {}
                \/ "ntpd" \notin DOMAIN s
                \/ ~s["ntpd"].running \/ s["ntpd"].policy # "on"
                \/ approved # {} /\ ~(servers \subseteq approved))
             Of(servers, s, approved) == Needs(<<servers, s>>, Out(servers, s, approved))
  <2>1. \A v : esxi_ntp(v, check.approved) = Of(ntp_servers(v), services(v), check.approved)
    BY DEF esxi_ntp
  <2>2. ntp_servers(e) = Unavailable \/ ntp_servers(e) = ntp_servers(f)
    BY <1>2, UserReads DEF ntp_servers
  <2> HIDE DEF Out
  <2>3. \A s, approved : Of(Unavailable, s, approved) = "NOT_ASSESSED"
    BY NeedsBoth
  <2> HIDE DEF Of
  <2> QED BY <1>4, <1>9, <2>1, <2>2, <2>3 DEF EsxiVerdict
<1>10. CASE check.type = "esxi_vswitch_security"
  <2> DEFINE Rejects(switches, groups, policies, policy) ==
        LET targets == Rows(switches) \cup {g.name : g \in Rows(groups)} IN
        IF Unavailable \in {switches, groups, policies} THEN "NOT_ASSESSED"
        ELSE IF \E t \in targets : policies[t][policy] = Absent THEN "NOT_ASSESSED"
        ELSE Verdict(\E t \in targets : as_bool(policies[t][policy]) # FALSE)
  <2>1. \A v : esxi_vswitch_security(v, check.policy) =
               Rejects(esxcli(v, "vswitches"), esxcli(v, "portgroups"), esxcli(v, "policies"), check.policy)
    BY DEF esxi_vswitch_security, vswitches, portgroups
  <2> HIDE DEF Rejects
  <2>2. esxi_vswitch_security(e, check.policy) = esxi_vswitch_security(f, check.policy)
    BY <1>2, <2>1
  <2>3. standard_vswitch_present(e) = standard_vswitch_present(f)
    BY <1>2 DEF standard_vswitch_present, Condition, vswitches
  <2> QED BY <1>10, <2>2, <2>3 DEF EsxiVerdict
<1>11. CASE check.type = "esxi_portgroup_vlan"
  <2> DEFINE Offends(val, groups) ==
        LET forbidden == check.forbid \cup (IF check.native_vlan THEN {val.native_vlan} ELSE {})
        IN  Needs(<<groups>>, Verdict(\E g \in Rows(groups) : g.vlan \in forbidden /\ ~(g.vlan = 4095 /\ g.name \in val.vgt_portgroups)))
  <2>1. \A v : esxi_portgroup_vlan(v, check) = Offends(v.val, esxcli(v, "portgroups"))
    BY DEF esxi_portgroup_vlan, portgroups
  <2> HIDE DEF Offends
  <2>2. esxi_portgroup_vlan(e, check) = esxi_portgroup_vlan(f, check)
    BY <1>2, <2>1 DEF AsUser
  <2>3. standard_vswitch_present(e) = standard_vswitch_present(f)
    BY <1>2 DEF standard_vswitch_present, Condition, vswitches
  <2> QED BY <1>11, <2>2, <2>3 DEF EsxiVerdict
<1>12. CASE check.type = "esxi_iscsi_chap"
  BY <1>2, <1>12 DEF EsxiVerdict, iscsi_present, Condition, esxi_iscsi_chap
<1> QED
  BY <1>5, <1>6, <1>7, <1>8, <1>9, <1>10, <1>11, <1>12 DEF EsxiTypes

(* What sshd -T prints for each context, and the files it includes. *)
LEMMA SshWithholds ==
  ASSUME NEW e, NEW f, AsUser(e, f), {"sshd", "ip"} \cap e.hidden = {}, SshAnswers(f)
  PROVE  /\ sshd_contexts(e) = sshd_contexts(f)
         /\ \A c \in ToSet(sshd_contexts(f)) : sshd_config(e, c) = Unavailable \/ sshd_config(e, c) = sshd_config(f, c)
         /\ sshd_primary(e) = Unavailable \/ sshd_primary(e) = sshd_primary(f)
         /\ sshd_config_files(e) = Unavailable \/ sshd_config_files(e) = sshd_config_files(f)
         /\ sshd_config_files(f) = visited(f.val)
<1>1. e.val = f.val /\ \A i : Content(e, i) = Content(f, i)
  BY DEF AsUser, Content
<1>2. Exists(e, "sshd") = Exists(f, "sshd")
  BY UserReads
<1>3. Exists(e, "ip") = Exists(f, "ip") /\ (Exists(f, "ip") => Run(e, "ip") = Run(f, "ip"))
  BY SameToAll DEF SshAnswers, AnswersAll
<1>4. sshd_contexts(e) = sshd_contexts(f)
  <2>1. primary_address(e) = primary_address(f)
    BY <1>3 DEF primary_address
  <2> QED BY <1>1, <2>1 DEF sshd_contexts
<1>5. \A c \in ToSet(sshd_contexts(f)) : sshd_config(e, c) = Unavailable \/ sshd_config(e, c) = sshd_config(f, c)
  <2> SUFFICES ASSUME NEW c \in ToSet(sshd_contexts(f)) PROVE sshd_config(e, c) = Unavailable \/ sshd_config(e, c) = sshd_config(f, c)
    OBVIOUS
  <2>1. CASE ~Exists(e, "sshd")
    BY <2>1 DEF sshd_config
  <2>2. CASE Exists(e, "sshd")
    <3>1. Run(e, "sshd") = Content(f, "sshd")["user"] /\ Run(f, "sshd") = Content(f, "sshd")["root"] /\ Content(f, "sshd") # Absent
      BY <1>1, <2>2 DEF Run, Exists, AsUser
    <3> QED BY <1>2, <2>2, <3>1 DEF sshd_config, SshAnswers
  <2> QED BY <2>1, <2>2
<1>6. sshd_contexts(f)[1] \in ToSet(sshd_contexts(f))
  BY DEF SshAnswers, ToSet
<1>7. \A v : sshd_config_files(v) \in {Unavailable, visited(v.val)}
  BY DEF sshd_config_files, Opened
<1>8. sshd_config_files(f) = visited(f.val)
  <2>1. f.root = TRUE
    BY DEF AsUser
  <2> QED BY <2>1, RootReadsAll DEF sshd_config_files, Opened, Barred
<1> QED
  BY <1>1, <1>4, <1>5, <1>6, <1>7, <1>8 DEF sshd_primary

(* The checks on UFW. *)
LEMMA UfwWithholds ==
  ASSUME NEW e, NEW f, AsUser(e, f), "ufw" \notin e.hidden, UfwAnswers(f), NEW d, NEW a
  PROVE  /\ ufw_service(e) \in {"NOT_ASSESSED", ufw_service(f)}
         /\ ufw_default(e, d, a) \in {"NOT_ASSESSED", ufw_default(f, d, a)}
<1>1. ufw_status(e) = Unavailable \/ ufw_status(e) = ufw_status(f)
  <2>1. Exists(e, "ufw") = Exists(f, "ufw") /\ Content(e, "ufw") = Content(f, "ufw")
    BY UserReads DEF AsUser, Content
  <2>2. CASE ~Exists(e, "ufw")
    BY <2>2 DEF ufw_status
  <2>3. CASE Exists(e, "ufw")
    <3>1. Run(e, "ufw") = Content(f, "ufw")["user"] /\ Run(f, "ufw") = Content(f, "ufw")["root"] /\ Content(f, "ufw") # Absent
      BY <2>1, <2>3 DEF Run, Exists, AsUser
    <3> QED BY <2>1, <2>3, <3>1 DEF ufw_status, UfwAnswers
  <2> QED BY <2>2, <2>3
<1>2. /\ Packages(e) = Unavailable \/ Packages(e) = Packages(f)
      /\ Units(e) = Unavailable \/ Units(e) = Units(f)
      /\ ufw_config_policies(e) = Unavailable \/ ufw_config_policies(e) = ufw_config_policies(f)
  BY UserReads DEF Packages, Units, ufw_config_policies
<1> DEFINE Within(packages, outcome) == Needs(<<packages>>, IF "ufw" \notin DOMAIN packages THEN "FAIL" ELSE outcome)
           Serves(units, status) == Verdict(~Enabled(units["ufw"]) \/ ~units["ufw"].active \/ status.status # "active")
           Service(units, status) == Needs(<<units, status>>, Serves(units, status))
           Allows(status, policies) ==
             LET reported == Default(status.policies, d, "")
                 policy == IF d = "routed" /\ reported = "disabled" THEN Default(policies, "routed", "") ELSE reported
             IN  Verdict(status.status # "active" \/ policy \notin a)
           Policy(status, policies) == Needs(<<status, policies>>, Allows(status, policies))
<1>3. \A v : /\ ufw_service(v) = Within(Packages(v), Service(Units(v), ufw_status(v)))
             /\ ufw_default(v, d, a) = Within(Packages(v), Policy(ufw_status(v), ufw_config_policies(v)))
  BY DEF ufw_service, ufw_default, InstalledUfw, Installed
<1> HIDE DEF Serves, Allows
<1>4. \A b, c : b = Unavailable \/ c = Unavailable => Service(b, c) = "NOT_ASSESSED" /\ Policy(b, c) = "NOT_ASSESSED"
  BY NeedsBoth
<1>5. \A o : Within(Unavailable, o) = "NOT_ASSESSED"
  BY NeedsBoth
<1>6. \A p, o : Within(p, "NOT_ASSESSED") = "NOT_ASSESSED" \/ Within(p, "NOT_ASSESSED") = Within(p, o)
  BY DEF Needs
<1> HIDE DEF Within, Service, Policy
<1> QED
  BY <1>1, <1>2, <1>3, <1>4, <1>5, <1>6

(* The check on the mail transfer agent. *)
LEMMA MailWithholds ==
  ASSUME NEW e, NEW f, AsUser(e, f), NEW ports, {"postconf", "exim", "sendmail_cf"} \cap e.hidden = {},
         AnswersAll(f, {"postconf", "exim"})
  PROVE  mta_local_only(e, ports) \in {"NOT_ASSESSED", mta_local_only(f, ports)}
<1>1. \A c \in {"postconf", "exim"} : Exists(e, c) = Exists(f, c) /\ (Exists(f, c) => Run(e, c) = Run(f, c))
  BY SameToAll DEF AnswersAll
<1>2. mta_interfaces(e) = Unavailable \/ mta_interfaces(e) = mta_interfaces(f)
  BY <1>1, UserReads DEF mta_interfaces
<1>3. listening_sockets(e) = Unavailable \/ listening_sockets(e) = listening_sockets(f)
  <2>1. CASE Unavailable \in {ReadText(e, "tcp"), ReadText(e, "tcp6")}
    BY <2>1 DEF listening_sockets
  <2>2. CASE Unavailable \notin {ReadText(e, "tcp"), ReadText(e, "tcp6")}
    <3>1. \A i \in {"tcp", "tcp6"} : ReadText(e, i) = ReadText(f, i) /\ CollectOr(e, i, {}) = CollectOr(f, i, {})
      BY <2>2, UserReads DEF CollectOr, ReadText, AsUser, Closed, Content
    <3>2. {CollectOr(e, i, {}) : i \in {"tcp", "tcp6"}} = {CollectOr(f, i, {}) : i \in {"tcp", "tcp6"}}
      BY <3>1
    <3> QED BY <3>1, <3>2 DEF listening_sockets
  <2> QED BY <2>1, <2>2
<1> DEFINE Out(sockets, bound) ==
             Verdict(\/ \E s \in sockets : s.port \in ports /\ ~is_loopback(s.addr)
                     \/ bound \notin {Absent, {}} /\ ("all" \in bound \/ ~interfaces_loopback_only(bound)))
           Of(sockets, bound) == Needs(<<sockets, bound>>, Out(sockets, bound))
<1>4. \A v : mta_local_only(v, ports) = Of(listening_sockets(v), mta_interfaces(v))
  BY DEF mta_local_only
<1> HIDE DEF Out
<1>5. \A a, b : a = Unavailable \/ b = Unavailable => Of(a, b) = "NOT_ASSESSED"
  BY NeedsBoth
<1> HIDE DEF Of
<1> QED
  BY <1>2, <1>3, <1>4, <1>5

(* The checks on sshd: one context withheld withholds the option. *)
LEMMA SshdWithholds ==
  ASSUME NEW e, NEW f, AsUser(e, f), {"sshd", "ip", sshd_banner(f)} \cap e.hidden = {}, SshAnswers(f), NEW check
  PROVE  /\ sshd_option(e, check) \in {"NOT_ASSESSED", sshd_option(f, check)}
         /\ sshd_access(e) \in {"NOT_ASSESSED", sshd_access(f)}
         /\ sshd_banner_configured(e) \in {"NOT_ASSESSED", sshd_banner_configured(f)}
<1>1. /\ sshd_contexts(e) = sshd_contexts(f)
      /\ \A c \in ToSet(sshd_contexts(f)) : sshd_config(e, c) = Unavailable \/ sshd_config(e, c) = sshd_config(f, c)
      /\ sshd_primary(e) = Unavailable \/ sshd_primary(e) = sshd_primary(f)
      /\ sshd_config_files(e) = Unavailable \/ sshd_config_files(e) = sshd_config_files(f)
  BY SshWithholds
<1>2. e.val = f.val
  BY DEF AsUser
<1>3. sshd_option(e, check) \in {"NOT_ASSESSED", sshd_option(f, check)}
  <2> DEFINE Configs(v) == [j \in DOMAIN sshd_contexts(v) |-> sshd_config(v, sshd_contexts(v)[j])]
             Files(v) == IF check.file_max = Absent THEN <<>> ELSE sshd_config_files(v)
             Out(configs, files, val) ==
               Verdict(\/ \E c \in ToSet(configs) : \E s \in check.settings : ~evaluate(Default(c, s.option, <<>>), s.rule)
                       \/ \E p \in ToSet(files) : \E n \in val.ssh_files[p].limits : n > check.file_max)
  <2>1. \A v : sshd_option(v, check) = Needs(Append(Configs(v), Files(v)), Out(Configs(v), Files(v), v.val))
    BY DEF sshd_option
  <2>2. Len(sshd_contexts(f)) \in Nat /\ DOMAIN sshd_contexts(f) = 1 .. Len(sshd_contexts(f))
    BY DEF SshAnswers
  <2>3. DOMAIN Configs(e) = 1 .. Len(sshd_contexts(f)) /\ Len(Configs(e)) = Len(sshd_contexts(f))
    BY <1>1, <2>2
  <2>4. /\ Append(Configs(e), Files(e))[Len(sshd_contexts(f)) + 1] = Files(e)
        /\ DOMAIN Append(Configs(e), Files(e)) = 1 .. Len(sshd_contexts(f)) + 1
        /\ \A j \in 1 .. Len(sshd_contexts(f)) : Append(Configs(e), Files(e))[j] = Configs(e)[j]
    <3> DEFINE n == Len(sshd_contexts(f))
               S == {sshd_config(e, sshd_contexts(e)[j]) : j \in 1 .. n}
    <3>1. Configs(e) = [j \in 1 .. n |-> sshd_config(e, sshd_contexts(e)[j])]
      BY <1>1, <2>2
    <3>2. Configs(e) \in [1 .. n -> S]
      BY <3>1
    <3> HIDE DEF Configs, Files, n, S
    <3>3. n \in Nat
      BY <2>2 DEF n
    <3>4. Configs(e) \in Seq(S)
      BY <3>2, <3>3
    <3>5. Len(Configs(e)) = n
      BY <2>3 DEF n
    <3>6. /\ DOMAIN Append(Configs(e), Files(e)) = 1 .. n + 1
          /\ Append(Configs(e), Files(e))[n + 1] = Files(e)
          /\ \A j \in 1 .. n : Append(Configs(e), Files(e))[j] = Configs(e)[j]
      <4>1. Configs(e) \in Seq(S \cup {Files(e)})
        BY <3>2, <3>3
      <4> QED BY <3>3, <3>5, <4>1, AppendProperties
    <3> QED BY <3>6 DEF n
  <2>5. CASE Files(e) = Unavailable \/ \E j \in 1 .. Len(sshd_contexts(f)) : Configs(e)[j] = Unavailable
    <3>1. \E j \in DOMAIN Append(Configs(e), Files(e)) : Append(Configs(e), Files(e))[j] = Unavailable
      <4> HIDE DEF Configs, Files
      <4> QED BY <2>2, <2>4, <2>5
    <3> HIDE DEF Configs, Files, Out
    <3> QED BY <2>1, <3>1, NeedsEach
  <2>6. CASE Files(e) # Unavailable /\ \A j \in 1 .. Len(sshd_contexts(f)) : Configs(e)[j] # Unavailable
    <3>1. Files(e) = Files(f)
      BY <1>1, <2>6
    <3>2. \A j \in 1 .. Len(sshd_contexts(f)) : sshd_config(e, sshd_contexts(e)[j]) = sshd_config(f, sshd_contexts(f)[j])
      <4>1. \A j \in 1 .. Len(sshd_contexts(f)) : sshd_contexts(f)[j] \in ToSet(sshd_contexts(f))
        BY <2>2 DEF ToSet
      <4> QED BY <1>1, <2>2, <2>6, <4>1
    <3>3. Configs(e) = Configs(f)
      BY <1>1, <2>2, <3>2
    <3> HIDE DEF Configs, Files, Out
    <3> QED BY <1>2, <2>1, <3>1, <3>3
  <2> QED BY <2>5, <2>6
<1>4. sshd_access(e) \in {"NOT_ASSESSED", sshd_access(f)}
  <2> DEFINE Out(o) == Verdict(\A k \in {"allowusers", "allowgroups", "denyusers", "denygroups"} : Default(o, k, <<>>) = <<>>)
             Of(o) == Needs(<<o>>, Out(o))
  <2>1. \A v : sshd_access(v) = Of(sshd_primary(v))
    BY DEF sshd_access
  <2> HIDE DEF Out
  <2>2. Of(Unavailable) = "NOT_ASSESSED"
    BY NeedsBoth
  <2> HIDE DEF Of
  <2> QED BY <1>1, <2>1, <2>2
<1>5. sshd_banner_configured(e) \in {"NOT_ASSESSED", sshd_banner_configured(f)}
  <2>1. sshd_banner(e) = Unavailable \/ sshd_banner(e) = sshd_banner(f)
    BY <1>1 DEF sshd_banner
  <2> DEFINE b == sshd_banner(f)
  <2>2. Exists(e, b) = Exists(f, b) /\ (ReadText(e, b) = Unavailable \/ ReadText(e, b) = ReadText(f, b))
    BY UserReads
  <2> DEFINE Out(text) == Verdict(text.discloses)
             Of(banner, there, text) ==
               IF banner = Unavailable THEN "NOT_ASSESSED"
               ELSE IF banner = "none" \/ ~there THEN "FAIL" ELSE Needs(<<text>>, Out(text))
  <2>3. \A v : sshd_banner_configured(v) = Of(sshd_banner(v), Exists(v, sshd_banner(v)), ReadText(v, sshd_banner(v)))
    BY DEF sshd_banner_configured
  <2> HIDE DEF Out
  <2>4. CASE sshd_banner(e) = Unavailable
    BY <2>3, <2>4
  <2>5. CASE sshd_banner(e) = sshd_banner(f) /\ ReadText(e, b) = Unavailable
    BY <2>2, <2>3, <2>5, NeedsBoth
  <2>6. CASE sshd_banner(e) = sshd_banner(f) /\ ReadText(e, b) = ReadText(f, b)
    BY <2>2, <2>3, <2>6
  <2> QED BY <2>1, <2>2, <2>4, <2>5, <2>6
<1> QED
  BY <1>3, <1>4, <1>5

(* Every check of ssh.py and network.py. *)
LEMMA ServiceWithholds ==
  ASSUME NEW e, NEW f, AsUser(e, f), NEW check, check.type \in ServiceTypes,
         {"ufw", "sshd", "ip", "postconf", "exim", "sendmail_cf", sshd_banner(f)} \cap e.hidden = {},
         SshAnswers(f), UfwAnswers(f), AnswersAll(f, {"postconf", "exim"})
  PROVE  ServiceVerdict(check, e) \in {"NOT_ASSESSED", ServiceVerdict(check, f)}
<1>1. CASE check.type \in {"ufw_service", "ufw_default"}
  BY <1>1, UfwWithholds DEF ServiceVerdict
<1>2. CASE check.type = "mta_local_only"
  BY <1>2, MailWithholds DEF ServiceVerdict
<1>3. CASE check.type \in {"sshd_option", "sshd_access", "sshd_banner_configured"}
  BY <1>3, SshdWithholds DEF ServiceVerdict
<1> QED
  BY <1>1, <1>2, <1>3 DEF ServiceTypes

(* Owners and groups have one name for everybody: passwd and group are open. *)
LEMMA NamesAlike ==
  ASSUME NEW e, NEW f, AsUser(e, f)
  PROVE  /\ \A uid : UserName(e, uid) = UserName(f, uid)
         /\ \A gid : GroupName(e, gid) = GroupName(f, gid)
         /\ Collect(e, "passwd") = Collect(f, "passwd") /\ Collect(e, "group") = Collect(f, "group")
<1>1. Collect(e, "passwd") = Collect(f, "passwd") /\ Collect(e, "group") = Collect(f, "group")
  BY DEF AsUser, Collect, Content, Closed
<1>2. Content(e, "nss") = Content(f, "nss")
  BY DEF AsUser, Content
<1>3. \A uid : UserName(e, uid) = UserName(f, uid)
  BY <1>1, <1>2 DEF UserName
<1>4. \A gid : GroupName(e, gid) = GroupName(f, gid)
  BY <1>1, <1>2 DEF GroupName
<1> QED
  BY <1>1, <1>3, <1>4

------------------------------------------------------------------------------
(* auditd.py *)
(* The rules on disk and in the kernel, auditd.conf and the directives. *)
LEMMA AuditReadsWithhold ==
  ASSUME NEW e, NEW f, AsUser(e, f), NEW check,
         Content(f, "auditctl") # Absent => ~Content(f, "auditctl")["user"].ok
  PROVE  /\ disk_rules(e) = Unavailable \/ disk_rules(e) = disk_rules(f)
         /\ loaded_rules(e) = Unavailable
         /\ auditd_conf_check(e, check.settings) \in {"NOT_ASSESSED", auditd_conf_check(f, check.settings)}
         /\ audit_rules_directive(e, check.directive) \in {"NOT_ASSESSED", audit_rules_directive(f, check.directive)}
<1>1. disk_rules(e) = Unavailable \/ disk_rules(e) = disk_rules(f)
  <2> DEFINE Parsed(files) == UNION {parse_rules(files[j].rules) : j \in DOMAIN files}
             Of(files, closed) == IF files = Unavailable \/ closed THEN Unavailable ELSE Parsed(files)
             Files(v) == Glob(v, "audit_rules_d")
  <2>1. \A v : disk_rules(v) = Of(Files(v), Withheld(v, Files(v)))
    BY DEF disk_rules
  <2>2. Files(e) = Unavailable \/ Files(e) = Files(f)
    BY UserReads
  <2>3. ~Withheld(f, Files(f))
    BY RootReadsAll
  <2> HIDE DEF Parsed, Files
  <2> QED BY <2>1, <2>2, <2>3
<1>2. loaded_rules(e) = Unavailable
  BY DEF loaded_rules, Run, Exists, AsUser, Content
<1>3. auditd_conf_check(e, check.settings) \in {"NOT_ASSESSED", auditd_conf_check(f, check.settings)}
  <2> DEFINE Out(conf) ==
        Verdict(\/ conf = Absent
                \/ \E s \in check.settings :
                     \/ s.key \notin DOMAIN conf
                     \/ IF s.numeric THEN conf[s.key] = Junk ELSE conf[s.key] \notin s.allowed)
             Of(conf) == Needs(<<conf>>, Out(conf))
  <2>1. \A v : auditd_conf_check(v, check.settings) = Of(ReadText(v, "auditd_conf"))
    BY DEF auditd_conf_check
  <2> HIDE DEF Out
  <2>2. Of(Unavailable) = "NOT_ASSESSED"
    BY NeedsBoth
  <2> HIDE DEF Of
  <2> QED BY <2>1, <2>2, UserReads
<1>4. audit_rules_directive(e, check.directive) \in {"NOT_ASSESSED", audit_rules_directive(f, check.directive)}
  <2> DEFINE Out(rules) == Verdict(~ \E r \in rules : IsPrefix(check.directive, r.options))
             Of(rules) == Needs(<<rules>>, Out(rules))
  <2>1. \A v : audit_rules_directive(v, check.directive) = Of(disk_rules(v))
    BY DEF audit_rules_directive
  <2> HIDE DEF Out
  <2>2. Of(Unavailable) = "NOT_ASSESSED"
    BY NeedsBoth
  <2> HIDE DEF Of
  <2> QED BY <1>1, <2>1, <2>2
<1> QED
  BY <1>1, <1>2, <1>3, <1>4

(* The group of the audit logs. *)
LEMMA LogGroupWithholds ==
  ASSUME NEW e, NEW f, AsUser(e, f), ReadText(f, "auditd_conf") # Absent => audit_log_directory(f) \notin e.hidden
  PROVE  audit_log_group(e) \in {"NOT_ASSESSED", audit_log_group(f)}
<1>1. CASE ReadText(e, "auditd_conf") = Unavailable
  BY <1>1 DEF audit_log_group
<1>2. CASE ReadText(e, "auditd_conf") = ReadText(f, "auditd_conf")
  <2> DEFINE Files(v) == WalkFiles(v, audit_log_directory(v))
             Group(conf) == IF "log_group" \in DOMAIN conf THEN conf["log_group"] ELSE "root"
             Bad(v, conf, files) ==
               \/ Group(conf) \notin {"adm", "root"}
               \/ \E p \in ToSet(files) : /\ Meta(v, p) # Absent
                                          /\ GroupName(v, Meta(v, p).gid) \notin {"adm", "root"}
             Of(v, conf, files) ==
               IF conf = Unavailable THEN "NOT_ASSESSED"
               ELSE IF conf = Absent THEN "FAIL"
               ELSE IF files = Unavailable \/ \E p \in ToSet(files) : Meta(v, p) = Unavailable THEN "NOT_ASSESSED"
               ELSE Verdict(Bad(v, conf, files))
  <2>1. \A v : audit_log_group(v) = Of(v, ReadText(v, "auditd_conf"), Files(v))
    BY DEF audit_log_group
  <2>2. audit_log_directory(e) = audit_log_directory(f)
    BY <1>2 DEF audit_log_directory
  <2>3. ReadText(f, "auditd_conf") # Absent => Files(e) = Unavailable \/ Files(e) = Files(f)
    BY <2>2, UserReads
  <2>4. \A p : Meta(e, p) = Unavailable \/ Meta(e, p) = Meta(f, p)
    BY UserReads
  <2> HIDE DEF Group, Files
  <2>5. \A conf, files : Of(e, conf, files) \in {"NOT_ASSESSED", Of(f, conf, files)}
    <3> SUFFICES ASSUME NEW conf, NEW files PROVE Of(e, conf, files) \in {"NOT_ASSESSED", Of(f, conf, files)}
      OBVIOUS
    <3>1. CASE \E p \in ToSet(files) : Meta(e, p) = Unavailable
      BY <3>1
    <3>2. CASE \A p \in ToSet(files) : Meta(e, p) = Meta(f, p)
      <4>1. Bad(e, conf, files) <=> Bad(f, conf, files)
        BY <3>2, NamesAlike
      <4>2. (\E p \in ToSet(files) : Meta(e, p) = Unavailable) <=> (\E p \in ToSet(files) : Meta(f, p) = Unavailable)
        BY <3>2
      <4> HIDE DEF Bad
      <4> QED BY <4>1, <4>2 DEF Verdict
    <3> QED BY <2>4, <3>1, <3>2
  <2>6. \A conf, files : Of(e, conf, Unavailable) \in {"NOT_ASSESSED", Of(f, conf, files)}
    OBVIOUS
  <2>7. \A a, b : Of(e, Absent, a) = Of(f, Absent, b)
    OBVIOUS
  <2> HIDE DEF Of
  <2> QED BY <1>2, <2>1, <2>3, <2>5, <2>6, <2>7
<1> QED
  BY <1>1, <1>2, UserReads

(* The check on audit rules: a rule missing on disk decides before the kernel is asked. *)
LEMMA AuditRulesWithhold ==
  ASSUME NEW e, NEW f, AsUser(e, f), NEW check, check.type = "audit_rules", AuditAsks(check, f) \cap e.hidden = {},
         Content(f, "auditctl") # Absent => ~Content(f, "auditctl")["user"].ok
  PROVE  audit_rules(e, check) \in {"NOT_ASSESSED", audit_rules(f, check)}
<1> DEFINE Sudo == \E w \in check.watches : w.path = "@sudo_logfile"
           Missing(v, rules) == missing_requirements(v, check, rules)
           Disk(v, disk) == IF disk = Unavailable THEN "NOT_ASSESSED" ELSE IF Missing(v, disk) THEN "FAIL"
                            ELSE IF loaded_rules(v) = Unavailable THEN "NOT_ASSESSED"
                            ELSE Verdict(Missing(v, loaded_rules(v)))
           Of(v) == IF Sudo /\ sudoers_lines(v) = Unavailable THEN "NOT_ASSESSED"
                    ELSE IF Sudo /\ sudo_log_path(v) = Absent THEN "FAIL"
                    ELSE IF CollectOr(v, "login_defs", Absent) = Unavailable THEN "NOT_ASSESSED"
                    ELSE Disk(v, disk_rules(v))
<1>1. \A v : audit_rules(v, check) = Of(v)
  BY DEF audit_rules, OnDiskAndLoaded
<1>2. disk_rules(e) = Unavailable \/ disk_rules(e) = disk_rules(f)
  BY AuditReadsWithhold
<1>3. loaded_rules(e) = Unavailable
  BY AuditReadsWithhold
<1>4. sudoers_lines(e) = Unavailable \/ sudoers_lines(e) = sudoers_lines(f)
  BY SudoersWithhold DEF AuditAsks
<1>5. sudoers_lines(e) = sudoers_lines(f) => sudo_log_path(e) = sudo_log_path(f)
  BY DEF sudo_log_path
<1>6. ASSUME CollectOr(e, "login_defs", Absent) # Unavailable, Sudo => sudo_log_path(e) = sudo_log_path(f), NEW rules
      PROVE  Missing(e, rules) <=> Missing(f, rules)
  <2>1. audit_uid_min(e) = audit_uid_min(f)
    <3>1. ~Closed(e, "login_defs")
      BY <1>6 DEF CollectOr
    <3>2. ~Closed(f, "login_defs") /\ Content(e, "login_defs") = Content(f, "login_defs")
      BY DEF AsUser, Closed, Content
    <3> QED BY <3>1, <3>2 DEF audit_uid_min, CollectOr
  <2>2. native(e) = native(f) /\ required_archs(e) = required_archs(f)
    BY DEF native, required_archs, AsUser
  <2>3. \A w \in check.watches : watch_path(e, w) = watch_path(f, w)
    BY <1>6 DEF watch_path
  <2>4. \A w \in check.watches : Exists(e, watch_path(e, w)) = Exists(f, watch_path(f, w))
    <3> SUFFICES ASSUME NEW w \in check.watches PROVE Exists(e, watch_path(e, w)) = Exists(f, watch_path(f, w))
      OBVIOUS
    <3>1. watch_path(f, w) \notin e.hidden
      BY DEF AuditAsks
    <3> QED BY <2>3, <3>1, UserReads
  <2> QED BY <2>1, <2>2, <2>3, <2>4 DEF missing_requirements
<1>7. CASE Sudo /\ sudoers_lines(e) = Unavailable
  BY <1>1, <1>7
<1>8. CASE Sudo => sudoers_lines(e) = sudoers_lines(f)
  <2>1. Sudo => sudo_log_path(e) = sudo_log_path(f)
    BY <1>5, <1>8
  <2>2. CASE Sudo /\ sudo_log_path(e) = Absent
    <3>1. Sudo /\ sudo_log_path(f) = Absent
      BY <2>1, <2>2
    <3> HIDE DEF Disk, Sudo
    <3>2. sudoers_lines(e) = sudoers_lines(f)
      BY <1>8, <2>2
    <3>3. Of(e) \in {"NOT_ASSESSED", "FAIL"} /\ (sudoers_lines(f) # Unavailable => Of(f) = "FAIL")
      BY <2>2, <3>1
    <3>4. sudoers_lines(e) = Unavailable => Of(e) = "NOT_ASSESSED"
      BY <2>2
    <3> HIDE DEF Of
    <3> QED BY <1>1, <3>2, <3>3, <3>4
  <2>3. CASE CollectOr(e, "login_defs", Absent) = Unavailable /\ ~(Sudo /\ sudo_log_path(e) = Absent)
    BY <1>1, <2>3
  <2>4. CASE CollectOr(e, "login_defs", Absent) # Unavailable /\ ~(Sudo /\ sudo_log_path(e) = Absent)
    <3>1. CollectOr(f, "login_defs", Absent) # Unavailable
      BY <2>4, UserReads
    <3>2. \A rules : Missing(e, rules) <=> Missing(f, rules)
      BY <1>6, <2>1, <2>4
    <3> HIDE DEF Missing, Sudo
    <3>3. Disk(e, disk_rules(e)) \in {"NOT_ASSESSED", Disk(f, disk_rules(f))}
      BY <1>2, <1>3, <3>2
    <3> HIDE DEF Disk
    <3> QED BY <1>1, <1>8, <2>1, <2>4, <3>1, <3>3
  <2> QED BY <2>2, <2>3, <2>4
<1> QED
  BY <1>4, <1>7, <1>8

(* Every check of auditd.py but the one on the tools aide watches. *)
LEMMA AuditWithholds ==
  ASSUME NEW e, NEW f, AsUser(e, f), NEW check, AuditAsks(check, f) \cap e.hidden = {},
         check.type \in AuditTypes \ {"aide_audit_tools"},
         Content(f, "auditctl") # Absent => ~Content(f, "auditctl")["user"].ok
  PROVE  AuditVerdict(check, e) \in {"NOT_ASSESSED", AuditVerdict(check, f)}
<1>1. CASE check.type \in {"auditd_conf", "audit_rules_directive"}
  BY <1>1, AuditReadsWithhold DEF AuditVerdict
<1>2. CASE check.type = "audit_log_group"
  BY <1>2, LogGroupWithholds DEF AuditVerdict, AuditAsks
<1>3. CASE check.type = "audit_rules"
  BY <1>3, AuditRulesWithhold DEF AuditVerdict
<1>4. CASE check.type = "audit_privileged_commands"
  <2>1. e.val = f.val /\ privileged_files(e) = privileged_files(f)
    BY DEF AsUser, privileged_files
  <2>2. /\ disk_rules(e) = Unavailable \/ disk_rules(e) = disk_rules(f)
        /\ loaded_rules(e) = Unavailable
    BY AuditReadsWithhold
  <2> DEFINE Missing(rules) == \E p \in privileged_files(f) : ~mentions(rules, p)
             Of(mounts, disk, loaded) ==
               IF mounts = {} THEN "NOT_ASSESSED" ELSE
               IF disk = Unavailable THEN "NOT_ASSESSED" ELSE IF Missing(disk) THEN "FAIL"
               ELSE IF loaded = Unavailable THEN "NOT_ASSESSED" ELSE Verdict(Missing(loaded))
  <2>3. \A v \in {e, f} : audit_privileged_commands(v) = Of(v.val.scan.mounts, disk_rules(v), loaded_rules(v))
    BY <2>1 DEF audit_privileged_commands, OnDiskAndLoaded
  <2> HIDE DEF Missing
  <2> QED BY <1>4, <2>1, <2>2, <2>3 DEF AuditVerdict
<1> QED
  BY <1>1, <1>2, <1>3, <1>4 DEF AuditTypes

(* filesystem.py *)
(* The paths a source of a permission check names. *)
LEMMA SourceWithholds ==
  ASSUME NEW e, NEW f, AsUser(e, f), NEW check, check.type = "file_permissions", PathAsks(check, f) \cap e.hidden = {},
         SshAnswers(f), NEW name \in Sources
  PROVE  SourcePaths(e, name) = Unavailable \/ SourcePaths(e, name) = SourcePaths(f, name)
<1>1. e.val = f.val /\ \A i : Content(e, i) = Content(f, i)
  BY DEF AsUser, Content
<1>2. /\ sshd_primary(e) = Unavailable \/ sshd_primary(e) = sshd_primary(f)
      /\ sshd_config_files(e) = Unavailable \/ sshd_config_files(e) = sshd_config_files(f)
  BY SshWithholds DEF PathAsks
<1>3. CASE name = "audit_log_files"
  <2>1. audit_log_files(e) = Unavailable \/ audit_log_files(e) = audit_log_files(f)
    <3>1. ReadText(e, "auditd_conf") = Unavailable \/ ReadText(e, "auditd_conf") = ReadText(f, "auditd_conf")
      BY UserReads
    <3>2. CASE ReadText(e, "auditd_conf") = Unavailable
      BY <3>2 DEF audit_log_files
    <3>3. CASE ReadText(e, "auditd_conf") = ReadText(f, "auditd_conf")
      <4>1. audit_log_directory(e) = audit_log_directory(f)
        BY <3>3 DEF audit_log_directory
      <4> QED BY <3>3, <4>1, UserReads DEF audit_log_files
    <3> QED BY <3>1, <3>2, <3>3
  <2> QED BY <1>3, <2>1 DEF SourcePaths
<1>4. CASE name = "audit_tools"
  <2>1. \A t \in f.val.audit_tools : Exists(e, t) = Exists(f, t)
    <3> SUFFICES ASSUME NEW t \in f.val.audit_tools PROVE Exists(e, t) = Exists(f, t)
      OBVIOUS
    <3>1. t \notin e.hidden
      BY DEF PathAsks
    <3> QED BY <3>1, UserReads
  <2>2. audit_tools(e) = audit_tools(f)
    BY <1>1, <2>1 DEF audit_tools
  <2> QED BY <1>4, <2>2 DEF SourcePaths
<1>5. CASE name \in {"sshd_config_dropins", "sshd_include_dirs"}
  <2>1. CASE sshd_config_files(e) = Unavailable
    BY <1>5, <2>1 DEF SourcePaths, sshd_config_dropins, sshd_include_dirs
  <2>2. CASE sshd_config_files(e) = sshd_config_files(f)
    <3>1. include_directories(e) = include_directories(f)
      BY <1>1, <2>2 DEF include_directories
    <3>2. sshd_include_dirs(e) = sshd_include_dirs(f)
      BY <1>1, <2>2, <3>1 DEF sshd_include_dirs
    <3>3. sshd_config_dropins(e) = Unavailable \/ sshd_config_dropins(e) = sshd_config_dropins(f)
      <4>1. ~Barred(f, include_directories(f))
        BY DEF AsUser, Barred
      <4> QED BY <1>1, <2>2, <3>1, <4>1 DEF sshd_config_dropins
    <3> QED BY <1>5, <3>2, <3>3 DEF SourcePaths
  <2> QED BY <1>2, <2>1, <2>2
<1>6. CASE name \in {"sshd_private_hostkeys", "sshd_public_hostkeys"}
  <2>1. CASE sshd_primary(e) = Unavailable
    BY <1>6, <2>1 DEF SourcePaths, sshd_private_hostkeys, sshd_public_hostkeys
  <2>2. CASE sshd_primary(e) = sshd_primary(f) /\ sshd_primary(f) # Unavailable
    <3>1. HostKeys(e) = HostKeys(f)
      BY <2>2 DEF HostKeys
    <3>2. \A k \in ToSet(HostKeys(f)) : k \notin e.hidden /\ f.val.public_key[k] \notin e.hidden
      BY <2>2 DEF PathAsks, ServerKeys
    <3>3. \A k \in ToSet(HostKeys(f)) : Exists(e, k) = Exists(f, k) /\ Exists(e, f.val.public_key[k]) = Exists(f, f.val.public_key[k])
      BY <3>2, UserReads
    <3>4. sshd_private_hostkeys(e) = sshd_private_hostkeys(f)
      BY <2>2, <3>1, <3>3 DEF sshd_private_hostkeys
    <3>5. {h \in ToSet(HostKeys(e)) : Exists(e, e.val.public_key[h])} = {h \in ToSet(HostKeys(f)) : Exists(f, f.val.public_key[h])}
      BY <1>1, <3>1, <3>3
    <3>6. sshd_public_hostkeys(e) = sshd_public_hostkeys(f)
      BY <1>1, <2>2, <3>5 DEF sshd_public_hostkeys
    <3> QED BY <1>6, <3>4, <3>6 DEF SourcePaths
  <2> QED BY <1>2, <2>1, <2>2
<1>7. CASE name = "apt_keyring_files"
  <2>1. \A d \in {"usr_keyrings", "apt_trusted"} : WalkFiles(e, d) = Unavailable \/ WalkFiles(e, d) = WalkFiles(f, d)
    BY UserReads DEF PathAsks
  <2> DEFINE Of(found) == IF Unavailable \in found THEN Unavailable ELSE UNION {ToSet(g) : g \in found}
             Found(v) == {WalkFiles(v, d) : d \in {"usr_keyrings", "apt_trusted"}}
  <2>2. \A v : apt_keyring_files(v) = Of(Found(v))
    BY DEF apt_keyring_files
  <2>3. Unavailable \in Found(e) \/ Found(e) = Found(f)
    BY <2>1
  <2>4. \A a : Unavailable \in a => Of(a) = Unavailable
    OBVIOUS
  <2> HIDE DEF Of, Found
  <2> QED BY <1>7, <2>2, <2>3, <2>4 DEF SourcePaths
<1>8. CASE name = "apt_signed_by_keys"
  <2> DEFINE Keys(v) == UNION {s.keys : s \in ToSet(archives(v))}
             Std == {"usr_keyrings", "apt_trusted"}
  <2>1. ReadText(e, "sources_list") = Unavailable \/ ReadText(e, "sources_list") = ReadText(f, "sources_list")
    BY UserReads
  <2>2. archives(e) = Unavailable \/ archives(e) = archives(f)
    <3>1. source_files(e, "sources.list.d") = Unavailable \/ source_files(e, "sources.list.d") = source_files(f, "sources.list.d")
      BY UserReads DEF source_files
    <3> QED BY <2>1, <3>1 DEF archives
  <2>3. \A v : apt_signed_by_keys(v) =
                 IF archives(v) = Unavailable \/ Withheld(v, archives(v)) THEN Unavailable
                 ELSE {k \in Keys(v) : Exists(v, k) /\ Content(v, k).path \cap Std = {}}
    BY DEF apt_signed_by_keys
  <2>4. CASE archives(e) = Unavailable
    BY <1>8, <2>3, <2>4 DEF SourcePaths
  <2>5. CASE archives(e) = archives(f) /\ archives(e) # Unavailable
    <3>1. Keys(e) = Keys(f)
      BY <2>5
    <3>2. \A k \in Keys(f) : k \notin e.hidden
      BY DEF PathAsks, ArchiveKeys
    <3>3. \A k \in Keys(f) : Exists(e, k) = Exists(f, k) /\ Content(e, k) = Content(f, k)
      BY <1>1, <3>2, UserReads
    <3>4. ~Withheld(f, archives(f))
      BY RootReadsAll
    <3> HIDE DEF Keys
    <3>5. {k \in Keys(e) : Exists(e, k) /\ Content(e, k).path \cap Std = {}} = {k \in Keys(f) : Exists(f, k) /\ Content(f, k).path \cap Std = {}}
      BY <3>1, <3>3
    <3>6. apt_signed_by_keys(e) = Unavailable \/ apt_signed_by_keys(e) = apt_signed_by_keys(f)
      BY <2>3, <2>5, <3>4, <3>5
    <3> QED BY <1>8, <3>6 DEF SourcePaths
  <2> QED BY <2>2, <2>4, <2>5
<1>9. CASE name = "privileged_files"
  BY <1>1, <1>9 DEF SourcePaths, privileged_files
<1> QED
  BY <1>3, <1>4, <1>5, <1>6, <1>7, <1>8, <1>9 DEF Sources

(* The check on permissions, whatever its targets. *)
LEMMA FilePermissionsWithhold ==
  ASSUME NEW e, NEW f, AsUser(e, f), NEW check, check.type = "file_permissions", TypedCheck("paths", check),
         PathAsks(check, f) \cap e.hidden = {}, check.prerequisite \notin e.hidden, SshAnswers(f)
  PROVE  file_permissions(e, check) \in {"NOT_ASSESSED", file_permissions(f, check)}
<1> DEFINE ts == check.targets
           T == ToSet(check.targets)
           first(v, p) == ts[SelectInSeq(ts, LAMBDA t : p \in Paths(v, t))]
           All(v) == UNION {Paths(v, t) : t \in T}
           Inspected(v) == {p \in All(v) : Meta(v, p) # Absent}
           problem(v, p) == \/ PermissionProblem(v, Meta(v, p), first(v, p).mask, first(v, p).owners, first(v, p).groups)
                            \/ check.file_type = "dir" /\ ~Meta(v, p).isdir
           Bad(v) == \/ \E t \in T : Gone(v, t) /\ t.missing = "fail"
                     \/ \E p \in Inspected(v) : problem(v, p)
                     \/ Inspected(v) = {} /\ check.require_targets
           Blind(v) == \E t \in T : Refused(v, t) \/ (Gone(v, t) /\ t.missing = "unassessed")
           Dim(v) == \E p \in Inspected(v) : Meta(v, p) = Unavailable
           Of(v) == IF check.prerequisite # "" /\ ~Exists(v, check.prerequisite) THEN "FAIL"
                    ELSE IF Blind(v) THEN "NOT_ASSESSED" ELSE IF Dim(v) THEN "NOT_ASSESSED" ELSE Verdict(Bad(v))
<1>1. \A v : file_permissions(v, check) = Of(v)
  BY DEF file_permissions
<1>2. Exists(e, check.prerequisite) = Exists(f, check.prerequisite)
  BY UserReads
<1>3. \A t \in T : Gone(e, t) = Gone(f, t) /\ (Paths(e, t) = Unavailable \/ Paths(e, t) = Paths(f, t))
  <2> SUFFICES ASSUME NEW t \in T PROVE Gone(e, t) = Gone(f, t) /\ (Paths(e, t) = Unavailable \/ Paths(e, t) = Paths(f, t))
    OBVIOUS
  <2>1. t.kind \in {"path", "find"} => t.at \notin e.hidden
    BY DEF PathAsks
  <2>2. CASE t.kind = "path"
    <3>1. Exists(e, t.at) = Exists(f, t.at)
      BY <2>1, <2>2, UserReads
    <3> QED BY <2>2, <3>1 DEF Gone, Paths
  <2>3. CASE t.kind = "glob"
    BY <2>3, UserReads DEF Gone, Paths, Listing
  <2>4. CASE t.kind = "find"
    BY <2>1, <2>4, UserReads DEF Gone, Paths, Listing
  <2>5. CASE t.kind = "source" /\ t.at \in Sources
    BY <2>5, SourceWithholds DEF Gone, Paths
  <2> QED BY <2>2, <2>3, <2>4, <2>5 DEF TypedCheck
<1>4. CASE Blind(e)
  <2> HIDE DEF Blind, Dim, Bad
  <2> QED BY <1>1, <1>2, <1>4
<1>5. CASE ~Blind(e)
  <2>1. \A t \in T : Paths(e, t) = Paths(f, t) /\ Paths(e, t) # Unavailable
    BY <1>3, <1>5 DEF Refused
  <2>2. ~Blind(f)
    BY <1>3, <1>5, <2>1 DEF Refused
  <2>3. All(e) = All(f)
    BY <2>1
  <2>4. \A p : Meta(e, p) = Unavailable \/ Meta(e, p) = Meta(f, p)
    BY UserReads
  <2>5. CASE \E p \in All(e) : Meta(e, p) = Unavailable
    <3>1. Dim(e)
      BY <2>5, DistinctAnswers
    <3> HIDE DEF Blind, Dim, Bad
    <3> QED BY <1>1, <1>2, <3>1
  <2>6. CASE \A p \in All(e) : Meta(e, p) = Meta(f, p) /\ Meta(e, p) # Unavailable
    <3>1. Inspected(e) = Inspected(f)
      <4> HIDE DEF All
      <4> QED BY <2>3, <2>6
    <3>2. \A p \in Inspected(e) : p \in All(e)
      OBVIOUS
    <3>3. ~Dim(e) /\ ~Dim(f)
      <4> HIDE DEF All, Inspected
      <4> QED BY <2>6, <3>1, <3>2
    <3>4. \A p : first(e, p) = first(f, p)
      <4> TAKE p
      <4>1. \A j \in 1 .. Len(ts) : ts[j] \in T
        BY DEF TypedCheck, ToSet
      <4>2. {j \in 1 .. Len(ts) : p \in Paths(e, ts[j])} = {j \in 1 .. Len(ts) : p \in Paths(f, ts[j])}
        BY <2>1, <4>1
      <4>3. SelectInSeq(ts, LAMBDA t : p \in Paths(e, t)) = SelectInSeq(ts, LAMBDA t : p \in Paths(f, t))
        BY <4>2 DEF SelectInSeq
      <4> QED BY <4>3
    <3>5. \A p \in Inspected(e) : problem(e, p) <=> problem(f, p)
      <4> HIDE DEF first, All, Inspected
      <4>1. \A m, mask, owners, groups : PermissionProblem(e, m, mask, owners, groups) <=> PermissionProblem(f, m, mask, owners, groups)
        BY NamesAlike DEF PermissionProblem
      <4> QED BY <2>6, <3>2, <3>4, <4>1
    <3>6. Bad(e) <=> Bad(f)
      <4> HIDE DEF problem, Inspected
      <4> QED BY <1>3, <3>1, <3>5
    <3> HIDE DEF Blind, Dim, Bad
    <3> QED BY <1>1, <1>2, <1>5, <2>2, <3>3, <3>6 DEF Verdict
  <2> HIDE DEF All
  <2> QED BY <2>4, <2>5, <2>6
<1> QED
  BY <1>4, <1>5

(* The checks on mounts, where the state of the units is told. *)
LEMMA MountsWithhold ==
  ASSUME NEW e, NEW f, AsUser(e, f), NEW check
  PROVE  /\ ~Closed(e, "units") => mount_exists(e, check) \in {"NOT_ASSESSED", mount_exists(f, check)}
         /\ mount_option(e, check) \in {"NOT_ASSESSED", mount_option(f, check)}
<1>1. Collect(e, "mounts") = Unavailable \/ Collect(e, "mounts") = Collect(f, "mounts")
  BY UserReads
<1>2. ~Closed(e, "units") => Collect(e, "units") = Collect(f, "units")
  BY DEF AsUser, Collect, Content, Closed
<1>3. CASE Collect(e, "mounts") = Unavailable
  BY <1>3, NeedsBoth DEF mount_exists, mount_option
<1>4. CASE Collect(e, "mounts") = Collect(f, "mounts")
  <2>1. \A path : MountAt(e, path) = MountAt(f, path)
    BY <1>4 DEF MountAt
  <2>2. mount_option(e, check) = mount_option(f, check)
    BY <1>4, <2>1 DEF mount_option
  <2> DEFINE Out(mount, states) ==
        Verdict(\/ mount = Absent
                \/ check.unit # "" /\ states # Unavailable /\ states[check.unit].file \in {"masked", "disabled"})
             Of(mounts, mount, states) == Needs(<<mounts>>, Out(mount, states))
  <2>3. \A v : mount_exists(v, check) = Of(Collect(v, "mounts"), MountAt(v, check.path), Collect(v, "units"))
    BY DEF mount_exists
  <2> HIDE DEF Of
  <2> QED BY <1>2, <1>4, <2>1, <2>2, <2>3
<1> QED
  BY <1>1, <1>3, <1>4

(* The check on the files of /var/log. *)
LEMMA LogsWithhold ==
  ASSUME NEW e, NEW f, AsUser(e, f), "var_log" \notin e.hidden
  PROVE  log_files_access(e) \in {"NOT_ASSESSED", log_files_access(f)}
<1> DEFINE Bad(v, files) == \E p \in ToSet(files) : Meta(v, p) # Absent /\ LogProblem(v, Meta(v, p))
           Dim(v, files) == \E p \in ToSet(files) : Meta(v, p) = Unavailable
           Of(v, files, shells, users) ==
             IF Unavailable \in {files, shells, users} THEN "NOT_ASSESSED"
             ELSE IF Dim(v, files) THEN "NOT_ASSESSED" ELSE Verdict(Bad(v, files))
           Files(v) == WalkFiles(v, "var_log")
<1>1. \A v : log_files_access(v) = Of(v, Files(v), ReadNow(v, "shells"), Collect(v, "passwd"))
  BY DEF log_files_access
<1>2. /\ Files(e) = Unavailable \/ Files(e) = Files(f)
      /\ ReadNow(e, "shells") = Unavailable \/ ReadNow(e, "shells") = ReadNow(f, "shells")
      /\ \A p : Meta(e, p) = Unavailable \/ Meta(e, p) = Meta(f, p)
  BY UserReads
<1>3. Collect(e, "passwd") = Collect(f, "passwd")
  BY NamesAlike
<1>4. CASE Files(e) = Unavailable \/ ReadNow(e, "shells") = Unavailable
  <2> HIDE DEF Files, Dim, Bad
  <2> QED BY <1>1, <1>4
<1>5. CASE Files(e) = Files(f) /\ ReadNow(e, "shells") = ReadNow(f, "shells")
  <2>1. \A m : LogProblem(e, m) <=> LogProblem(f, m)
    <3> DEFINE Problem(mode, rule, name, owner, group, users, listed) ==
                 LET j == SelectLastInSeq(users, LAMBDA x : x.name = owner)
                     shells == IF listed = Absent THEN {} ELSE listed
                     spared == name = "other" /\ (owner = "root" \/ j = 0 \/ users[j].shell \notin shells)
                 IN  \/ mode \cap rule.mask # {}
                     \/ ~spared /\ (owner \notin rule.owners \/ group \notin rule.groups)
    <3>1. \A v, m : LogProblem(v, m) <=> Problem(m.mode, log_rule(m.name), m.name, UserName(v, m.uid), GroupName(v, m.gid),
                                                Collect(v, "passwd"), ReadNow(v, "shells"))
      BY DEF LogProblem
    <3> HIDE DEF Problem
    <3>2. \A m : UserName(e, m.uid) = UserName(f, m.uid) /\ GroupName(e, m.gid) = GroupName(f, m.gid)
      BY NamesAlike
    <3> TAKE m
    <3>3. /\ LogProblem(e, m) <=> Problem(m.mode, log_rule(m.name), m.name, UserName(e, m.uid), GroupName(e, m.gid),
                                                Collect(e, "passwd"), ReadNow(e, "shells"))
          /\ LogProblem(f, m) <=> Problem(m.mode, log_rule(m.name), m.name, UserName(f, m.uid), GroupName(f, m.gid),
                                                Collect(f, "passwd"), ReadNow(f, "shells"))
      BY <3>1
    <3> QED BY <1>3, <1>5, <3>2, <3>3
  <2>2. CASE Dim(e, Files(e))
    <3> HIDE DEF Files, Dim, Bad
    <3> QED BY <1>1, <2>2
  <2>3. CASE ~Dim(e, Files(e))
    <3>1. \A p \in ToSet(Files(e)) : Meta(e, p) = Meta(f, p) /\ Meta(e, p) # Unavailable
      BY <1>2, <2>3
    <3>2. ~Dim(f, Files(f))
      <4> HIDE DEF Files
      <4> QED BY <1>5, <3>1
    <3>3. Bad(e, Files(e)) <=> Bad(f, Files(f))
      <4> HIDE DEF Files
      <4> QED BY <1>5, <2>1, <3>1
    <3> HIDE DEF Files, Dim, Bad
    <3> QED BY <1>1, <1>3, <1>5, <2>3, <3>2, <3>3 DEF Verdict
  <2> QED BY <2>2, <2>3
<1> QED
  BY <1>2, <1>4, <1>5

(* Every check of filesystem.py. *)
LEMMA PathWithholds ==
  ASSUME NEW e, NEW f, AsUser(e, f), NEW check, TypedCheck("paths", check), PathAsks(check, f) \cap e.hidden = {}, SshAnswers(f),
         check.type = "file_permissions" => check.prerequisite \notin e.hidden,
         check.type = "mount_exists" => ~Closed(e, "units")
  PROVE  PathVerdict(check, e) \in {"NOT_ASSESSED", PathVerdict(check, f)}
<1>1. CASE check.type = "file_permissions"
  BY <1>1, FilePermissionsWithhold DEF PathVerdict
<1>2. CASE check.type \in {"mount_exists", "mount_option"}
  BY <1>2, MountsWithhold DEF PathVerdict
<1>3. CASE check.type = "log_files_access"
  BY <1>3, LogsWithhold DEF PathVerdict, PathAsks
<1> QED
  BY <1>1, <1>2, <1>3 DEF TypedCheck, TypesOf, PathTypes

------------------------------------------------------------------------------
(* accounts.py *)
(* The checks on passwords, of login.defs, shadow and useradd. *)
LEMMA PolicyWithholds ==
  ASSUME NEW e, NEW f, AsUser(e, f), NEW arg,
         "useradd" \notin e.hidden,
         AnswersAll(f, {"useradd"})
  PROVE  /\ password_aging(e, arg) \in {"NOT_ASSESSED", password_aging(f, arg)}
         /\ encrypt_method(e, arg) \in {"NOT_ASSESSED", encrypt_method(f, arg)}
         /\ inactive_lock(e, arg) \in {"NOT_ASSESSED", inactive_lock(f, arg)}
         /\ password_change_past(e, arg) \in {"NOT_ASSESSED", password_change_past(f, arg)}
<1>1. /\ LoginDefs(e) = Unavailable \/ LoginDefs(e) = LoginDefs(f)
      /\ Collect(e, "shadow") = Unavailable \/ Collect(e, "shadow") = Collect(f, "shadow")
  BY UserReads DEF LoginDefs
<1>2. useradd_inactive(e) = Unavailable \/ useradd_inactive(e) = useradd_inactive(f)
  <2>1. Exists(e, "useradd") = Exists(f, "useradd") /\ (Exists(f, "useradd") => Run(e, "useradd") = Run(f, "useradd"))
    BY SameToAll DEF AnswersAll
  <2>2. CollectOr(e, "default_useradd", -1) = Unavailable \/ CollectOr(e, "default_useradd", -1) = CollectOr(f, "default_useradd", -1)
    BY UserReads
  <2> QED BY <2>1, <2>2 DEF useradd_inactive
<1>3. Collect(e, "shadow") = Collect(f, "shadow") => Hashed(e) = Hashed(f)
  BY DEF Hashed, Having
<1>4. CASE LoginDefs(e) = Unavailable
  <2>1. password_aging(e, arg) = "NOT_ASSESSED" /\ encrypt_method(e, arg) = "NOT_ASSESSED"
    BY <1>4, NeedsBoth DEF password_aging, encrypt_method
  <2> QED
    <3>1. CASE Collect(e, "shadow") = Unavailable \/ useradd_inactive(e) = Unavailable
      <4>1. inactive_lock(e, arg) = "NOT_ASSESSED"
        BY <3>1, NeedsBoth DEF inactive_lock
      <4>2. password_change_past(e, arg) \in {"NOT_ASSESSED", password_change_past(f, arg)}
        BY <1>1, <1>3, NeedsBoth DEF password_change_past
      <4> QED BY <2>1, <4>1, <4>2
    <3>2. CASE Collect(e, "shadow") = Collect(f, "shadow") /\ useradd_inactive(e) = useradd_inactive(f)
      BY <1>3, <2>1, <3>2 DEF inactive_lock, password_change_past
    <3> QED BY <1>1, <1>2, <3>1, <3>2
<1>5. CASE LoginDefs(e) = LoginDefs(f)
  <2>1. encrypt_method(e, arg) = encrypt_method(f, arg)
    BY <1>5 DEF encrypt_method
  <2>2. CASE Collect(e, "shadow") = Unavailable
    <3>1. password_aging(e, arg) = "NOT_ASSESSED" /\ inactive_lock(e, arg) = "NOT_ASSESSED" /\ password_change_past(e, arg) = "NOT_ASSESSED"
      BY <2>2, NeedsBoth DEF password_aging, inactive_lock, password_change_past
    <3> QED BY <2>1, <3>1
  <2>3. CASE Collect(e, "shadow") = Collect(f, "shadow")
    <3>1. password_aging(e, arg) = password_aging(f, arg) /\ password_change_past(e, arg) = password_change_past(f, arg)
      BY <1>3, <1>5, <2>3 DEF password_aging, password_change_past
    <3>2. CASE useradd_inactive(e) = Unavailable
      <4>1. inactive_lock(e, arg) = "NOT_ASSESSED"
        BY <3>2, NeedsBoth DEF inactive_lock
      <4> QED BY <2>1, <3>1, <4>1
    <3>3. CASE useradd_inactive(e) = useradd_inactive(f)
      BY <1>3, <2>1, <2>3, <3>1, <3>3 DEF inactive_lock
    <3> QED BY <1>2, <3>2, <3>3
  <2> QED BY <1>1, <2>2, <2>3
<1> QED
  BY <1>1, <1>4, <1>5

(* The checks on entries of the user databases; passwd and group are open to all. *)
LEMMA EntriesWithhold ==
  ASSUME NEW e, NEW f, AsUser(e, f), NEW arg
  PROVE  /\ uid_zero(e) = uid_zero(f) /\ gid_zero_users(e) = gid_zero_users(f) /\ gid_zero_groups(e) = gid_zero_groups(f)
         /\ shadowed_passwords(e) = shadowed_passwords(f) /\ passwd_groups_exist(e) = passwd_groups_exist(f)
         /\ shadow_group_empty(e) = shadow_group_empty(f) /\ duplicates(e, arg) = duplicates(f, arg)
         /\ root_access(e) \in {"NOT_ASSESSED", root_access(f)}
         /\ shadow_not_empty(e) \in {"NOT_ASSESSED", shadow_not_empty(f)}
<1>1. Collect(e, "passwd") = Collect(f, "passwd") /\ Collect(e, "group") = Collect(f, "group")
  BY NamesAlike
<1>2. Collect(e, "shadow") = Unavailable \/ Collect(e, "shadow") = Collect(f, "shadow")
  BY UserReads
<1>3. uid_zero(e) = uid_zero(f)
  <2> DEFINE Zero(db) == SelectSeq(db, LAMBDA x : x.uid = 0)
             Of(db) == Needs(<<db>>, Verdict(Len(Zero(db)) # 1 \/ Zero(db)[1].name # "root"))
  <2>1. \A v : uid_zero(v) = Of(Collect(v, "passwd"))
    BY DEF uid_zero
  <2> HIDE DEF Of
  <2> QED BY <1>1, <2>1
<1>4. gid_zero_users(e) = gid_zero_users(f) /\ gid_zero_groups(e) = gid_zero_groups(f)
  BY <1>1 DEF gid_zero_users, gid_zero_groups
<1>5. shadowed_passwords(e) = shadowed_passwords(f) /\ passwd_groups_exist(e) = passwd_groups_exist(f)
  BY <1>1 DEF shadowed_passwords, passwd_groups_exist
<1>6. shadow_group_empty(e) = shadow_group_empty(f) /\ duplicates(e, arg) = duplicates(f, arg)
  BY <1>1 DEF shadow_group_empty, duplicates
<1>7. CASE Collect(e, "shadow") = Unavailable
  <2>1. root_access(e) = "NOT_ASSESSED" /\ shadow_not_empty(e) = "NOT_ASSESSED"
    BY <1>7, NeedsBoth DEF root_access, shadow_not_empty
  <2> QED BY <1>3, <1>4, <1>5, <1>6, <2>1
<1>8. CASE Collect(e, "shadow") = Collect(f, "shadow")
  <2>1. root_access(e) = root_access(f) /\ shadow_not_empty(e) = shadow_not_empty(f)
    BY <1>8 DEF root_access, shadow_not_empty
  <2> QED BY <1>3, <1>4, <1>5, <1>6, <2>1
<1> QED
  BY <1>2, <1>7, <1>8

(* The checks on shells, masks and the path of root. *)
LEMMA ShellsWithhold ==
  ASSUME NEW e, NEW f, AsUser(e, f), NEW arg
  PROVE  /\ root_path(e) = "NOT_ASSESSED"
         /\ root_umask(e) \in {"NOT_ASSESSED", root_umask(f)}
         /\ default_umask(e) \in {"NOT_ASSESSED", default_umask(f)}
         /\ system_account_shells(e) \in {"NOT_ASSESSED", system_account_shells(f)}
         /\ nologin_accounts_locked(e) \in {"NOT_ASSESSED", nologin_accounts_locked(f)}
         /\ nologin_not_in_shells(e) \in {"NOT_ASSESSED", nologin_not_in_shells(f)}
         /\ shell_timeout(e, arg) \in {"NOT_ASSESSED", shell_timeout(f, arg)}
<1>1. root_path(e) = "NOT_ASSESSED"
  BY DEF root_path, root_login_path, RequireRoot, AsUser
<1>2. root_umask(e) \in {"NOT_ASSESSED", root_umask(f)}
  <2> DEFINE Out(found) == Verdict(\E a \in ToSet(found) : Loose(a))
             Of(text, found) == Needs(<<text>>, Out(found))
  <2>1. \A v : root_umask(v) = Of(ReadText(v, "root_dot"), CollectOr(v, "root_dot", <<>>))
    BY DEF root_umask
  <2>2. ReadText(e, "root_dot") = Unavailable \/ (ReadText(e, "root_dot") = ReadText(f, "root_dot") /\ CollectOr(e, "root_dot", <<>>) = CollectOr(f, "root_dot", <<>>))
    BY DEF ReadText, CollectOr, Closed, Content, AsUser
  <2> HIDE DEF Out
  <2>3. \A a : Of(Unavailable, a) = "NOT_ASSESSED"
    BY NeedsBoth
  <2> HIDE DEF Of
  <2> QED BY <2>1, <2>2, <2>3
<1>3. /\ LoginDefs(e) = Unavailable \/ LoginDefs(e) = LoginDefs(f)
      /\ ValidShells(e) = Unavailable \/ ValidShells(e) = ValidShells(f)
      /\ Collect(e, "shadow") = Unavailable \/ Collect(e, "shadow") = Collect(f, "shadow")
      /\ Collect(e, "passwd") = Collect(f, "passwd")
  BY UserReads, NamesAlike DEF LoginDefs, ValidShells
<1>4. default_umask(e) \in {"NOT_ASSESSED", default_umask(f)}
  <2> DEFINE Out(listed, profile, defs) ==
               Verdict(\/ \E a \in ToSet(profile) \cup ToSet(listed) : Loose(a)
                       \/ defs.umask # Absent /\ ~Strict(defs.umask)
                       \/ defs.umask = Absent /\ ~ \E a \in ToSet(profile) \cup ToSet(listed) : Strict(a))
             Of(listed, text, profile, defs) == Needs(<<listed, text, defs>>, Out(listed, profile, defs))
  <2>1. \A v : default_umask(v) = Of(Glob(v, "profile_d"), ReadText(v, "profile"), CollectOr(v, "profile", <<>>), LoginDefs(v))
    BY DEF default_umask
  <2>2. ReadText(e, "profile") = Unavailable \/ (ReadText(e, "profile") = ReadText(f, "profile") /\ CollectOr(e, "profile", <<>>) = CollectOr(f, "profile", <<>>))
    BY DEF ReadText, CollectOr, Closed, Content, AsUser
  <2>3. Glob(e, "profile_d") = Unavailable \/ Glob(e, "profile_d") = Glob(f, "profile_d")
    BY UserReads
  <2> HIDE DEF Out
  <2>4. \A a, b, c, d : a = Unavailable \/ b = Unavailable \/ d = Unavailable => Of(a, b, c, d) = "NOT_ASSESSED"
    BY DEF Needs
  <2> HIDE DEF Of
  <2> QED BY <1>3, <2>1, <2>2, <2>3, <2>4
<1>5. system_account_shells(e) \in {"NOT_ASSESSED", system_account_shells(f)}
  <2> DEFINE Out(shells, defs, db) ==
               Verdict(\E x \in ToSet(db) : /\ x.name \notin Exempt
                                            /\ x.uid < defs.uid_min \/ x.uid = 65534
                                            /\ x.shell \in shells)
             Of(shells, defs, db) == Needs(<<shells, defs, db>>, Out(shells, defs, db))
  <2>1. \A v : system_account_shells(v) = Of(ValidShells(v), LoginDefs(v), Collect(v, "passwd"))
    BY DEF system_account_shells, UidMin
  <2> HIDE DEF Out
  <2>2. \A a, b, c : a = Unavailable \/ b = Unavailable => Of(a, b, c) = "NOT_ASSESSED"
    BY DEF Needs
  <2> HIDE DEF Of
  <2> QED BY <1>3, <2>1, <2>2
<1>6. nologin_accounts_locked(e) \in {"NOT_ASSESSED", nologin_accounts_locked(f)}
  <2> DEFINE Status(s, n) == LET j == SelectLastInSeq(s, LAMBDA x : x.name = n) IN IF j = 0 THEN Absent ELSE s[j].status
             Out(shells, s, db) ==
               Verdict(\E x \in ToSet(db) : x.name # "root" /\ x.shell \notin shells /\ Status(s, x.name) # "L")
             Of(shells, s, db) == Needs(<<shells, s, db>>, Out(shells, s, db))
  <2>1. \A v : nologin_accounts_locked(v) = Of(ValidShells(v), Collect(v, "shadow"), Collect(v, "passwd"))
    BY DEF nologin_accounts_locked, ShadowStatus
  <2> HIDE DEF Out
  <2>2. \A a, b, c : a = Unavailable \/ b = Unavailable => Of(a, b, c) = "NOT_ASSESSED"
    BY DEF Needs
  <2> HIDE DEF Of
  <2> QED BY <1>3, <2>1, <2>2
<1>7. nologin_not_in_shells(e) \in {"NOT_ASSESSED", nologin_not_in_shells(f)}
  <2> DEFINE Out(listed) == Verdict(listed # Absent /\ "nologin" \in listed)
             Of(listed) == Needs(<<listed>>, Out(listed))
  <2>1. \A v : nologin_not_in_shells(v) = Of(ReadNow(v, "shells"))
    BY DEF nologin_not_in_shells
  <2> HIDE DEF Out
  <2>2. Of(Unavailable) = "NOT_ASSESSED"
    BY NeedsBoth
  <2> HIDE DEF Of
  <2> QED BY <2>1, <2>2, UserReads
<1>8. shell_timeout(e, arg) \in {"NOT_ASSESSED", shell_timeout(f, arg)}
  <2> DEFINE Mentioning(found) == {g \in ToSet(found) : g.mentions}
             Out(found) == Verdict(\/ Mentioning(found) = {}
                                   \/ \E g \in Mentioning(found) : \/ g.values = {}
                                                                   \/ \E v \in g.values : v <= 0 \/ v > arg
                                                                   \/ ~g.readonly
                                                                   \/ ~g.exported)
             Of(found) == Needs(<<found>>, Out(found))
  <2>1. \A v : shell_timeout(v, arg) = Of(Glob(v, "tmout"))
    BY DEF shell_timeout
  <2> HIDE DEF Out
  <2>2. Of(Unavailable) = "NOT_ASSESSED"
    BY NeedsBoth
  <2> HIDE DEF Of
  <2> QED BY <2>1, <2>2, UserReads
<1> QED
  BY <1>1, <1>2, <1>4, <1>5, <1>6, <1>7, <1>8
(* The check on the home directories. *)
LEMMA HomesWithhold ==
  ASSUME NEW e, NEW f, AsUser(e, f)
  PROVE  home_directories(e) \in {"NOT_ASSESSED", home_directories(f)}
<1> DEFINE Bad(v, users) ==
             \E u \in users : LET m == Meta(v, u.home) IN
                m = Absent \/ ~m.isdir \/ UserName(v, m.uid) # u.name \/ m.mode \cap Mask027 # {}
           Dim(v, users) == \E u \in users : Meta(v, u.home) = Unavailable
           Of(v, users) ==
             IF ValidShells(v) = Unavailable \/ Collect(v, "passwd") = Unavailable THEN "NOT_ASSESSED"
             ELSE IF Dim(v, users) THEN "NOT_ASSESSED" ELSE Verdict(Bad(v, users))
<1>1. \A v : home_directories(v) = Of(v, interactive_users(v))
  BY DEF home_directories
<1>2. /\ ValidShells(e) = Unavailable \/ ValidShells(e) = ValidShells(f)
      /\ Collect(e, "passwd") = Collect(f, "passwd")
      /\ \A p : Meta(e, p) = Unavailable \/ Meta(e, p) = Meta(f, p)
  BY UserReads, NamesAlike DEF ValidShells
<1>3. CASE ValidShells(e) = Unavailable
  <2> HIDE DEF Dim, Bad
  <2> QED BY <1>1, <1>3
<1>4. CASE ValidShells(e) = ValidShells(f)
  <2>1. interactive_users(e) = interactive_users(f)
    BY <1>2, <1>4 DEF interactive_users, Having
  <2>2. CASE Dim(e, interactive_users(e))
    <3> HIDE DEF Dim, Bad
    <3> QED BY <1>1, <2>2
  <2>3. CASE ~Dim(e, interactive_users(e))
    <3>1. \A u \in interactive_users(e) : Meta(e, u.home) = Meta(f, u.home) /\ Meta(e, u.home) # Unavailable
      BY <1>2, <2>3
    <3>2. ~Dim(f, interactive_users(f))
      BY <2>1, <3>1
    <3>3. Bad(e, interactive_users(e)) <=> Bad(f, interactive_users(f))
      BY <2>1, <3>1, NamesAlike
    <3> HIDE DEF Dim, Bad
    <3> QED BY <1>1, <1>2, <1>4, <2>3, <3>2, <3>3 DEF Verdict
  <2> QED BY <2>2, <2>3
<1> QED
  BY <1>2, <1>3, <1>4

(* The dot entries of a home: one directory that cannot be listed withholds them all. *)
LEMMA WalkWithholds ==
  ASSUME NEW e, NEW f, AsUser(e, f), NEW home, NEW kind
  PROVE  /\ walk_dot_entries(e, home, kind) = Unavailable \/ walk_dot_entries(e, home, kind) = walk_dot_entries(f, home, kind)
         /\ Closed(e, home) => walk_dot_entries(e, home, kind) = Unavailable
<1>1. Content(e, home) = Content(f, home) /\ f.root
  BY DEF AsUser, Content
<1>2. Walked(e, home) = Walked(f, home)
  BY <1>1 DEF Walked
<1>3. ~Closed(f, home)
  BY <1>1 DEF Closed
<1> DEFINE Of(walked, closed) == IF closed THEN Unavailable ELSE {t \in walked : t.dot /\ t.kind = kind}
           Shut(v) == Closed(v, home) \/ (~v.root /\ \E t \in Walked(v, home) : t.kind = "dir" /\ t.private)
<1>4. \A v : walk_dot_entries(v, home, kind) = Of(Walked(v, home), Shut(v))
  BY DEF walk_dot_entries
<1>5. ~Shut(f) /\ (Closed(e, home) => Shut(e))
  BY <1>1, <1>3
<1> HIDE DEF Shut
<1> QED
  BY <1>2, <1>4, <1>5

(* The checks on dot files, where no home is passed over. *)
LEMMA DotsWithhold ==
  ASSUME NEW e, NEW f, AsUser(e, f), ~HomePassedOver(e)
  PROVE  /\ dot_files(e) \in {"NOT_ASSESSED", dot_files(f)}
         /\ dot_directories(e) \in {"NOT_ASSESSED", dot_directories(f)}
<1> DEFINE Files(v, u, t) ==
             \/ t.name \in {".forward", ".rhosts"}
             \/ DotProblem(v, u, t, IF t.name \in {".netrc", ".bash_history"} THEN Mask177 ELSE Mask133)
           Dirs(v, u, t) == DotProblem(v, u, t, IF t.name = ".ssh" THEN Mask077 ELSE Mask027)
           Found(v, kind) == UNION {{<<u, t>> : t \in walk_dot_entries(v, u.home, kind)} : u \in LocalHomes(v)}
           Dim(v, kind) == \E u \in LocalHomes(v) : walk_dot_entries(v, u.home, kind) = Unavailable
           Of(v, dim, bad) ==
             IF ValidShells(v) = Unavailable \/ Collect(v, "passwd") = Unavailable THEN "NOT_ASSESSED"
             ELSE IF interactive_users(v) # {} /\ Collect(v, "mounts") = Unavailable THEN "NOT_ASSESSED"
             ELSE IF dim THEN "NOT_ASSESSED" ELSE Verdict(bad)
           BadFile(v) == \E u \in LocalHomes(v) : \E t \in walk_dot_entries(v, u.home, "file") : Files(v, u, t)
           BadDir(v) == \E u \in LocalHomes(v) : \E t \in walk_dot_entries(v, u.home, "dir") : Dirs(v, u, t)
<1>1. \A v : /\ dot_files(v) = Of(v, Dim(v, "file"), BadFile(v))
             /\ dot_directories(v) = Of(v, Dim(v, "dir"), BadDir(v))
  BY DEF dot_files, dot_directories, DotVerdict
<1>2. /\ ValidShells(e) = Unavailable \/ ValidShells(e) = ValidShells(f)
      /\ Collect(e, "mounts") = Unavailable \/ Collect(e, "mounts") = Collect(f, "mounts")
      /\ Collect(e, "passwd") = Collect(f, "passwd")
      /\ \A i : Content(e, i) = Content(f, i)
  BY UserReads, NamesAlike DEF ValidShells, AsUser, Content
<1>3. \A u, t, mask : DotProblem(e, u, t, mask) <=> DotProblem(f, u, t, mask)
  BY NamesAlike DEF DotProblem
<1>4. \A u, t : (Files(e, u, t) <=> Files(f, u, t)) /\ (Dirs(e, u, t) <=> Dirs(f, u, t))
  BY <1>3
<1>5. \A home, kind : /\ walk_dot_entries(e, home, kind) = Unavailable \/ walk_dot_entries(e, home, kind) = walk_dot_entries(f, home, kind)
                      /\ Closed(e, home) => walk_dot_entries(e, home, kind) = Unavailable
  BY WalkWithholds
<1>6. CASE ValidShells(e) = Unavailable \/ Collect(e, "passwd") = Unavailable
  <2> HIDE DEF Dim, BadFile, BadDir
  <2> QED BY <1>1, <1>6
<1>7. CASE ValidShells(e) = ValidShells(f) /\ ValidShells(e) # Unavailable /\ Collect(e, "passwd") # Unavailable
  <2>1. interactive_users(e) = interactive_users(f)
    BY <1>2, <1>7 DEF interactive_users, Having
  <2>2. CASE interactive_users(e) # {} /\ Collect(e, "mounts") = Unavailable
    <3> HIDE DEF Dim, BadFile, BadDir
    <3> QED BY <1>1, <2>2
  <2>3. CASE Dim(e, "file") /\ Dim(e, "dir")
    <3> HIDE DEF Dim, BadFile, BadDir
    <3> QED BY <1>1, <2>3
  <2>4. CASE LocalHomes(e) = LocalHomes(f) /\ (interactive_users(e) # {} => Collect(e, "mounts") = Collect(f, "mounts"))
    <3>1. ASSUME NEW kind, ~Dim(e, kind)
          PROVE  \A u \in LocalHomes(e) : walk_dot_entries(e, u.home, kind) = walk_dot_entries(f, u.home, kind) /\ walk_dot_entries(e, u.home, kind) # Unavailable
      BY <1>5, <3>1
    <3>2. ~Dim(e, "file") => ~Dim(f, "file") /\ (BadFile(e) <=> BadFile(f))
      <4> HIDE DEF Files
      <4> QED BY <1>4, <2>4, <3>1
    <3>3. ~Dim(e, "dir") => ~Dim(f, "dir") /\ (BadDir(e) <=> BadDir(f))
      <4> HIDE DEF Dirs
      <4> QED BY <1>4, <2>4, <3>1
    <3> HIDE DEF Dim, BadFile, BadDir
    <3> QED BY <1>1, <1>2, <1>7, <2>1, <2>4, <3>2, <3>3 DEF Verdict
  <2>5. CASE interactive_users(e) = {}
    <3>1. LocalHomes(e) = {} /\ LocalHomes(f) = {}
      BY <2>1, <2>5 DEF LocalHomes
    <3> QED BY <2>4, <2>5, <3>1
  <2>6. CASE Collect(e, "mounts") = Collect(f, "mounts") /\ Collect(e, "mounts") # Unavailable /\ \E u \in LocalHomes(e) : Closed(e, u.home)
    BY <1>5, <2>3, <2>6
  <2>7. CASE Collect(e, "mounts") = Collect(f, "mounts") /\ \A u \in interactive_users(e) : u.home \notin e.hidden
    <3>1. \A u \in interactive_users(e) : Exists(e, u.home) = Exists(f, u.home)
      BY <2>7, UserReads
    <3>2. \A h : home_fstype(e, h) = home_fstype(f, h)
      <4> DEFINE Type(ms, above) ==
            LET over == {j \in DOMAIN ms : ms[j].target \in above} IN
            IF over = {} THEN ""
            ELSE ms[CHOOSE j \in over : \A k \in over :
                      ms[k].depth < ms[j].depth \/ (ms[k].depth = ms[j].depth /\ k <= j)].fstype
      <4>1. \A v, h : home_fstype(v, h) = Type(Collect(v, "mounts"), Content(v, h).path)
        BY DEF home_fstype
      <4> HIDE DEF Type
      <4> TAKE h
      <4>2. Content(e, h).path = Content(f, h).path
        BY <1>2
      <4>3. /\ home_fstype(e, h) = Type(Collect(e, "mounts"), Content(e, h).path)
            /\ home_fstype(f, h) = Type(Collect(f, "mounts"), Content(f, h).path)
        BY <4>1
      <4> QED BY <2>7, <4>2, <4>3
    <3>3. LocalHomes(e) = LocalHomes(f)
      <4> DEFINE Local(v, u) == Exists(v, u.home) /\ Content(v, u.home).isdir /\ home_fstype(v, u.home) \notin RemoteFs
      <4>1. \A v : LocalHomes(v) = {u \in interactive_users(v) : Local(v, u)}
        BY DEF LocalHomes
      <4>2. \A u \in interactive_users(e) : Local(e, u) <=> Local(f, u)
        <5> SUFFICES ASSUME NEW u \in interactive_users(e) PROVE Local(e, u) <=> Local(f, u)
          OBVIOUS
        <5>1. Exists(e, u.home) = Exists(f, u.home) /\ Content(e, u.home) = Content(f, u.home) /\ home_fstype(e, u.home) = home_fstype(f, u.home)
          BY <1>2, <3>1, <3>2
        <5> QED BY <5>1
      <4> HIDE DEF Local
      <4>3. {u \in interactive_users(e) : Local(e, u)} = {u \in interactive_users(f) : Local(f, u)}
        BY <2>1, <4>2
      <4> QED BY <4>1, <4>3
    <3> QED BY <2>4, <2>7, <3>3
  <2> QED BY <1>2, <1>7, <2>2, <2>5, <2>6, <2>7 DEF HomePassedOver, TablesTold
<1> QED
  BY <1>2, <1>6, <1>7

(* Every check of accounts.py. *)
LEMMA AccountWithholds ==
  ASSUME NEW e, NEW f, AsUser(e, f), NEW check, check.type \in AccountTypes,
         "useradd" \notin e.hidden,
         AnswersAll(f, {"useradd"}),
         check.type \in {"dot_files", "dot_directories"} => ~HomePassedOver(e)
  PROVE  AccountVerdict(check, e) \in {"NOT_ASSESSED", AccountVerdict(check, f)}
<1>1. CASE check.type \in {"password_aging", "encrypt_method", "inactive_lock", "password_change_past"}
  BY <1>1, PolicyWithholds DEF AccountVerdict
<1>2. CASE check.type \in {"uid_zero", "gid_zero_users", "gid_zero_groups", "shadowed_passwords", "passwd_groups_exist",
                           "shadow_group_empty", "duplicates", "root_access", "shadow_not_empty"}
  BY <1>2, EntriesWithhold DEF AccountVerdict
<1>3. CASE check.type \in {"root_path", "root_umask", "default_umask", "system_account_shells", "nologin_accounts_locked",
                           "nologin_not_in_shells", "shell_timeout"}
  BY <1>3, ShellsWithhold DEF AccountVerdict
<1>4. CASE check.type = "home_directories"
  BY <1>4, HomesWithhold DEF AccountVerdict
<1>5. CASE check.type \in {"dot_files", "dot_directories"}
  BY <1>5, DotsWithhold DEF AccountVerdict
<1> QED
  BY <1>1, <1>2, <1>3, <1>4, <1>5 DEF AccountTypes

(* The exemptions of RefusalDecides, of a check in a view. *)
Decides(check, e) ==
  \/ check.type \in {"gsettings", "chrony_user", "aide_audit_tools"} \cup VmTypes
  \/ check.type = "file_permissions" /\ check.prerequisite \in e.hidden
  \/ check.type = "mount_exists" /\ Closed(e, "units")
  \/ check.type \in {"dot_files", "dot_directories"} /\ HomePassedOver(e)

(* Every provider of lsa/checks, for one of its controls. *)
LEMMA ProvideWithholds ==
  ASSUME RefusalAssumption, family \in Families, AuditedHost(family, host), NEW j \in DOMAIN Checks[family], NEW e,
         AsUser(e, RootView(family, host)), e.hidden = Hidden[family], ~Decides(Checks[family][j], e)
  PROVE  Provide(Checks[family][j], e) \in {"NOT_ASSESSED", Provide(Checks[family][j], RootView(family, host))}
<1> DEFINE check == Checks[family][j]
           f == RootView(family, host)
<1>1. /\ family \in {"accounts", "access", "kernel", "services", "boot", "audit", "paths", "packages", "versions", "esxi"}
      /\ TypedCheck(family, check)
      /\ Asks(family, check, f) \cap e.hidden = {}
      /\ Answers(family, f)
  BY DEF RefusalAssumption, AuditedHost
<1>2. check.type \in TypesOf(family)
  BY <1>1 DEF TypedCheck
<1>3. AsUser(e, f) /\ ~Decides(check, e)
  OBVIOUS
<1> SUFFICES Provide(check, e) \in {"NOT_ASSESSED", Provide(check, f)}
  OBVIOUS
<1> HIDE DEF check, f
<1>4. CASE family = "accounts"
  <2>1. Provide(check, e) = AccountVerdict(check, e) /\ Provide(check, f) = AccountVerdict(check, f)
    BY <1>4 DEF Provide
  <2>2. check.type \in AccountTypes
    BY <1>2, <1>4 DEF TypesOf
  <2>3. {"useradd"} \cap e.hidden = {}
    BY <1>1, <1>4 DEF Asks
  <2>4. AnswersAll(f, {"useradd"})
    BY <1>1, <1>4 DEF Answers
  <2> QED BY <1>3, <2>1, <2>2, <2>3, <2>4, AccountWithholds DEF Decides
<1>5. CASE family = "access"
  <2>1. Provide(check, e) = AccessVerdict(check, e) /\ Provide(check, f) = AccessVerdict(check, f)
    BY <1>5 DEF Provide
  <2>2. check.type \in AccessTypes
    BY <1>2, <1>5 DEF TypesOf
  <2>3. {"sudoers", "sudoers_d", "journalctl"} \cap e.hidden = {}
    BY <1>1, <1>5 DEF Asks
  <2>4. JournalAnswers(f)
    BY <1>1, <1>5 DEF Answers
  <2> QED BY <1>3, <2>1, <2>2, <2>3, <2>4, AccessWithholds
<1>6. CASE family = "kernel"
  <2>1. Provide(check, e) = KernelVerdict(check, e) /\ Provide(check, f) = KernelVerdict(check, f)
    BY <1>6 DEF Provide
  <2>2. check.type \in KernelTypes
    BY <1>2, <1>6 DEF TypesOf
  <2>3. KernelNames \cap e.hidden = {}
    BY <1>1, <1>6 DEF Asks
  <2>4. AnswersAll(f, {"modprobe", "systemd_sysctl", "systemd_analyze"})
    BY <1>1, <1>6 DEF Answers
  <2> QED BY <1>3, <2>1, <2>2, <2>3, <2>4, KernelWithholds DEF Decides
<1>7. CASE family = "services"
  <2>1. Provide(check, e) = ServiceVerdict(check, e) /\ Provide(check, f) = ServiceVerdict(check, f)
    BY <1>7 DEF Provide
  <2>2. check.type \in ServiceTypes
    BY <1>2, <1>7 DEF TypesOf
  <2>3. {"ufw", "sshd", "ip", "postconf", "exim", "sendmail_cf", sshd_banner(f)} \cap e.hidden = {}
    BY <1>1, <1>7 DEF Asks
  <2>4. SshAnswers(f) /\ UfwAnswers(f) /\ AnswersAll(f, {"postconf", "exim"})
    BY <1>1, <1>7 DEF Answers
  <2> QED BY <1>3, <2>1, <2>2, <2>3, <2>4, ServiceWithholds
<1>8. CASE family = "boot"
  <2>1. Provide(check, e) = BootVerdict(check, e) /\ Provide(check, f) = BootVerdict(check, f)
    BY <1>8 DEF Provide
  <2>2. check.type \in BootTypes
    BY <1>2, <1>8 DEF TypesOf
  <2>3. e.hidden = {}
    BY <1>1, <1>8 DEF Asks
  <2>4. ApparmorAnswers(f)
    BY <1>1, <1>8 DEF Answers
  <2> QED BY <1>3, <2>1, <2>2, <2>3, <2>4, BootWithholds DEF Decides
<1>9. CASE family = "audit"
  <2>1. Provide(check, e) = AuditVerdict(check, e) /\ Provide(check, f) = AuditVerdict(check, f)
    BY <1>9 DEF Provide
  <2>2. check.type \in AuditTypes
    BY <1>2, <1>9 DEF TypesOf
  <2>3. AuditAsks(check, f) \cap e.hidden = {}
    BY <1>1, <1>9 DEF Asks
  <2>4. (Content(f, "auditctl") # Absent => ~Content(f, "auditctl")["user"].ok)
    BY <1>1, <1>9 DEF Answers
  <2> QED BY <1>3, <2>1, <2>2, <2>3, <2>4, AuditWithholds DEF Decides
<1>10. CASE family = "paths"
  <2>1. Provide(check, e) = PathVerdict(check, e) /\ Provide(check, f) = PathVerdict(check, f)
    BY <1>10 DEF Provide
  <2>2. TypedCheck("paths", check)
    BY <1>1, <1>10
  <2>3. PathAsks(check, f) \cap e.hidden = {}
    BY <1>1, <1>10 DEF Asks
  <2>4. SshAnswers(f)
    BY <1>1, <1>10 DEF Answers
  <2> QED BY <1>3, <2>1, <2>2, <2>3, <2>4, PathWithholds DEF Decides
<1>11. CASE family \in {"packages", "versions"}
  <2>1. Provide(check, e) = PackageVerdict(check, e) /\ Provide(check, f) = PackageVerdict(check, f)
    BY <1>11 DEF Provide
  <2>2. check.type \in PackageTypes
    BY <1>2, <1>11 DEF TypesOf
  <2>3. {"apt_cache", "apt_config", "sources_list"} \cap e.hidden = {}
    BY <1>1, <1>11 DEF Asks
  <2>4. AnswersAll(f, {"apt_cache", "apt_config"})
    BY <1>1, <1>11 DEF Answers
  <2> QED BY <1>3, <2>1, <2>2, <2>3, <2>4, PackageWithholds
<1>12. CASE family = "esxi"
  <2>1. Provide(check, e) = EsxiVerdict(check, e) /\ Provide(check, f) = EsxiVerdict(check, f)
    BY <1>12 DEF Provide
  <2>2. check.type \in EsxiTypes \cup VmTypes
    BY <1>2, <1>12 DEF TypesOf
  <2>3. {"esxcli", "vimcmd", "chkconfig"} \cap e.hidden = {}
    BY <1>1, <1>12 DEF Asks
  <2>4. AnswersAll(f, {"esxcli", "vimcmd", "chkconfig"})
    BY <1>1, <1>12 DEF Answers
  <2> QED BY <1>3, <2>1, <2>2, <2>3, <2>4, EsxiWithholds DEF Decides
<1> QED
  BY <1>1, <1>4, <1>5, <1>6, <1>7, <1>8, <1>9, <1>10, <1>11, <1>12

(* A control with its conditions: one that is withheld withholds the verdict. *)
LEMMA VerdictWithholds ==
  ASSUME RefusalAssumption, family \in Families, AuditedHost(family, host), NEW j \in DOMAIN Checks[family], NEW e,
         AsUser(e, RootView(family, host)), e.hidden = Hidden[family], ~Decides(Checks[family][j], e)
  PROVE  VerdictOf(Checks[family][j], e) \in {"NOT_ASSESSED", VerdictOf(Checks[family][j], RootView(family, host))}
<1> DEFINE check == Checks[family][j]
           f == RootView(family, host)
           conditions == ConditionsOf(check)
           n == Len(conditions)
           Outcome(k, v) == Applies(conditions[k], v)
           Failing(v) == {k \in 1 .. n : Outcome(k, v) # TRUE}
           First(v) == SelectInSeq(conditions, LAMBDA c : Applies(c, v) # TRUE)
<1>1. Provide(check, e) \in {"NOT_ASSESSED", Provide(check, f)}
  BY ProvideWithholds
<1>2. \A v : VerdictOf(check, v) = IF First(v) = 0 THEN Provide(check, v) ELSE If(Outcome(First(v), v), "")
  BY DEF VerdictOf, ConditionsOf
<1>3. \A v : First(v) = IF Failing(v) # {} THEN Min(Failing(v)) ELSE 0
  BY DEF SelectInSeq
<1>4. TypedCheck(family, check) /\ ConditionAsks(check) \cap e.hidden = {}
  BY DEF RefusalAssumption, AuditedHost
<1>5. n \in Nat
  BY <1>4 DEF TypedCheck
<1>6. ASSUME NEW k \in 1 .. n PROVE Outcome(k, e) = Unavailable \/ Outcome(k, e) = Outcome(k, f)
  <2> DEFINE c == conditions[k]
  <2>1. c.type \in ConditionTypes
    BY <1>4 DEF TypedCheck
  <2>2. {"sshd", "proc_ipv6"} \cap e.hidden = {}
    BY <1>4 DEF ConditionAsks
  <2>3. c.type = "path_exists" => c.path \notin e.hidden
    BY <1>4 DEF ConditionAsks
  <2>4. AsUser(e, f)
    OBVIOUS
  <2> HIDE DEF c, f
  <2>5. Applies(c, e) = Unavailable \/ Applies(c, e) = Applies(c, f)
    BY <2>1, <2>2, <2>3, <2>4, ConditionWithholds
  <2> QED BY <2>5 DEF c
<1>7. Unavailable # TRUE
  BY DistinctAnswers
<1>8. \A v : Failing(v) \in SUBSET (1 .. n) /\ \A k \in 1 .. n : k \in Failing(v) <=> Outcome(k, v) # TRUE
  OBVIOUS
<1> SUFFICES VerdictOf(check, e) \in {"NOT_ASSESSED", VerdictOf(check, f)}
  OBVIOUS
<1> HIDE DEF check, f, conditions, n, Outcome, Failing, First
<1>9. CASE Failing(e) = {}
  <2>1. Failing(f) = {}
    BY <1>6, <1>7, <1>8, <1>9
  <2>2. First(e) = 0 /\ First(f) = 0
    BY <1>3, <1>9, <2>1
  <2> QED BY <1>1, <1>2, <2>2
<1>10. CASE Failing(e) # {}
  <2> DEFINE m == Min(Failing(e))
  <2>1. m \in Failing(e) /\ \A k \in Failing(e) : m <= k
    BY <1>5, <1>8, <1>10, MinIsIn
  <2> HIDE DEF m
  <2>2. First(e) = m /\ m \in 1 .. n
    BY <1>3, <1>8, <1>10, <2>1 DEF m
  <2>3. CASE Outcome(m, e) = Unavailable
    <3>1. First(e) # 0
      BY <1>5, <2>2
    <3>2. VerdictOf(check, e) = If(Outcome(m, e), "")
      BY <1>2, <2>2, <3>1
    <3> QED BY <2>3, <3>2 DEF If
  <2>4. CASE Outcome(m, e) = Outcome(m, f)
    <3>1. m \in Failing(f)
      BY <1>8, <2>1, <2>2, <2>4
    <3>2. ASSUME NEW k \in Failing(f) PROVE m <= k
      <4>1. k \in 1 .. n /\ Outcome(k, f) # TRUE
        BY <1>8, <3>2
      <4>2. k \in Failing(e)
        BY <1>6, <1>7, <1>8, <4>1
      <4> QED BY <2>1, <4>2
    <3>3. First(f) = m
      BY <1>3, <1>5, <1>8, <3>1, <3>2, MinIs
    <3>4. First(f) # 0 /\ First(e) # 0
      BY <1>5, <2>2, <3>3
    <3>5. VerdictOf(check, e) = If(Outcome(m, e), "") /\ VerdictOf(check, f) = If(Outcome(m, f), "")
      BY <1>2, <2>2, <3>3, <3>4
    <3> QED BY <2>4, <3>5
  <2> QED BY <1>6, <2>2, <2>3, <2>4
<1> QED
  BY <1>9, <1>10

(* The host is an audited one, and the databases in the cache are those of before or of now. *)
RefusalInv ==
  /\ family \in Families
  /\ root \in BOOLEAN
  /\ AuditedHost(family, host)
  /\ \E S : verdicts \in Seq(S)
  /\ Len(verdicts) <= Len(Checks[family])
  /\ \A d \in DOMAIN cache : d \in DOMAIN host /\ cache[d] \in {before[d], host[d]}

(* The invariant holds at first. *)
LEMMA RefusalInit == RefusalAssumption /\ Init => RefusalInv
<1> SUFFICES ASSUME RefusalAssumption, Init PROVE RefusalInv
  OBVIOUS
<1>1. AuditedHost(family, host)
  BY DEF Init, RefusalAssumption
<1>2. Len(Checks[family]) \in Nat
  BY DEF Init, RefusalAssumption
<1>3. verdicts \in Seq({}) /\ Len(verdicts) = 0 /\ DOMAIN cache = {}
  BY DEF Init
<1> QED BY <1>1, <1>2, <1>3 DEF Init, RefusalInv

(* Only checks of accounts collect databases. *)
LEMMA ReadsAreThere ==
  ASSUME RefusalAssumption, RefusalInv, NEW j \in DOMAIN Checks[family], NEW e
  PROVE  Reads(Checks[family][j], e) \subseteq DOMAIN host
<1> DEFINE check == Checks[family][j]
<1>1. check.type \in TypesOf(family) /\ family \in {"accounts", "access", "kernel", "services", "boot", "audit", "paths", "packages", "versions", "esxi"}
  BY DEF RefusalAssumption, RefusalInv, TypedCheck
<1> HIDE DEF check
<1>2. CASE family = "accounts"
  <2>1. Databases \subseteq DOMAIN host
    BY <1>2 DEF RefusalInv, AuditedHost
  <2> QED BY <2>1, ReadsAreDatabases
<1>3. CASE family # "accounts"
  <2>1. check.type \notin AccountTypes
    BY <1>1, <1>3 DEF TypesOf, AccountTypes, AccessTypes, KernelTypes, ServiceTypes, BootTypes, AuditTypes, PathTypes,
                      PackageTypes, EsxiTypes, VmTypes
  <2>2. Reads(check, e) = {}
    BY <2>1 DEF Reads, Collected, AccountTypes
  <2> QED BY <2>2 DEF check
<1> QED BY <1>2, <1>3

(* A control collects databases the host has, as it has them. *)
LEMMA RefusalAssess == RefusalAssumption /\ RefusalInv /\ Assess => RefusalInv'
<1> SUFFICES ASSUME RefusalAssumption, RefusalInv, Assess PROVE RefusalInv'
  OBVIOUS
<1> DEFINE n == Len(verdicts)
           R == Reads(Next1, View)
<1>1. /\ cache' = Altered(cache, [i \in R \ DOMAIN cache |-> host[i]])
      /\ verdicts' = Append(verdicts, VerdictOf(Next1, View))
      /\ UNCHANGED <<family, root, host, before>>
      /\ n < Len(Checks[family])
  BY DEF Assess
<1>2. PICK S : verdicts \in Seq(S)
  BY DEF RefusalInv
<1>3. n \in Nat /\ Len(Checks[family]) \in Nat /\ n + 1 \in DOMAIN Checks[family] /\ n + 1 <= Len(Checks[family])
  BY <1>1, <1>2 DEF RefusalInv, RefusalAssumption
<1>4. R \subseteq DOMAIN host
  BY <1>3, ReadsAreThere DEF Next1
<1>5. DOMAIN cache' = DOMAIN cache \cup R
      /\ \A i \in DOMAIN cache' : cache'[i] = IF i \in DOMAIN cache THEN cache[i] ELSE host[i]
  BY <1>1 DEF Altered
<1> HIDE DEF R
<1>6. verdicts' \in Seq(S \cup {VerdictOf(Next1, View)}) /\ Len(verdicts') = n + 1
  BY <1>1, <1>2
<1>7. \A d \in DOMAIN cache' : d \in DOMAIN host /\ cache'[d] \in {before[d], host[d]}
  BY <1>4, <1>5 DEF RefusalInv
<1>8. AuditedHost(family, host)'
  BY <1>1 DEF RefusalInv, AuditedHost
<1> QED BY <1>1, <1>3, <1>6, <1>7, <1>8 DEF RefusalInv

(* An edit leads to an audited host, and what was collected is as before it. *)
LEMMA RefusalEdit == RefusalAssumption /\ RefusalInv /\ Edit => RefusalInv'
<1> SUFFICES ASSUME RefusalAssumption, RefusalInv, Edit PROVE RefusalInv'
  OBVIOUS
<1>1. PICK j \in DOMAIN Alts[family] : host' = Altered(host, Alts[family][j])
  BY DEF Edit
<1>2. UNCHANGED <<family, root, before, cache, verdicts>> /\ host = Base[family] /\ before = host
  BY DEF Edit
<1>3. AuditedHost(family, Altered(Base[family], Alts[family][j]))
  BY DEF RefusalInv, RefusalAssumption
<1>4. AuditedHost(family', host')
  BY <1>1, <1>2, <1>3
<1>5. DOMAIN host \subseteq DOMAIN host'
  BY <1>1 DEF Altered
<1>6. \A d \in DOMAIN cache' : d \in DOMAIN host' /\ cache'[d] \in {before'[d], host'[d]}
  BY <1>2, <1>5 DEF RefusalInv
<1> QED BY <1>2, <1>4, <1>6 DEF RefusalInv

(* While no edit has come, the cache holds what the host holds. *)
LEMMA ViewIsOfHost ==
  ASSUME RefusalInv, host = before
  PROVE  View = [root |-> root, val |-> host, now |-> host, denied |-> Denied[family], hidden |-> Hidden[family]]
<1>1. host = [i \in DOMAIN host |-> host[i]]
  BY DEF RefusalInv, AuditedHost
<1>2. CASE cache = <<>>
  BY <1>2 DEF View, ViewOf
<1>3. CASE cache # <<>>
  <2>1. DOMAIN host \cup DOMAIN cache = DOMAIN host
    BY DEF RefusalInv
  <2>2. \A i \in DOMAIN host : (IF i \in DOMAIN cache THEN cache[i] ELSE host[i]) = host[i]
    BY DEF RefusalInv
  <2>3. Altered(host, cache) = host
    BY <1>1, <2>1, <2>2 DEF Altered
  <2> QED BY <1>3, <2>3 DEF View, ViewOf
<1> QED BY <1>2, <1>3

(* The invariant implies the property. *)
LEMMA RefusalInvWithholds == RefusalAssumption /\ RefusalInv => RefusalOnlyWithholds
<1> SUFFICES ASSUME RefusalAssumption, RefusalInv, verdicts # <<>>, ~root, host = before, NEW i \in DOMAIN host \ {"passwd", "group"},
                    ~RefusalDecides(Refusing(i), i)
             PROVE  VerdictOf(Asked, Refusing(i)) \in {"NOT_ASSESSED", Truth}
  BY DEF RefusalOnlyWithholds
<1> DEFINE e == Refusing(i)
           f == RootView(family, host)
<1>1. Truth = VerdictOf(Asked, f)
  BY DEF Truth, ViewOf, RootView
<1>2. e.root = root /\ e.val = host /\ e.now = host /\ e.denied = Denied[family] \cup {i} /\ e.hidden = Hidden[family]
  <2>1. View = [root |-> root, val |-> host, now |-> host, denied |-> Denied[family], hidden |-> Hidden[family]]
    BY ViewIsOfHost
  <2> QED BY <2>1 DEF Refusing
<1>3. f = [root |-> TRUE, val |-> host, now |-> host, denied |-> Denied[family], hidden |-> Hidden[family]]
  BY DEF RootView
<1>4. {"passwd", "group", "units"} \cap (Denied[family] \cup Hidden[family]) = {}
  BY DEF RefusalAssumption, RefusalInv
<1>5. Asked = Checks[family][Len(verdicts)] /\ Len(verdicts) \in DOMAIN Checks[family]
  <2>1. PICK S : verdicts \in Seq(S)
    BY DEF RefusalInv
  <2>2. Len(verdicts) \in Nat /\ Len(verdicts) > 0
    BY <2>1
  <2> QED BY <2>2 DEF RefusalInv, RefusalAssumption, Asked
<1>6. ~RefusalDecides(e, i)
  OBVIOUS
<1> HIDE DEF e, f
<1>7. AsUser(e, f) /\ e.hidden = Hidden[family]
  <2>1. ~e.root /\ f.root /\ e.val = f.val /\ e.now = f.now /\ e.denied = Denied[family] \cup {i} /\ e.hidden = Hidden[family]
    BY <1>2, <1>3
  <2> QED BY <1>4, <2>1 DEF AsUser, Closed
<1>8. ~Decides(Asked, e)
  <2>1. Closed(e, "units") => i = "units"
    BY <1>2, <1>4 DEF Closed
  <2> QED BY <1>6, <1>7, <2>1 DEF Decides, RefusalDecides, VmTypes
<1>9. VerdictOf(Asked, e) \in {"NOT_ASSESSED", VerdictOf(Asked, f)}
  BY <1>5, <1>7, <1>8, VerdictWithholds DEF RefusalInv, f
<1> QED
  BY <1>1, <1>9 DEF e

(* Whatever object but the user databases a user may not open, and whatever the content of  *)
(* the host: no check of lsa/checks answers him otherwise than root, unless it says that it *)
(* has not been assessed or RefusalDecides lists it. No provider, collector or fallback     *)
(* takes a refused read for an empty file, a missing setting or a missing line.             *)
THEOREM RefusalOnlyWithholdsHolds == Spec => []RefusalOnlyWithholds
<1>1. Init => RefusalInv
  BY RefusalAssumption, RefusalInit
<1>2. RefusalInv /\ [Next]_vars => RefusalInv'
  <2> SUFFICES ASSUME RefusalInv, [Next]_vars PROVE RefusalInv'
    OBVIOUS
  <2>1. CASE Assess
    BY <2>1, RefusalAssumption, RefusalAssess
  <2>2. CASE Edit
    BY <2>2, RefusalAssumption, RefusalEdit
  <2>3. CASE UNCHANGED vars
    BY <2>3 DEF vars, RefusalInv, AuditedHost
  <2> QED BY <2>1, <2>2, <2>3 DEF Next
<1>3. RefusalInv => RefusalOnlyWithholds
  BY RefusalAssumption, RefusalInvWithholds
<1> QED BY <1>1, <1>2, <1>3, PTL DEF Spec

------------------------------------------------------------------------------
(* Layers: what a boot applies in order and sysctl_configured searches backwards. *)
(* Every set of numbers has a least. *)
LEMMA LeastNumber ==
  ASSUME NEW S \in SUBSET Nat, S # {}
  PROVE  \E n \in S : \A m \in S : n <= m
<1> DEFINE R == {ss \in Nat \X Nat : ss[1] < ss[2]}
<1>0. IsWellFoundedOn(R, Nat)
  BY NatLessThanWellFounded DEF OpToRel
<1>1. PICK n \in S : \A m \in S : <<m, n>> \notin R
  BY <1>0, WFMin
<1>2. \A m \in S : ~(m < n)
  BY <1>1
<1> QED BY <1>2

(* Induction over numbers, of a set of them. *)
LEMMA Reached ==
  ASSUME NEW S \in SUBSET Nat, 0 \in S, NEW N \in Nat, \A n \in 0 .. N - 1 : n \in S => n + 1 \in S
  PROVE  N \in S
<1> SUFFICES ASSUME N \notin S PROVE FALSE
  OBVIOUS
<1> DEFINE D == {n \in 0 .. N : n \notin S}
<1>1. PICK n \in D : \A m \in D : n <= m
  <2>1. D \in SUBSET Nat /\ D # {}
    OBVIOUS
  <2> QED BY <2>1, LeastNumber
<1>2. n - 1 \in 0 .. N - 1 /\ n - 1 \in S
  BY <1>1
<1> QED BY <1>1, <1>2

(* The recursive function behind FlattenSeq exists. *)
LEMMA Flattened ==
  ASSUME NEW V, NEW s \in Seq(Seq(V)), Len(s) > 0
  PROVE  \E h : /\ FlattenSeq(s) = h[Len(s)]
                /\ \A i \in 1 .. Len(s) : h[i] = IF i = 1 THEN s[i] ELSE h[i - 1] \o s[i]
<1> DEFINE N == Len(s)
           Solves(h, n) == h = [i \in 1 .. n |-> IF i = 1 THEN s[i] ELSE h[i - 1] \o s[i]]
           S == {n \in 0 .. N : n > 0 => \E h : Solves(h, n)}
<1>0. N \in Nat /\ N > 0 /\ \A i \in 1 .. N : s[i] \in Seq(V)
  OBVIOUS
<1>1. \E h : Solves(h, N)
  <2>1. ASSUME NEW n \in 0 .. N - 1, n \in S
        PROVE  n + 1 \in S
    <3>1. CASE n = 0
      <4> DEFINE g == [i \in 1 .. 1 |-> s[1]]
      <4>1. g = [i \in 1 .. 1 |-> IF i = 1 THEN s[i] ELSE g[i - 1] \o s[i]]
        OBVIOUS
      <4>2. Solves(g, 1)
        BY <4>1
      <4>3. n + 1 = 1 /\ 1 \in 0 .. N
        BY <1>0, <3>1
      <4> HIDE DEF g, Solves
      <4> QED BY <4>2, <4>3
    <3>2. CASE n > 0
      <4>1. PICK h : Solves(h, n)
        BY <2>1, <3>2
      <4> DEFINE g == [i \in 1 .. n + 1 |-> IF i = n + 1 THEN h[n] \o s[n + 1] ELSE h[i]]
      <4>2. \A i \in 1 .. n : h[i] = IF i = 1 THEN s[i] ELSE h[i - 1] \o s[i]
        BY <4>1
      <4>3. \A i \in 1 .. n + 1 : g[i] = IF i = 1 THEN s[i] ELSE g[i - 1] \o s[i]
        BY <4>2, <3>2
      <4>4. Solves(g, n + 1)
        <5>1. g = [i \in 1 .. n + 1 |-> g[i]]
          OBVIOUS
        <5> HIDE DEF g
        <5> QED BY <4>3, <5>1
      <4>5. n + 1 \in 0 .. N
        BY <1>0
      <4> HIDE DEF g, Solves
      <4>6. \E f : Solves(f, n + 1)
        BY <4>4
      <4> QED BY <4>5, <4>6
    <3>3. n = 0 \/ n > 0
      BY <1>0
    <3> QED BY <3>1, <3>2, <3>3
  <2>2. S \in SUBSET Nat /\ 0 \in S
    <3> HIDE DEF Solves
    <3>1. S \subseteq 0 .. N /\ 0 .. N \subseteq Nat /\ 0 \in 0 .. N /\ ~(0 > 0)
      BY <1>0
    <3>2. 0 \in S
      BY <3>1, Zenon
    <3> QED BY <3>1, <3>2, Zenon
  <2> HIDE DEF S
  <2>3. N \in S
    BY <1>0, <2>1, <2>2, Reached
  <2> QED BY <1>0, <2>3 DEF S
<1> DEFINE h == CHOOSE g : Solves(g, N)
<1>2. FlattenSeq(s) = h[N]
  BY <1>0 DEF FlattenSeq
<1>3. Solves(h, N)
  <2> HIDE DEF Solves
  <2> QED BY <1>1
<1>4. \A i \in 1 .. N : h[i] = IF i = 1 THEN s[i] ELSE h[i - 1] \o s[i]
  <2> HIDE DEF h
  <2> QED BY <1>3
<1> HIDE DEF h, Solves, S
<1> QED BY <1>2, <1>4

(* The last layer that sets anything decides. *)
LEMMA FlattenedLast ==
  ASSUME NEW V, NEW s \in Seq(Seq(V)), Len(s) > 0
  PROVE  /\ (\A i \in 1 .. Len(s) : s[i] = <<>>) => FlattenSeq(s) = <<>>
         /\ \A k \in 1 .. Len(s) :
              (s[k] # <<>> /\ \A i \in k + 1 .. Len(s) : s[i] = <<>>) =>
                FlattenSeq(s) # <<>> /\ Last(FlattenSeq(s)) = Last(s[k])
<1> DEFINE N == Len(s)
<1>0. N \in Nat /\ N > 0 /\ \A i \in 1 .. N : s[i] \in Seq(V)
  OBVIOUS
<1>1. PICK h : FlattenSeq(s) = h[N] /\ \A i \in 1 .. N : h[i] = IF i = 1 THEN s[i] ELSE h[i - 1] \o s[i]
  BY Flattened
<1>2. FlattenSeq(s) = h[N]
  BY <1>1
<1>4. \A i \in 1 .. N : h[i] = IF i = 1 THEN s[i] ELSE h[i - 1] \o s[i]
  BY <1>1
(* What has been applied after n layers. *)
<1> DEFINE Right(n) ==
             /\ h[n] \in Seq(V)
             /\ (\A i \in 1 .. n : s[i] = <<>>) => h[n] = <<>>
             /\ \A k \in 1 .. n :
                  (s[k] # <<>> /\ \A i \in k + 1 .. n : s[i] = <<>>) => h[n] # <<>> /\ Last(h[n]) = Last(s[k])
           T == {n \in 0 .. N : n > 0 => Right(n)}
<1>5. ASSUME NEW n \in 0 .. N - 1, n \in T
      PROVE  n + 1 \in T
  <2>1. CASE n = 0
    <3>1. h[1] = s[1]
      BY <1>0, <1>4
    <3> QED BY <1>0, <2>1, <3>1
  <2>2. CASE n > 0
    <3>1. h[n + 1] = h[n] \o s[n + 1] /\ h[n] \in Seq(V) /\ s[n + 1] \in Seq(V) /\ Right(n)
      <4>1. n + 1 \in 1 .. N /\ n + 1 # 1 /\ (n + 1) - 1 = n
        BY <2>2
      <4>2. h[n + 1] = h[n] \o s[n + 1]
        BY <1>4, <4>1
      <4>3. Right(n)
        BY <1>5, <2>2
      <4> QED BY <1>0, <4>1, <4>2, <4>3
    <3>2. CASE s[n + 1] = <<>>
      <4>1. h[n + 1] = h[n]
        BY <3>1, <3>2
      <4>2. (\A i \in 1 .. n + 1 : s[i] = <<>>) => h[n + 1] = <<>>
        BY <3>1, <4>1
      <4>3. ASSUME NEW k \in 1 .. n + 1, s[k] # <<>>, \A i \in k + 1 .. n + 1 : s[i] = <<>>
            PROVE  h[n + 1] # <<>> /\ Last(h[n + 1]) = Last(s[k])
        <5>1. k \in 1 .. n /\ \A i \in k + 1 .. n : s[i] = <<>>
          BY <3>2, <4>3
        <5> QED BY <3>1, <4>1, <4>3, <5>1
      <4> QED BY <3>1, <4>1, <4>2, <4>3
    <3>3. CASE s[n + 1] # <<>>
      <4>1. h[n + 1] \in Seq(V) /\ h[n + 1] # <<>> /\ Last(h[n + 1]) = Last(s[n + 1])
        <5>1. Len(s[n + 1]) \in Nat /\ Len(s[n + 1]) > 0 /\ Len(h[n]) \in Nat
          BY <3>1, <3>3
        <5>2. Len(h[n + 1]) = Len(h[n]) + Len(s[n + 1])
          BY <3>1
        <5>3. h[n + 1][Len(h[n]) + Len(s[n + 1])] = s[n + 1][Len(s[n + 1])]
          <6> DEFINE a == h[n]
                     b == s[n + 1]
          <6>1. a \in Seq(V) /\ b \in Seq(V) /\ Len(b) \in Nat /\ Len(b) > 0 /\ Len(a) \in Nat
            BY <3>1, <5>1
          <6>2. h[n + 1] = a \o b
            BY <3>1
          <6> HIDE DEF a, b
          <6>3. (a \o b)[Len(a) + Len(b)] = b[Len(b)]
            BY <6>1
          <6> QED BY <6>2, <6>3 DEF a, b
        <5> QED BY <3>1, <5>1, <5>2, <5>3 DEF Last
      <4>2. \A k \in 1 .. n + 1 : (\A i \in k + 1 .. n + 1 : s[i] = <<>>) => k = n + 1
        BY <3>3
      <4>3. Right(n + 1)
        <5>1. n + 1 \in 1 .. n + 1 /\ ~\A i \in 1 .. n + 1 : s[i] = <<>>
          BY <3>3
        <5> QED BY <4>1, <4>2, <5>1
      <4>4. n + 1 \in 0 .. N
        BY <1>0
      <4> HIDE DEF Right
      <4> QED BY <4>3, <4>4
    <3> QED BY <3>2, <3>3
  <2> QED BY <2>1, <2>2
<1>6. Right(N)
  <2>1. T \in SUBSET Nat /\ 0 \in T
    BY <1>0
  <2> HIDE DEF T
  <2>2. N \in T
    BY <1>0, <1>5, <2>1, Reached
  <2> QED BY <1>0, <2>2 DEF T
<1> QED BY <1>2, <1>6

(* Where a search for the first file that sets anything ends. *)
LEMMA FirstThatSets ==
  ASSUME NEW q, Len(q) \in Nat
  PROVE  LET j == SelectInSeq(q, LAMBDA f : f.isfile /\ f.set # <<>>) IN
         /\ (\A i \in 1 .. Len(q) : ~(q[i].isfile /\ q[i].set # <<>>)) => j = 0
         /\ \A i \in 1 .. Len(q) :
              (q[i].isfile /\ q[i].set # <<>> /\ \A k \in 1 .. i - 1 : ~(q[k].isfile /\ q[k].set # <<>>)) => j = i
<1> DEFINE I == {i \in 1 .. Len(q) : q[i].isfile /\ q[i].set # <<>>}
           j == SelectInSeq(q, LAMBDA f : f.isfile /\ f.set # <<>>)
<1>1. j = IF I # {} THEN Min(I) ELSE 0
  BY DEF SelectInSeq
<1>2. (\A i \in 1 .. Len(q) : ~(q[i].isfile /\ q[i].set # <<>>)) => j = 0
  BY <1>1
<1>3. ASSUME NEW i \in 1 .. Len(q), q[i].isfile /\ q[i].set # <<>>, \A k \in 1 .. i - 1 : ~(q[k].isfile /\ q[k].set # <<>>)
      PROVE  j = i
  <2>1. i \in I /\ I \subseteq Nat
    BY <1>3
  <2>2. \A k \in I : i <= k
    BY <1>3
  <2> HIDE DEF I
  <2>3. Min(I) = i
    <3>1. Min(I) \in I /\ \A k \in I : Min(I) <= k
      BY <2>1, <2>2 DEF Min
    <3>2. Min(I) \in Nat /\ i \in Nat /\ Min(I) <= i /\ i <= Min(I)
      BY <2>1, <2>2, <3>1
    <3> QED BY <3>2
  <2> QED BY <1>1, <2>1, <2>3
<1> QED BY <1>2, <1>3

(* A finite set of numbers in order. *)
LEMMA Sorted ==
  ASSUME NEW S, IsFiniteSet(S), S \subseteq Nat
  PROVE  /\ Cardinality(S) \in Nat
         /\ \A j \in 1 .. Cardinality(S) : Nth(S, j) \in S
         /\ \A n \in S : \E j \in 1 .. Cardinality(S) : Nth(S, j) = n
         /\ \A j, k \in 1 .. Cardinality(S) : j < k => Nth(S, j) < Nth(S, k)
<1> DEFINE K == Cardinality(S)
           upto(n) == {m \in S : m <= n}
           rank == [n \in S |-> Cardinality(upto(n))]
<1>0. \A n \in S : n \in Nat
  OBVIOUS
<1>1. K \in Nat /\ IsFiniteSet(1 .. K) /\ Cardinality(1 .. K) = K
  BY FS_CardinalityType, FS_Interval
<1>2. \A n \in S : IsFiniteSet(upto(n)) /\ Cardinality(upto(n)) \in 1 .. K
  <2> TAKE n \in S
  <2>1. upto(n) \subseteq S /\ n \in upto(n)
    OBVIOUS
  <2> HIDE DEF upto
  <2>2. IsFiniteSet(upto(n)) /\ Cardinality(upto(n)) <= K /\ Cardinality(upto(n)) \in Nat
    BY <2>1, FS_Subset, FS_CardinalityType
  <2>3. Cardinality(upto(n)) # 0
    BY <2>1, <2>2, FS_EmptySet
  <2> QED BY <1>1, <2>2, <2>3
<1>3. \A m, n \in S : m < n => rank[m] < rank[n]
  <2> SUFFICES ASSUME NEW m \in S, NEW n \in S, m < n PROVE rank[m] < rank[n]
    OBVIOUS
  <2>1. upto(m) \subseteq upto(n) /\ n \in upto(n) /\ n \notin upto(m)
    <3>1. m \in Nat /\ n \in Nat
      BY <1>0
    <3>2. \A x \in S : x <= m => x <= n
      BY <1>0, <3>1
    <3>3. n <= n /\ ~(n <= m)
      BY <3>1
    <3> QED BY <3>2, <3>3
  <2>2. IsFiniteSet(upto(n)) /\ Cardinality(upto(m)) \in Nat /\ Cardinality(upto(n)) \in Nat
    BY <1>1, <1>2
  <2> HIDE DEF upto
  <2>3. Cardinality(upto(m)) <= Cardinality(upto(n)) /\ Cardinality(upto(m)) # Cardinality(upto(n))
    BY <2>1, <2>2, FS_Subset
  <2> QED BY <2>2, <2>3
<1>4. rank \in [S -> 1 .. K]
  BY <1>2
<1>5. \A m, n \in S : rank[m] = rank[n] => m = n
  <2> SUFFICES ASSUME NEW m \in S, NEW n \in S, rank[m] = rank[n], m # n PROVE FALSE
    OBVIOUS
  <2>1. m < n \/ n < m
    OBVIOUS
  <2>2. rank[m] \in Nat /\ rank[n] \in Nat
    BY <1>1, <1>4
  <2> HIDE DEF rank
  <2> QED BY <1>3, <2>1, <2>2
<1>6. \A j \in 1 .. K : \E n \in S : rank[n] = j
  <2>1. rank \in Injection(S, 1 .. K)
    BY <1>4, <1>5 DEF Injection, IsInjective
  <2>2. rank \in Surjection(S, 1 .. K)
    BY <1>1, <2>1, FS_Injection
  <2> QED BY <2>2 DEF Surjection
<1>7. \A j \in 1 .. K : Nth(S, j) \in S /\ rank[Nth(S, j)] = j
  <2> TAKE j \in 1 .. K
  <2>1. \E n \in S : Cardinality({m \in S : m <= n}) = j
    BY <1>6
  <2> QED BY <2>1 DEF Nth
<1> HIDE DEF rank
<1>8. \A n \in S : Nth(S, rank[n]) = n /\ rank[n] \in 1 .. K
  BY <1>4, <1>5, <1>7
<1>9. \A j, k \in 1 .. K : j < k => Nth(S, j) < Nth(S, k)
  <2> SUFFICES ASSUME NEW j \in 1 .. K, NEW k \in 1 .. K, j < k, ~(Nth(S, j) < Nth(S, k)) PROVE FALSE
    OBVIOUS
  <2>1. Nth(S, j) \in Nat /\ Nth(S, k) \in Nat /\ j \in Nat /\ k \in Nat
    <3>1. Nth(S, j) \in S /\ Nth(S, k) \in S
      BY <1>7
    <3>2. Nth(S, j) \in Nat /\ Nth(S, k) \in Nat
      BY <1>0, <3>1, Zenon
    <3> QED BY <1>1, <3>2
  <2>2. Nth(S, k) < Nth(S, j) \/ Nth(S, k) = Nth(S, j)
    BY <2>1
  <2>3. rank[Nth(S, k)] < rank[Nth(S, j)] \/ rank[Nth(S, k)] = rank[Nth(S, j)]
    BY <1>3, <1>7, <2>2
  <2> QED BY <1>7, <2>1, <2>3
<1> QED BY <1>1, <1>7, <1>8, <1>9

(* Two layers chosen from: a file of the first hides its namesake of the second. *)
LEMMA ChosenIs ==
  ASSUME NEW e, Glob(e, "sysctl_etc") # Unavailable, Glob(e, "sysctl_lib") # Unavailable,
         IsFiniteSet(DOMAIN Glob(e, "sysctl_etc")), IsFiniteSet(DOMAIN Glob(e, "sysctl_lib")),
         DOMAIN Glob(e, "sysctl_etc") \subseteq Nat, DOMAIN Glob(e, "sysctl_lib") \subseteq Nat
  PROVE  LET etc == Glob(e, "sysctl_etc")
             lib == Glob(e, "sysctl_lib")
             names == DOMAIN etc \cup DOMAIN lib
         IN  Chosen(e, SysctlDirs) =
               [j \in 1 .. Cardinality(names) |->
                  IF Nth(names, j) \in DOMAIN etc THEN etc[Nth(names, j)] ELSE lib[Nth(names, j)]]
<1> DEFINE etc == Glob(e, "sysctl_etc")
           lib == Glob(e, "sysctl_lib")
           names == DOMAIN etc \cup DOMAIN lib
           layer == [j \in DOMAIN SysctlDirs |-> Glob(e, SysctlDirs[j])]
           first(n) == CHOOSE j \in DOMAIN SysctlDirs : n \in DOMAIN layer[j] /\ \A k \in 1 .. j - 1 : n \notin DOMAIN layer[k]
<1>1. DOMAIN SysctlDirs = {1, 2} /\ layer[1] = etc /\ layer[2] = lib
  BY DEF SysctlDirs
<1>2. UNION {DOMAIN layer[j] : j \in DOMAIN SysctlDirs} = names
  <2> HIDE DEF layer, etc, lib
  <2> QED BY <1>1
<1>3. \A n \in names : layer[first(n)] = IF n \in DOMAIN etc THEN etc ELSE lib
  <2> TAKE n \in names
  <2> HIDE DEF layer, etc, lib
  <2>1. CASE n \in DOMAIN etc
    <3>1. \A j \in {1, 2} : (n \in DOMAIN layer[j] /\ \A k \in 1 .. j - 1 : n \notin DOMAIN layer[k]) <=> j = 1
      BY <1>1, <2>1
    <3>2. first(n) = 1
      BY <1>1, <3>1
    <3> QED BY <1>1, <2>1, <3>2
  <2>2. CASE n \notin DOMAIN etc
    <3>1. \A j \in {1, 2} : (n \in DOMAIN layer[j] /\ \A k \in 1 .. j - 1 : n \notin DOMAIN layer[k]) <=> j = 2
      BY <1>1, <2>2
    <3>2. first(n) = 2
      BY <1>1, <3>1
    <3> QED BY <1>1, <2>2, <3>2
  <2> QED BY <2>1, <2>2
<1>4. \A j \in 1 .. Cardinality(names) : Nth(names, j) \in names
  <2>1. IsFiniteSet(names) /\ names \subseteq Nat
    BY FS_Union
  <2> HIDE DEF names
  <2> QED BY <2>1, Sorted
<1>5. Chosen(e, SysctlDirs) = [j \in 1 .. Cardinality(names) |-> layer[first(Nth(names, j))][Nth(names, j)]]
  <2>1. ~ \E j \in DOMAIN SysctlDirs : layer[j] = Unavailable
    <3> HIDE DEF layer
    <3> QED BY <1>1
  <2>2. Chosen(e, SysctlDirs) =
          LET S == UNION {DOMAIN layer[j] : j \in DOMAIN SysctlDirs} IN
          IF \E j \in DOMAIN SysctlDirs : layer[j] = Unavailable THEN Unavailable
          ELSE [j \in 1 .. Cardinality(S) |-> layer[first(Nth(S, j))][Nth(S, j)]]
    BY DEF Chosen
  <2> HIDE DEF layer, names, first
  <2> QED BY <1>2, <2>1, <2>2
<1> HIDE DEF layer, first, names
<1>6. \A j \in 1 .. Cardinality(names) :
        layer[first(Nth(names, j))][Nth(names, j)] =
          IF Nth(names, j) \in DOMAIN etc THEN etc[Nth(names, j)] ELSE lib[Nth(names, j)]
  BY <1>3, <1>4
<1>7. Chosen(e, SysctlDirs) =
        [j \in 1 .. Cardinality(names) |-> IF Nth(names, j) \in DOMAIN etc THEN etc[Nth(names, j)] ELSE lib[Nth(names, j)]]
  BY <1>5, <1>6
<1> QED BY <1>7 DEF names

(* The place where sysctl_configured stops, and files that set nothing. *)
FirstSet(q) == SelectInSeq(q, LAMBDA f : f.isfile /\ f.set # <<>>)
NothingSet(s) == \A i \in 1 .. Len(s) : s[i].set = <<>>

(* The search from the last layer to the first ends at the last one that sets anything. *)
LEMMA SearchEnds ==
  ASSUME NEW W, \A w \in W : w.isfile \in BOOLEAN /\ (~w.isfile => w.set = <<>>),
         NEW u \in Seq(W), Len(u) <= 1, NEW m \in Seq(W), Len(m) <= 1, NEW c \in Seq(W)
  PROVE  LET q == u \o m \o Reverse(c)
             j == FirstSet(q)
         IN  /\ u # <<>> /\ u[1].set # <<>> => j # 0 /\ q[j] = u[1]
             /\ NothingSet(u) /\ m # <<>> /\ m[1].set # <<>> => j # 0 /\ q[j] = m[1]
             /\ \A k \in 1 .. Len(c) :
                  NothingSet(u) /\ NothingSet(m) /\ c[k].set # <<>> /\ (\A i \in k + 1 .. Len(c) : c[i].set = <<>>) =>
                    j # 0 /\ q[j] = c[k]
             /\ NothingSet(u) /\ NothingSet(m) /\ NothingSet(c) => j = 0
<1> DEFINE q == u \o m \o Reverse(c)
           j == FirstSet(q)
           a == Len(u)
           b == Len(m)
           n == Len(c)
<1>1. a \in 0 .. 1 /\ b \in 0 .. 1 /\ n \in Nat
  <2>1. a \in Nat /\ b \in Nat /\ n \in Nat
    BY LenProperties
  <2>2. a <= 1 /\ b <= 1
    OBVIOUS
  <2> HIDE DEF a, b, n
  <2> QED BY <2>1, <2>2
<1>2. Reverse(c) = [i \in 1 .. n |-> c[n - i + 1]] /\ Reverse(c) \in Seq(W)
  <2>1. \A i \in 1 .. n : n - i + 1 \in 1 .. n /\ c[n - i + 1] \in W
    BY <1>1
  <2> QED BY <1>1, <2>1 DEF Reverse
<1>3. /\ Len(q) = a + b + n
      /\ a = 1 => q[1] = u[1]
      /\ b = 1 => q[a + 1] = m[1]
      /\ \A i \in 1 .. n : q[a + b + n - i + 1] = c[i]
  <2>1. Len(Reverse(c)) = n /\ \A i \in 1 .. n : Reverse(c)[n - i + 1] = c[i]
    BY <1>1, <1>2
  <2> DEFINE d == Reverse(c)
  <2>2. d \in Seq(W)
    BY <1>2
  <2> HIDE DEF d
  <2>3. /\ Len(u \o m \o d) = a + b + Len(d)
        /\ a = 1 => (u \o m \o d)[1] = u[1]
        /\ b = 1 => (u \o m \o d)[a + 1] = m[1]
        /\ \A i \in 1 .. Len(d) : (u \o m \o d)[a + b + i] = d[i]
    <3>1. u \o m \in Seq(W) /\ Len(u \o m) = a + b
      BY <1>1
    <3>2. (a = 1 => (u \o m)[1] = u[1]) /\ (b = 1 => (u \o m)[a + 1] = m[1])
      BY <1>1
    <3> DEFINE p == u \o m
    <3> HIDE DEF p
    <3>3. /\ Len(p \o d) = Len(p) + Len(d)
          /\ \A i \in 1 .. Len(p) : (p \o d)[i] = p[i]
          /\ \A i \in 1 .. Len(d) : (p \o d)[Len(p) + i] = d[i]
      BY <2>2, <3>1 DEF p
    <3> QED BY <1>1, <3>1, <3>2, <3>3 DEF p
  <2>4. \A i \in 1 .. n : n - i + 1 \in 1 .. n /\ a + b + (n - i + 1) = a + b + n - i + 1
    BY <1>1
  <2> QED BY <1>1, <2>1, <2>3, <2>4 DEF d
<1> HIDE DEF q
<1> DEFINE sets(i) == q[i].isfile /\ q[i].set # <<>>
<1>4. /\ Len(q) \in Nat
      /\ (\A i \in 1 .. Len(q) : ~sets(i)) => j = 0
      /\ \A i \in 1 .. Len(q) : (sets(i) /\ \A k \in 1 .. i - 1 : ~sets(k)) => j = i
  <2>1. Len(q) \in Nat
    BY <1>1, <1>3
  <2> QED BY <2>1, FirstThatSets DEF FirstSet
<1> HIDE DEF j
(* The positions of q, part by part. *)
<1>5. \A i \in 1 .. Len(q) :
        \/ i = 1 /\ a = 1
        \/ i = a + 1 /\ b = 1
        \/ a + b + n - i + 1 \in 1 .. n /\ i > a + b /\ q[i] = c[a + b + n - i + 1]
  <2> TAKE i \in 1 .. Len(q)
  <2>1. i <= a + b \/ (i > a + b /\ a + b + n - i + 1 \in 1 .. n /\ a + b + n - (a + b + n - i + 1) + 1 = i)
    BY <1>1, <1>3
  <2>2. i <= a + b => (i = 1 /\ a = 1) \/ (i = a + 1 /\ b = 1)
    BY <1>1, <1>3
  <2> QED BY <1>3, <2>1, <2>2
<1>6. /\ a = 1 => u[1] \in W
      /\ b = 1 => m[1] \in W
      /\ \A i \in 1 .. n : c[i] \in W
  OBVIOUS
<1>7. NothingSet(u) => (a = 1 => ~sets(1))
  BY <1>1, <1>3 DEF NothingSet
<1>8. NothingSet(m) => (b = 1 => ~sets(a + 1))
  BY <1>1, <1>3 DEF NothingSet
<1>9. ASSUME u # <<>>, u[1].set # <<>> PROVE j # 0 /\ q[j] = u[1]
  <2>1. a = 1 /\ sets(1)
    BY <1>1, <1>3, <1>6, <1>9
  <2>2. j = 1
    BY <1>1, <1>3, <1>4, <2>1
  <2> QED BY <1>3, <2>1, <2>2
<1>10. ASSUME NothingSet(u), m # <<>>, m[1].set # <<>> PROVE j # 0 /\ q[j] = m[1]
  <2>1. b = 1 /\ sets(a + 1)
    BY <1>1, <1>3, <1>6, <1>10
  <2>2. a + 1 \in 1 .. Len(q) /\ \A k \in 1 .. a : ~sets(k)
    BY <1>1, <1>3, <1>7, <1>10, <2>1
  <2>3. j = a + 1
    BY <1>1, <1>4, <2>1, <2>2
  <2> QED BY <1>1, <1>3, <2>1, <2>3
<1>11. ASSUME NEW k \in 1 .. n, NothingSet(u), NothingSet(m), c[k].set # <<>>, \A i \in k + 1 .. n : c[i].set = <<>>
       PROVE  j # 0 /\ q[j] = c[k]
  <2> DEFINE p == a + b + n - k + 1
  <2>1. p \in 1 .. Len(q) /\ q[p] = c[k] /\ sets(p) /\ p \in Nat
    BY <1>1, <1>3, <1>6, <1>11
  <2>2. \A i \in 1 .. p - 1 : ~sets(i)
    <3> TAKE i \in 1 .. p - 1
    <3>1. i \in 1 .. Len(q)
      BY <1>1, <1>3, <2>1
    <3>2. (a + b + n - i + 1 \in 1 .. n /\ i > a + b) => a + b + n - i + 1 \in k + 1 .. n
      BY <1>1
    <3> QED BY <1>5, <1>7, <1>8, <1>11, <3>1, <3>2
  <2> HIDE DEF p
  <2>3. j = p
    BY <1>4, <2>1, <2>2
  <2> QED BY <2>1, <2>3
<1>12. ASSUME NothingSet(u), NothingSet(m), NothingSet(c) PROVE j = 0
  <2>1. \A i \in 1 .. n : c[i].set = <<>>
    BY <1>12 DEF NothingSet
  <2>2. \A i \in 1 .. Len(q) : ~sets(i)
    BY <1>5, <1>7, <1>8, <1>12, <2>1
  <2> QED BY <1>4, <2>2
<1> QED BY <1>9, <1>10, <1>11, <1>12 DEF q, j

(* The greatest of a finite set of numbers. *)
LEMMA GreatestNumber ==
  ASSUME NEW S, IsFiniteSet(S), S \subseteq Nat, S # {}
  PROVE  Max(S) \in S /\ \A n \in S : n <= Max(S)
<1> DEFINE K == Cardinality(S)
           g == Nth(S, K)
<1>1. K \in Nat /\ K # 0
  BY FS_CardinalityType, FS_EmptySet
<1>2. \A n \in S : n \in Nat
  OBVIOUS
<1>3. g \in S
  <2>1. K \in 1 .. K
    BY <1>1
  <2> HIDE DEF K
  <2> QED BY <2>1, Sorted DEF K
<1>4. \A n \in S : n <= g
  <2> TAKE n \in S
  <2>1. PICK j \in 1 .. K : Nth(S, j) = n
    BY Sorted
  <2>2. j < K => Nth(S, j) < g
    <3>1. K \in 1 .. K
      BY <1>1
    <3> HIDE DEF K
    <3> QED BY <3>1, Sorted DEF K
  <2>3. n \in Nat /\ g \in Nat /\ (j < K \/ j = K)
    <3>1. j < K \/ j = K
      BY <1>1
    <3> HIDE DEF g
    <3> QED BY <1>2, <1>3, <3>1
  <2> HIDE DEF g
  <2> QED BY <2>1, <2>2, <2>3 DEF g
<1> HIDE DEF g
<1>5. Max(S) \in S /\ \A y \in S : Max(S) >= y
  <2>1. \A y \in S : g >= y
    BY <1>2, <1>3, <1>4
  <2> QED BY <1>3, <2>1 DEF Max
<1> QED BY <1>2, <1>5

(* The files of a host, by the objects that hold them. *)
LEMMA AmongFiles ==
  ASSUME SysctlHost(host)
  PROVE  /\ \A f \in SysctlFiles(host) : SysctlFile(f)
         /\ \A f, g \in SysctlFiles(host) : f.real = g.real => f = g
         /\ host.sysctl_conf # Absent => host.sysctl_conf \in SysctlFiles(host)
         /\ host.default_ufw # Absent => host.default_ufw \in SysctlFiles(host)
         /\ host.systemd_sysctl # Absent => ToSet(host.systemd_sysctl["root"].out) \subseteq SysctlFiles(host)
         /\ \A d \in {"sysctl_etc", "sysctl_lib"} :
              host[d] # Absent => \A n \in DOMAIN host[d] : host[d][n] \in SysctlFiles(host)
<1> DEFINE layers == {IF host[d] = Absent THEN {} ELSE {host[d][n] : n \in DOMAIN host[d]} : d \in {"sysctl_etc", "sysctl_lib"}}
           single == {host.sysctl_conf, host.default_ufw} \ {Absent}
           list == IF host.systemd_sysctl = Absent THEN {} ELSE ToSet(host.systemd_sysctl["root"].out)
<1>1. SysctlFiles(host) = (UNION layers) \cup single \cup list
  BY DEF SysctlFiles
<1>2. \A d \in {"sysctl_etc", "sysctl_lib"} : \A n \in DOMAIN host[d] : host[d] # Absent => host[d][n] \in UNION layers
  <2> TAKE d \in {"sysctl_etc", "sysctl_lib"}
  <2> TAKE n \in DOMAIN host[d]
  <2> DEFINE layer == IF host[d] = Absent THEN {} ELSE {host[d][m] : m \in DOMAIN host[d]}
  <2>1. layer \in layers
    OBVIOUS
  <2>2. host[d] # Absent => host[d][n] \in layer
    OBVIOUS
  <2> HIDE DEF layer, layers
  <2> QED BY <2>1, <2>2
<1>3. /\ host.sysctl_conf # Absent => host.sysctl_conf \in single
      /\ host.default_ufw # Absent => host.default_ufw \in single
      /\ host.systemd_sysctl # Absent => ToSet(host.systemd_sysctl["root"].out) = list
  OBVIOUS
<1>4. /\ \A f \in SysctlFiles(host) : SysctlFile(f)
      /\ \A f, g \in SysctlFiles(host) : f.real = g.real => f = g
  BY DEF SysctlHost
<1> HIDE DEF layers, single, list
<1> QED BY <1>1, <1>2, <1>3, <1>4

(* What UFW applies. *)
LEMMA UfwIs ==
  ASSUME SysctlHost(host), NEW e, e.root, e.val = host, ufw_sysctl_file(e) # Unavailable
  PROVE  LET u == ufw_sysctl_file(e) IN
         \/ u = <<>> /\ BootUfw.set = <<>>
         \/ u = <<host.default_ufw>> /\ BootUfw = host.default_ufw /\ host.default_ufw # Absent
<1>1. /\ CollectOr(e, "ufw_conf", <<>>) = IF host.ufw_conf = Absent THEN <<>> ELSE host.ufw_conf
      /\ CollectOr(e, "default_ufw", Absent) = host.default_ufw
  BY DEF CollectOr, Closed, Content, SysctlHost
<1>2. host.default_ufw # Absent => SysctlFile(host.default_ufw)
  BY AmongFiles
<1>3. NoFile.set = <<>>
  BY DEF NoFile
<1> QED BY <1>1, <1>2, <1>3 DEF ufw_sysctl_file, SysctlFile, BootUfw, Given

(* The parts of two sequences joined. *)
LEMMA Joined ==
  ASSUME NEW S, NEW a \in Seq(S), NEW b \in Seq(S)
  PROVE  /\ a \o b \in Seq(S) /\ Len(a \o b) = Len(a) + Len(b)
         /\ \A i \in 1 .. Len(a) : (a \o b)[i] = a[i]
         /\ \A i \in 1 .. Len(b) : (a \o b)[Len(a) + i] = b[i]
OBVIOUS

(* The last file of a sequence that sets anything. *)
LastSets(s, k) == s[k].set # <<>> /\ \A i \in k + 1 .. Len(s) : s[i].set = <<>>
LEMMA SomeLastSets ==
  ASSUME NEW s, Len(s) \in Nat, ~NothingSet(s)
  PROVE  \E k \in 1 .. Len(s) : LastSets(s, k)
<1> DEFINE S == {i \in 1 .. Len(s) : s[i].set # <<>>}
<1>1. S # {} /\ S \subseteq Nat /\ IsFiniteSet(S)
  <2>1. S \subseteq 1 .. Len(s) /\ IsFiniteSet(1 .. Len(s))
    BY FS_Interval
  <2>2. S # {} /\ S \subseteq Nat
    BY DEF NothingSet
  <2> HIDE DEF S
  <2> QED BY <2>1, <2>2, FS_Subset
<1> DEFINE k == Max(S)
<1>2. k \in S /\ \A i \in S : i <= k
  <2> HIDE DEF S
  <2> QED BY <1>1, GreatestNumber
<1> HIDE DEF k
<1>3. k \in 1 .. Len(s) /\ LastSets(s, k)
  BY <1>2 DEF LastSets
<1> QED BY <1>3

(* Of files applied in order it is the one in force. *)
LEMMA InForceIs ==
  ASSUME NEW W, \A w \in W : w.set \in Seq(ToSet(w.set)), NEW s \in Seq(W), Len(s) > 0
  PROVE  /\ NothingSet(s) => InForce(s) = Absent
         /\ \A k \in 1 .. Len(s) : LastSets(s, k) => InForce(s) = Last(s[k].set)
<1> DEFINE V == UNION {ToSet(w.set) : w \in W}
           t == [j \in DOMAIN s |-> s[j].set]
<1>1. \A w \in W : w.set \in Seq(V)
  <2> TAKE w \in W
  <2>1. w.set \in Seq(ToSet(w.set)) /\ ToSet(w.set) \subseteq V
    OBVIOUS
  <2> HIDE DEF V
  <2> QED BY <2>1
<1> HIDE DEF V
<1>2. DOMAIN s = 1 .. Len(s) /\ Len(s) \in Nat /\ \A j \in 1 .. Len(s) : s[j] \in W
  OBVIOUS
<1>3. t \in Seq(Seq(V)) /\ Len(t) = Len(s) /\ \A j \in 1 .. Len(s) : t[j] = s[j].set
  BY <1>1, <1>2
<1> HIDE DEF t
<1>4. /\ (\A i \in 1 .. Len(t) : t[i] = <<>>) => FlattenSeq(t) = <<>>
      /\ \A k \in 1 .. Len(t) :
           (t[k] # <<>> /\ \A i \in k + 1 .. Len(t) : t[i] = <<>>) => FlattenSeq(t) # <<>> /\ Last(FlattenSeq(t)) = Last(t[k])
  BY <1>3, FlattenedLast
<1>5. InForce(s) = IF FlattenSeq(t) = <<>> THEN Absent ELSE Last(FlattenSeq(t))
  BY DEF InForce, t
<1>6. NothingSet(s) => InForce(s) = Absent
  BY <1>3, <1>4, <1>5 DEF NothingSet
<1>7. ASSUME NEW k \in 1 .. Len(s), LastSets(s, k) PROVE InForce(s) = Last(s[k].set)
  <2>1. t[k] = s[k].set /\ t[k] # <<>>
    BY <1>3, <1>7 DEF LastSets
  <2>2. ASSUME NEW i \in k + 1 .. Len(t) PROVE t[i] = <<>>
    <3>1. i \in 1 .. Len(s) /\ i \in k + 1 .. Len(s)
      BY <1>2, <1>3, <2>2
    <3> QED BY <1>3, <1>7, <3>1 DEF LastSets
  <2>3. k \in 1 .. Len(t)
    BY <1>3
  <2> QED BY <1>4, <1>5, <2>1, <2>2, <2>3
<1> QED BY <1>6, <1>7

(* The same of files with one more, or two, on top. *)
DecidedOnTop(s, x, y) ==
  /\ y.set # <<>> => InForce(s \o <<y>>) = Last(y.set) /\ InForce(s \o <<x, y>>) = Last(y.set)
  /\ y.set = <<>> /\ x.set # <<>> => InForce(s \o <<x, y>>) = Last(x.set)
  /\ y.set = <<>> /\ NothingSet(s) => InForce(s \o <<y>>) = Absent
  /\ y.set = <<>> /\ x.set = <<>> /\ NothingSet(s) => InForce(s \o <<x, y>>) = Absent
  /\ \A k \in 1 .. Len(s) : y.set = <<>> /\ LastSets(s, k) =>
       /\ InForce(s \o <<y>>) = Last(s[k].set)
       /\ x.set = <<>> => InForce(s \o <<x, y>>) = Last(s[k].set)
LEMMA OnTop ==
  ASSUME NEW W, \A w \in W : w.set \in Seq(ToSet(w.set)), NEW s \in Seq(W), NEW x \in W, NEW y \in W
  PROVE  DecidedOnTop(s, x, y)
<1> DEFINE a == s \o <<y>>
           b == s \o <<x, y>>
           n == Len(s)
<1>1. n \in Nat
  OBVIOUS
<1>2. a \in Seq(W) /\ Len(a) = n + 1 /\ a[n + 1] = y /\ \A i \in 1 .. n : a[i] = s[i]
  <2>1. <<y>> \in Seq(W) /\ Len(<<y>>) = 1 /\ <<y>>[1] = y
    OBVIOUS
  <2> DEFINE top == <<y>>
  <2> HIDE DEF top
  <2>2. /\ s \o top \in Seq(W) /\ Len(s \o top) = Len(s) + Len(top)
        /\ \A i \in 1 .. Len(s) : (s \o top)[i] = s[i]
        /\ \A i \in 1 .. Len(top) : (s \o top)[Len(s) + i] = top[i]
    BY <2>1, Joined DEF top
  <2> QED BY <1>1, <2>1, <2>2 DEF top
<1>3. b \in Seq(W) /\ Len(b) = n + 2 /\ b[n + 1] = x /\ b[n + 2] = y /\ \A i \in 1 .. n : b[i] = s[i]
  <2>1. <<x, y>> \in Seq(W) /\ Len(<<x, y>>) = 2 /\ <<x, y>>[1] = x /\ <<x, y>>[2] = y
    OBVIOUS
  <2> DEFINE top == <<x, y>>
  <2> HIDE DEF top
  <2>2. /\ s \o top \in Seq(W) /\ Len(s \o top) = Len(s) + Len(top)
        /\ \A i \in 1 .. Len(s) : (s \o top)[i] = s[i]
        /\ \A i \in 1 .. Len(top) : (s \o top)[Len(s) + i] = top[i]
    BY <2>1, Joined DEF top
  <2> QED BY <1>1, <2>1, <2>2 DEF top
<1> HIDE DEF a, b, n
<1>4. /\ NothingSet(a) => InForce(a) = Absent
      /\ \A k \in 1 .. n + 1 : LastSets(a, k) => InForce(a) = Last(a[k].set)
  <2>1. Len(a) > 0 /\ Len(a) = n + 1
    BY <1>1, <1>2
  <2>2. \A w \in W : w.set \in Seq(ToSet(w.set))
    OBVIOUS
  <2>3. /\ NothingSet(a) => InForce(a) = Absent
        /\ \A k \in 1 .. Len(a) : LastSets(a, k) => InForce(a) = Last(a[k].set)
    BY <1>2, <2>1, <2>2, InForceIs, Zenon
  <2> QED BY <2>1, <2>3
<1>5. /\ NothingSet(b) => InForce(b) = Absent
      /\ \A k \in 1 .. n + 2 : LastSets(b, k) => InForce(b) = Last(b[k].set)
  <2>1. Len(b) > 0 /\ Len(b) = n + 2
    BY <1>1, <1>3
  <2>2. \A w \in W : w.set \in Seq(ToSet(w.set))
    OBVIOUS
  <2>3. /\ NothingSet(b) => InForce(b) = Absent
        /\ \A k \in 1 .. Len(b) : LastSets(b, k) => InForce(b) = Last(b[k].set)
    BY <1>3, <2>1, <2>2, InForceIs, Zenon
  <2> QED BY <2>1, <2>3
<1>6. ASSUME y.set # <<>> PROVE InForce(a) = Last(y.set) /\ InForce(b) = Last(y.set)
  <2>1. n + 1 \in 1 .. n + 1 /\ n + 2 \in 1 .. n + 2 /\ LastSets(a, n + 1) /\ LastSets(b, n + 2)
    BY <1>1, <1>2, <1>3, <1>6 DEF LastSets
  <2> QED BY <1>2, <1>3, <1>4, <1>5, <2>1
<1>7. ASSUME y.set = <<>>, x.set # <<>> PROVE InForce(b) = Last(x.set)
  <2>1. n + 1 \in 1 .. n + 2 /\ LastSets(b, n + 1)
    BY <1>1, <1>3, <1>7 DEF LastSets
  <2> QED BY <1>3, <1>5, <2>1
<1>8. ASSUME y.set = <<>>, NothingSet(s)
      PROVE  InForce(a) = Absent /\ (x.set = <<>> => InForce(b) = Absent)
  <2>1. \A i \in 1 .. n : s[i].set = <<>>
    BY <1>8 DEF NothingSet, n
  <2>2. NothingSet(a)
    <3>1. ASSUME NEW i \in 1 .. n + 1 PROVE a[i].set = <<>>
      <4>1. i \in 1 .. n \/ i = n + 1
        BY <1>1
      <4> QED BY <1>2, <1>8, <2>1, <4>1
    <3> QED BY <1>2, <3>1 DEF NothingSet
  <2>3. ASSUME x.set = <<>> PROVE NothingSet(b)
    <3>1. ASSUME NEW i \in 1 .. n + 2 PROVE b[i].set = <<>>
      <4>1. i \in 1 .. n \/ i = n + 1 \/ i = n + 2
        BY <1>1
      <4> QED BY <1>3, <1>8, <2>1, <2>3, <4>1
    <3> QED BY <1>3, <3>1 DEF NothingSet
  <2> QED BY <1>4, <1>5, <2>2, <2>3
<1>9. ASSUME NEW k \in 1 .. n, y.set = <<>>, LastSets(s, k)
      PROVE  InForce(a) = Last(s[k].set) /\ (x.set = <<>> => InForce(b) = Last(s[k].set))
  <2>1. s[k].set # <<>> /\ \A i \in k + 1 .. n : s[i].set = <<>>
    BY <1>9 DEF LastSets, n
  <2>2. k \in 1 .. n + 1 /\ k \in 1 .. n + 2 /\ LastSets(a, k)
    <3>1. ASSUME NEW i \in k + 1 .. n + 1 PROVE a[i].set = <<>>
      <4>1. (i \in k + 1 .. n /\ i \in 1 .. n) \/ i = n + 1
        BY <1>1
      <4> QED BY <1>2, <1>9, <2>1, <4>1
    <3> QED BY <1>1, <1>2, <2>1, <3>1 DEF LastSets
  <2>3. ASSUME x.set = <<>> PROVE LastSets(b, k)
    <3>1. ASSUME NEW i \in k + 1 .. n + 2 PROVE b[i].set = <<>>
      <4>1. (i \in k + 1 .. n /\ i \in 1 .. n) \/ i = n + 1 \/ i = n + 2
        BY <1>1
      <4> QED BY <1>3, <1>9, <2>1, <2>3, <4>1
    <3> QED BY <1>3, <2>1, <3>1 DEF LastSets
  <2>4. a[k] = s[k] /\ b[k] = s[k]
    BY <1>2, <1>3
  <2> QED BY <1>4, <1>5, <2>2, <2>3, <2>4
<1> QED BY <1>6, <1>7, <1>8, <1>9 DEF a, b, n, DecidedOnTop

(* A link leads to a file that sets what it sets: passing over files met before, the search *)
(* ends where it would end without.                                                         *)
LEMMA FreshIsFirst ==
  ASSUME NEW W, \A v, w \in W : v.real = w.real => v = w, NEW q \in Seq(W)
  PROVE  LET entries == {i \in {k \in DOMAIN q : Fresh(q, k)} : q[i].set # <<>>}
             j == FirstSet(q)
         IN  /\ entries = {} => j = 0
             /\ entries # {} => j # 0 /\ Min(entries) = j
<1> DEFINE entries == {i \in {k \in DOMAIN q : Fresh(q, k)} : q[i].set # <<>>}
           I == {i \in 1 .. Len(q) : q[i].isfile /\ q[i].set # <<>>}
           j == FirstSet(q)
<1>1. j = IF I # {} THEN Min(I) ELSE 0
  BY DEF FirstSet, SelectInSeq
<1>2. Len(q) \in Nat /\ DOMAIN q = 1 .. Len(q) /\ \A i \in 1 .. Len(q) : q[i] \in W
  OBVIOUS
<1>3. entries \subseteq I /\ I \in SUBSET (1 .. Len(q))
  BY <1>2 DEF Fresh
<1>4. ASSUME NEW m \in I, \A i \in I : m <= i PROVE m \in entries
  <2>1. m \in 1 .. Len(q) /\ q[m].isfile /\ q[m].set # <<>>
    BY <1>4
  <2>2. ASSUME NEW k \in 1 .. m - 1, q[k].isfile, q[k].real = q[m].real PROVE FALSE
    <3>1. k \in 1 .. Len(q) /\ ~(m <= k)
      BY <1>2, <2>1
    <3>2. q[k] = q[m]
      BY <1>2, <2>1, <2>2, <3>1
    <3> QED BY <1>4, <2>1, <2>2, <3>1, <3>2
  <2> QED BY <1>2, <2>1, <2>2 DEF Fresh
<1> HIDE DEF entries, I, j
<1>5. CASE I = {}
  BY <1>1, <1>3, <1>5 DEF entries, j
<1>6. CASE I # {}
  <2> DEFINE m == Min(I)
  <2>1. m \in I /\ \A i \in I : m <= i
    BY <1>2, <1>3, <1>6, MinIsIn
  <2> HIDE DEF m
  <2>2. m \in entries /\ \A i \in entries : m <= i
    BY <1>3, <1>4, <2>1
  <2>3. entries \in SUBSET (1 .. Len(q))
    BY <1>3
  <2>4. Min(entries) = m
    BY <1>2, <2>2, <2>3, MinIs
  <2>5. m # 0
    BY <1>3, <2>1
  <2> QED BY <1>1, <1>6, <2>2, <2>4, <2>5 DEF m, entries, j
<1> QED BY <1>5, <1>6

(* The layers: the code has their files in their order, and leaves out only names without one. *)
LEMMA LayersAre ==
  ASSUME SysctlHost(host), NEW e, e = ViewOf(host, <<>>, TRUE), sysctl_files(e) # Unavailable
  PROVE  /\ sysctl_files(e) \in Seq(SysctlFiles(host))
         /\ BootLayers \in Seq(SysctlFiles(host) \cup {NoFile})
         /\ NothingSet(sysctl_files(e)) => NothingSet(BootLayers)
         /\ \A k \in 1 .. Len(sysctl_files(e)) : LastSets(sysctl_files(e), k) =>
              \E n \in 1 .. Len(BootLayers) : BootLayers[n] = sysctl_files(e)[k] /\ LastSets(BootLayers, n)
<1> DEFINE c == sysctl_files(e)
           W == SysctlFiles(host)
           told == host.systemd_sysctl # Absent /\ host.systemd_sysctl["root"].ok
           layer(d) == IF host[d] = Absent THEN <<>> ELSE host[d]
           etc == layer("sysctl_etc")
           lib == layer("sysctl_lib")
           names == DOMAIN etc \cup DOMAIN lib
           top == Max(names \cup {0})
           file(n) == IF n \in DOMAIN etc THEN etc[n] ELSE lib[n]
           K == Cardinality(names)
<1>1. e.root = TRUE /\ e.val = host
  BY DEF ViewOf
<1>2. /\ Glob(e, "sysctl_etc") = etc /\ Glob(e, "sysctl_lib") = lib
      /\ c = IF told THEN host.systemd_sysctl["root"].out ELSE Chosen(e, SysctlDirs)
  <2>1. Glob(e, "sysctl_etc") = etc /\ Glob(e, "sysctl_lib") = lib
    BY <1>1 DEF SysctlHost, Glob, Closed, Content
  <2>2. (Exists(e, "systemd_sysctl") /\ Run(e, "systemd_sysctl").ok) = told
    BY <1>1 DEF SysctlHost, Exists, Unseen, Content, Run
  <2>3. Exists(e, "systemd_sysctl") => Run(e, "systemd_sysctl") = host.systemd_sysctl["root"]
    BY <1>1 DEF SysctlHost, Exists, Unseen, Content, Run
  <2> QED BY <2>1, <2>2, <2>3 DEF sysctl_files, Listed
<1>3. CASE told
  <2>1. BootLayers = c
    BY <1>2, <1>3 DEF BootLayers
  <2>2. c \in Seq(ToSet(c)) /\ ToSet(c) \subseteq W
    <3>1. host.systemd_sysctl["root"].out \in Seq(ToSet(host.systemd_sysctl["root"].out))
      BY <1>3 DEF SysctlHost
    <3> QED BY <1>2, <1>3, <3>1, AmongFiles
  <2> HIDE DEF c, W
  <2>3. c \in Seq(W) /\ c \in Seq(W \cup {NoFile})
    BY <2>2
  <2> QED BY <2>1, <2>3 DEF c, W
<1>4. CASE ~told
  <2>1. c = Chosen(e, SysctlDirs)
    BY <1>2, <1>4
  <2>2. BootLayers = [n \in 1 .. top |-> IF n \in DOMAIN etc THEN etc[n] ELSE IF n \in DOMAIN lib THEN lib[n] ELSE NoFile]
    BY <1>4 DEF BootLayers
  <2>3. etc # Unavailable /\ lib # Unavailable
    <3>1. DOMAIN SysctlDirs = {1, 2} /\ SysctlDirs[1] = "sysctl_etc" /\ SysctlDirs[2] = "sysctl_lib"
      BY DEF SysctlDirs
    <3>2. \A d \in DOMAIN SysctlDirs : Glob(e, SysctlDirs[d]) # Unavailable
      BY <2>1 DEF Chosen
    <3> HIDE DEF etc, lib
    <3> QED BY <1>2, <3>1, <3>2
  <2>4. /\ IsFiniteSet(DOMAIN etc) /\ IsFiniteSet(DOMAIN lib)
        /\ DOMAIN etc \subseteq Nat \ {0} /\ DOMAIN lib \subseteq Nat \ {0}
        /\ \A n \in DOMAIN etc : etc[n] \in W
        /\ \A n \in DOMAIN lib : lib[n] \in W
    <3>1. DOMAIN <<>> = {} /\ IsFiniteSet({})
      BY FS_EmptySet
    <3>2. \A d \in {"sysctl_etc", "sysctl_lib"} :
            /\ IsFiniteSet(DOMAIN layer(d)) /\ DOMAIN layer(d) \subseteq Nat \ {0}
            /\ \A n \in DOMAIN layer(d) : layer(d)[n] \in W
      BY <3>1, AmongFiles DEF SysctlHost
    <3> QED BY <3>2
  <2> HIDE DEF etc, lib, W
  <2>5. IsFiniteSet(names) /\ names \subseteq Nat /\ (\A n \in names : n \in Nat /\ n # 0 /\ file(n) \in W)
    BY <2>4, FS_Union
  <2>6. c = [i \in 1 .. K |-> file(Nth(names, i))]
    <3>1. /\ Glob(e, "sysctl_etc") # Unavailable /\ Glob(e, "sysctl_lib") # Unavailable
          /\ IsFiniteSet(DOMAIN Glob(e, "sysctl_etc")) /\ IsFiniteSet(DOMAIN Glob(e, "sysctl_lib"))
          /\ DOMAIN Glob(e, "sysctl_etc") \subseteq Nat /\ DOMAIN Glob(e, "sysctl_lib") \subseteq Nat
      BY <1>2, <2>3, <2>4
    <3>2. LET a == Glob(e, "sysctl_etc")
              b == Glob(e, "sysctl_lib")
              S == DOMAIN a \cup DOMAIN b
          IN  Chosen(e, SysctlDirs) = [i \in 1 .. Cardinality(S) |-> IF Nth(S, i) \in DOMAIN a THEN a[Nth(S, i)] ELSE b[Nth(S, i)]]
      BY <3>1, ChosenIs
    <3> QED BY <1>2, <2>1, <3>2
  <2>7. /\ K \in Nat
        /\ \A i \in 1 .. K : Nth(names, i) \in names
        /\ \A n \in names : \E i \in 1 .. K : Nth(names, i) = n
        /\ \A i, k \in 1 .. K : i < k => Nth(names, i) < Nth(names, k)
    <3> HIDE DEF names
    <3> QED BY <2>5, Sorted
  <2>8. top \in Nat /\ \A n \in names : n <= top
    <3> DEFINE S == names \cup {0}
    <3>1. IsFiniteSet(S) /\ S \subseteq Nat /\ S # {}
      <4>1. IsFiniteSet({0})
        BY FS_Singleton
      <4> HIDE DEF names
      <4>2. IsFiniteSet(S)
        BY <2>5, <4>1, FS_Union
      <4> QED BY <2>5, <4>2
    <3> HIDE DEF S, names
    <3>2. Max(S) \in S /\ \A n \in S : n <= Max(S)
      BY <3>1, GreatestNumber
    <3> QED BY <3>1, <3>2 DEF S
  <2>9. /\ Len(BootLayers) = top /\ DOMAIN BootLayers = 1 .. top
        /\ \A n \in 1 .. top : BootLayers[n] = IF n \in names THEN file(n) ELSE NoFile
        /\ BootLayers \in Seq(W \cup {NoFile})
    <3> DEFINE named(n) == IF n \in DOMAIN etc THEN etc[n] ELSE IF n \in DOMAIN lib THEN lib[n] ELSE NoFile
    <3>1. \A n \in 1 .. top : named(n) \in W \cup {NoFile} /\ named(n) = IF n \in names THEN file(n) ELSE NoFile
      BY <2>5
    <3> HIDE DEF named, file, names, top
    <3>2. [n \in 1 .. top |-> named(n)] \in Seq(W \cup {NoFile}) /\ Len([n \in 1 .. top |-> named(n)]) = top
      BY <2>8, <3>1
    <3>3. BootLayers = [n \in 1 .. top |-> named(n)]
      BY <2>2 DEF named
    <3> QED BY <3>1, <3>2, <3>3
  <2> HIDE DEF file, names, top, K
  <2>10. Len(c) = K /\ (\A i \in 1 .. K : c[i] = file(Nth(names, i))) /\ c \in Seq(W)
    <3>1. \A i \in 1 .. K : file(Nth(names, i)) \in W
      BY <2>5, <2>7
    <3> HIDE DEF c
    <3> QED BY <2>6, <2>7, <3>1
  <2> HIDE DEF c
  <2>11. NoFile.set = <<>>
    BY DEF NoFile
  <2>12. NothingSet(c) => NothingSet(BootLayers)
    <3> SUFFICES ASSUME NothingSet(c), NEW n \in 1 .. top PROVE BootLayers[n].set = <<>>
      BY <2>9 DEF NothingSet
    <3>1. n \in names => \E i \in 1 .. K : c[i] = file(n)
      BY <2>7, <2>10
    <3> QED BY <2>9, <2>10, <2>11, <3>1 DEF NothingSet
  <2>13. ASSUME NEW k \in 1 .. Len(c), LastSets(c, k)
         PROVE  \E n \in 1 .. Len(BootLayers) : BootLayers[n] = c[k] /\ LastSets(BootLayers, n)
    <3> DEFINE n == Nth(names, k)
    <3>1. k \in 1 .. K /\ k \in Nat
      BY <2>7, <2>10
    <3>2. n \in names /\ n \in Nat /\ n \in 1 .. top
      <4>1. n \in names
        BY <2>7, <3>1
      <4> HIDE DEF n
      <4> QED BY <2>5, <2>8, <4>1
    <3>3. BootLayers[n] = c[k]
      BY <2>9, <2>10, <3>1, <3>2
    <3>4. \A i \in n + 1 .. top : BootLayers[i].set = <<>>
      <4> TAKE i \in n + 1 .. top
      <4>1. i \in 1 .. top /\ i > n /\ i \in Nat
        BY <2>8, <3>2
      <4>2. ASSUME i \in names PROVE BootLayers[i].set = <<>>
        <5>1. PICK p \in 1 .. K : Nth(names, p) = i
          BY <2>7, <4>2
        <5>2. p \in k + 1 .. K
          <6>1. p \in Nat /\ (p < k \/ p = k \/ p > k)
            BY <2>7, <3>1
          <6>2. p < k => i < n
            BY <2>7, <3>1, <5>1
          <6>3. p = k => i = n
            BY <5>1
          <6> HIDE DEF n
          <6> QED BY <2>7, <3>1, <3>2, <4>1, <6>1, <6>2, <6>3
        <5>3. c[p].set = <<>> /\ BootLayers[i] = c[p]
          BY <2>9, <2>10, <2>13, <4>1, <4>2, <5>1, <5>2 DEF LastSets
        <5> QED BY <5>3
      <4>3. i \notin names => BootLayers[i].set = <<>>
        BY <2>9, <2>11, <4>1
      <4> QED BY <4>2, <4>3
    <3> HIDE DEF n
    <3>5. LastSets(BootLayers, n)
      BY <2>9, <2>13, <3>3, <3>4 DEF LastSets
    <3> QED BY <2>9, <3>2, <3>3, <3>5
  <2> QED BY <2>9, <2>10, <2>12, <2>13 DEF c, W
<1> QED BY <1>3, <1>4

(* On a host whose files are well formed the search finds what the layers leave in force. *)
LEMMA BootFollows ==
  ASSUME SysctlHost(host)
  PROVE  BootAppliesIt
<1> DEFINE e == ViewOf(host, <<>>, TRUE)
<1> SUFFICES ASSUME sysctl_configured(e) # Unavailable
             PROVE  /\ sysctl_configured(e) = InForce(BootLayers \o <<Given(host.sysctl_conf), BootUfw>>)
                    /\ MainOutranked \/ sysctl_configured(e) = InForce(BootLayers \o <<BootUfw>>)
  BY DEF BootAppliesIt
<1> DEFINE W == SysctlFiles(host)
           X == W \cup {NoFile}
           L == BootLayers
           x == Given(host.sysctl_conf)
           y == BootUfw
           u == ufw_sysctl_file(e)
           m == IF host.sysctl_conf = Absent THEN <<>> ELSE <<host.sysctl_conf>>
           c == sysctl_files(e)
           q == u \o m \o Reverse(c)
           j == FirstSet(q)
           value == sysctl_configured(e)
<1>1. e.root = TRUE /\ e.val = host
  BY DEF ViewOf
<1>2. ReadText(e, "sysctl_conf") = host.sysctl_conf
  BY <1>1 DEF SysctlHost, ReadText, Closed, Content
<1>3. u # Unavailable /\ c # Unavailable /\ sysctl_order(e) = q
  <2>1. sysctl_order(e) = q
    BY <1>2 DEF sysctl_order
  <2>2. u # Unavailable /\ c # Unavailable
    BY DEF sysctl_configured
  <2> QED BY <2>1, <2>2
<1>4. /\ \A w \in W : SysctlFile(w)
      /\ \A v, w \in W : v.real = w.real => v = w
      /\ host.sysctl_conf # Absent => host.sysctl_conf \in W
      /\ host.default_ufw # Absent => host.default_ufw \in W
  BY AmongFiles
<1>5. /\ c \in Seq(W) /\ L \in Seq(X)
      /\ NothingSet(c) => NothingSet(L)
      /\ \A k \in 1 .. Len(c) : LastSets(c, k) => \E n \in 1 .. Len(L) : L[n] = c[k] /\ LastSets(L, n)
  BY <1>3, LayersAre
<1>6. \/ u = <<>> /\ y.set = <<>>
      \/ u = <<host.default_ufw>> /\ y = host.default_ufw /\ host.default_ufw # Absent
  BY <1>1, <1>3, UfwIs
<1>7. /\ host.sysctl_conf = Absent => m = <<>> /\ x.set = <<>> /\ x = NoFile
      /\ host.sysctl_conf # Absent => m = <<host.sysctl_conf>> /\ x = host.sysctl_conf
  BY DEF Given, NoFile
<1>8. y = NoFile \/ (y = host.default_ufw /\ host.default_ufw # Absent)
  BY DEF BootUfw, Given
<1>9. x \in X /\ y \in X /\ \A w \in X : w.set \in Seq(ToSet(w.set))
  <2>1. NoFile.set = <<>> /\ <<>> \in Seq(ToSet(<<>>))
    BY DEF NoFile
  <2> HIDE DEF W, x, y
  <2> QED BY <1>4, <1>7, <1>8, <2>1 DEF SysctlFile
<1>10. u \in Seq(W) /\ Len(u) <= 1 /\ m \in Seq(W) /\ Len(m) <= 1
  <2> HIDE DEF W, u, m
  <2>1. \A w \in W : <<w>> \in Seq(W) /\ Len(<<w>>) = 1
    OBVIOUS
  <2>2. <<>> \in Seq(W) /\ Len(<<>>) = 0
    OBVIOUS
  <2>3. \A t : (t = <<>> \/ \E w \in W : t = <<w>>) => t \in Seq(W) /\ Len(t) <= 1
    <3> SUFFICES ASSUME NEW t, t = <<>> \/ \E w \in W : t = <<w>> PROVE t \in Seq(W) /\ Len(t) <= 1
      OBVIOUS
    <3>1. CASE t = <<>>
      BY <2>2, <3>1
    <3>2. CASE \E w \in W : t = <<w>>
      <4>1. PICK w \in W : t = <<w>>
        BY <3>2
      <4> QED BY <2>1, <4>1
    <3> QED BY <3>1, <3>2
  <2>4. (u = <<>> \/ \E w \in W : u = <<w>>) /\ (m = <<>> \/ \E w \in W : m = <<w>>)
    BY <1>4, <1>6, <1>7
  <2> QED BY <2>3, <2>4
<1>11. q \in Seq(W)
  <2> HIDE DEF W, u, m, c
  <2>1. Reverse(c) \in Seq(W)
    <3>1. Len(c) \in Nat /\ \A i \in 1 .. Len(c) : Len(c) - i + 1 \in 1 .. Len(c) /\ c[Len(c) - i + 1] \in W
      BY <1>5
    <3> QED BY <3>1 DEF Reverse
  <2> DEFINE d == Reverse(c)
  <2> HIDE DEF d
  <2>2. u \o m \o d \in Seq(W)
    BY <1>10, <2>1 DEF d
  <2> QED BY <2>2 DEF d
<1>12. value = IF j = 0 THEN Absent ELSE Last(q[j].set)
  <2> DEFINE entries == {i \in {k \in DOMAIN q : Fresh(q, k)} : q[i].set # <<>>}
  <2>1. value = IF entries = {} THEN Absent ELSE Last(q[Min(entries)].set)
    <3>1. value = LET files == sysctl_order(e)
                      found == {i \in {k \in DOMAIN files : Fresh(files, k)} : files[i].set # <<>>}
                  IN  IF found = {} THEN Absent ELSE Last(files[Min(found)].set)
      BY <1>1 DEF sysctl_configured
    <3> HIDE DEF value, q
    <3> QED BY <1>3, <3>1
  <2>2. (entries = {} => j = 0) /\ (entries # {} => j # 0 /\ Min(entries) = j)
    <3> HIDE DEF W, q
    <3> QED BY <1>4, <1>11, FreshIsFirst
  <2> HIDE DEF entries, value, j
  <2> QED BY <2>1, <2>2
<1> HIDE DEF e, W, X, L, x, y, u, m, c, q, j, value
<1>13. /\ u # <<>> /\ u[1].set # <<>> => j # 0 /\ q[j] = u[1]
       /\ NothingSet(u) /\ m # <<>> /\ m[1].set # <<>> => j # 0 /\ q[j] = m[1]
       /\ \A k \in 1 .. Len(c) :
            NothingSet(u) /\ NothingSet(m) /\ c[k].set # <<>> /\ (\A i \in k + 1 .. Len(c) : c[i].set = <<>>) => j # 0 /\ q[j] = c[k]
       /\ NothingSet(u) /\ NothingSet(m) /\ NothingSet(c) => j = 0
  <2>1. \A w \in W : w.isfile \in BOOLEAN /\ (~w.isfile => w.set = <<>>)
    BY <1>4 DEF SysctlFile
  <2> QED BY <1>5, <1>10, <2>1, SearchEnds DEF q, j
<1>14. /\ y.set = <<>> => NothingSet(u)
       /\ y.set # <<>> => u # <<>> /\ u[1] = y
       /\ x.set = <<>> => NothingSet(m)
       /\ x.set # <<>> => m # <<>> /\ m[1] = x
  BY <1>6, <1>7 DEF NothingSet
(* Which of them decides. *)
<1>15. /\ y.set # <<>> => value = Last(y.set)
       /\ y.set = <<>> /\ x.set # <<>> => value = Last(x.set)
       /\ y.set = <<>> /\ x.set = <<>> /\ NothingSet(c) => value = Absent
       /\ \A k \in 1 .. Len(c) : y.set = <<>> /\ x.set = <<>> /\ LastSets(c, k) => value = Last(c[k].set)
  BY <1>12, <1>13, <1>14 DEF LastSets
<1>16. /\ y.set # <<>> => InForce(L \o <<y>>) = Last(y.set) /\ InForce(L \o <<x, y>>) = Last(y.set)
       /\ y.set = <<>> /\ x.set # <<>> => InForce(L \o <<x, y>>) = Last(x.set)
       /\ y.set = <<>> /\ NothingSet(L) => InForce(L \o <<y>>) = Absent
       /\ y.set = <<>> /\ x.set = <<>> /\ NothingSet(L) => InForce(L \o <<x, y>>) = Absent
       /\ \A k \in 1 .. Len(L) : y.set = <<>> /\ LastSets(L, k) =>
            /\ InForce(L \o <<y>>) = Last(L[k].set)
            /\ x.set = <<>> => InForce(L \o <<x, y>>) = Last(L[k].set)
  <2>1. L \in Seq(X) /\ x \in X /\ y \in X
    BY <1>5, <1>9
  <2>2. \A w \in X : w.set \in Seq(ToSet(w.set))
    BY <1>9
  <2>3. DecidedOnTop(L, x, y)
    BY <2>1, <2>2, OnTop
  <2> QED BY <2>3, Zenon DEF DecidedOnTop
<1>17. CASE y.set # <<>>
  BY <1>15, <1>16, <1>17 DEF x, y, L, value, e
<1>18. CASE y.set = <<>> /\ x.set # <<>>
  <2>1. value = InForce(L \o <<x, y>>)
    BY <1>15, <1>16, <1>18
  <2>2. ASSUME ~MainOutranked PROVE value = InForce(L \o <<y>>)
    <3>1. PICK n \in DOMAIN L : L[n] = host.sysctl_conf /\ \A k \in n + 1 .. Len(L) : L[k].set = <<>>
      BY <1>18, <2>2 DEF MainOutranked, x, y, L
    <3>2. host.sysctl_conf = x
      BY <1>7, <1>18
    <3>3. n \in 1 .. Len(L) /\ LastSets(L, n)
      BY <1>5, <1>18, <3>1, <3>2 DEF LastSets
    <3> QED BY <1>15, <1>16, <1>18, <3>1, <3>2, <3>3
  <2> QED BY <2>1, <2>2 DEF x, y, L, value, e
<1>19. CASE y.set = <<>> /\ x.set = <<>> /\ NothingSet(c)
  <2>1. NothingSet(L)
    BY <1>5, <1>19
  <2>2. value = Absent /\ InForce(L \o <<y>>) = Absent /\ InForce(L \o <<x, y>>) = Absent
    BY <1>15, <1>16, <1>19, <2>1
  <2> QED BY <2>2 DEF x, y, L, value, e
<1>20. CASE y.set = <<>> /\ x.set = <<>> /\ ~NothingSet(c)
  <2>1. PICK k \in 1 .. Len(c) : LastSets(c, k)
    <3>1. Len(c) \in Nat
      BY <1>5
    <3> QED BY <1>20, <3>1, SomeLastSets
  <2>2. PICK n \in 1 .. Len(L) : L[n] = c[k] /\ LastSets(L, n)
    BY <1>5, <2>1
  <2>3. value = Last(c[k].set) /\ InForce(L \o <<y>>) = Last(c[k].set) /\ InForce(L \o <<x, y>>) = Last(c[k].set)
    BY <1>15, <1>16, <1>20, <2>1, <2>2
  <2> QED BY <2>3 DEF x, y, L, value, e
<1> QED BY <1>17, <1>18, <1>19, <1>20

(* The host of an audit of kernel parameters keeps well formed files. *)
BootInv == family \in Families /\ (family = "kernel" => SysctlHost(host))

(* For any number of layers, files and lines, with masked, hidden, linked and missing ones: *)
(* sysctl_configured, which looks for the file that decides from the last to the first,     *)
(* names the value that applying all of them in the order of its docstring leaves; a boot,  *)
(* which applies /etc/sysctl.conf at the place of its link alone, leaves the same unless    *)
(* that file is outranked.                                                                  *)
THEOREM BootAppliesItHolds == Spec => []BootAppliesIt
<1>1. Init => BootInv
  BY SysctlAssumption DEF Init, BootInv
<1>2. BootInv /\ [Next]_vars => BootInv'
  BY DEF BootInv, Next, Assess, Edit, vars
<1>3. BootInv => BootAppliesIt
  <2>1. CASE family = "kernel"
    BY <2>1, BootFollows DEF BootInv
  <2>2. CASE family # "kernel"
    BY <2>2 DEF BootAppliesIt
  <2> QED BY <2>1, <2>2
<1> QED BY <1>1, <1>2, <1>3, PTL DEF Spec

------------------------------------------------------------------------------
(* Includes: the walk of sshd_config_files and what the server reads. *)
(* What a sequence holds, and what two joined do. *)
LEMMA JoinedSet ==
  ASSUME NEW V, NEW a \in Seq(V), NEW b \in Seq(V)
  PROVE  ToSet(a \o b) = ToSet(a) \cup ToSet(b)
<1>1. /\ DOMAIN a = 1 .. Len(a) /\ DOMAIN b = 1 .. Len(b) /\ DOMAIN (a \o b) = 1 .. Len(a) + Len(b)
      /\ Len(a) \in Nat /\ Len(b) \in Nat
  OBVIOUS
<1>2. /\ \A i \in 1 .. Len(a) : (a \o b)[i] = a[i]
      /\ \A i \in 1 .. Len(b) : (a \o b)[Len(a) + i] = b[i]
  BY Joined
<1>3. \A i \in 1 .. Len(a) + Len(b) : i \in 1 .. Len(a) \/ \E k \in 1 .. Len(b) : i = Len(a) + k
  <2> TAKE i \in 1 .. Len(a) + Len(b)
  <2>1. i \notin 1 .. Len(a) => i - Len(a) \in 1 .. Len(b) /\ i = Len(a) + (i - Len(a))
    BY <1>1
  <2> QED BY <2>1
<1>4. \A x \in ToSet(a \o b) : x \in ToSet(a) \cup ToSet(b)
  <2> TAKE x \in ToSet(a \o b)
  <2>1. PICK i \in 1 .. Len(a) + Len(b) : (a \o b)[i] = x
    BY <1>1 DEF ToSet
  <2>2. CASE i \in 1 .. Len(a)
    BY <1>1, <1>2, <2>1, <2>2 DEF ToSet
  <2>3. CASE \E k \in 1 .. Len(b) : i = Len(a) + k
    <3>1. PICK k \in 1 .. Len(b) : i = Len(a) + k
      BY <2>3
    <3>2. b[k] = x /\ k \in DOMAIN b
      BY <1>1, <1>2, <2>1, <3>1
    <3> QED BY <3>2 DEF ToSet
  <2> QED BY <1>3, <2>2, <2>3
<1>5. \A x \in ToSet(a) : x \in ToSet(a \o b)
  BY <1>1, <1>2 DEF ToSet
<1>6. \A x \in ToSet(b) : x \in ToSet(a \o b)
  <2> TAKE x \in ToSet(b)
  <2>1. PICK k \in 1 .. Len(b) : b[k] = x
    BY <1>1 DEF ToSet
  <2>2. Len(a) + k \in 1 .. Len(a) + Len(b)
    BY <1>1
  <2> QED BY <1>1, <1>2, <2>1, <2>2 DEF ToSet
<1> QED BY <1>4, <1>5, <1>6

(* A flattened sequence holds what its parts hold. *)
LEMMA FlattenedAll ==
  ASSUME NEW V, NEW s \in Seq(Seq(V))
  PROVE  /\ FlattenSeq(s) \in Seq(V)
         /\ ToSet(FlattenSeq(s)) = {x \in V : \E i \in 1 .. Len(s) : x \in ToSet(s[i])}
<1> DEFINE N == Len(s)
<1>0. N \in Nat /\ \A i \in 1 .. N : s[i] \in Seq(V) /\ ToSet(s[i]) \subseteq V
  <2>1. \A t \in Seq(V) : ToSet(t) \subseteq V
    BY DEF ToSet
  <2> QED BY <2>1
<1>1. CASE N = 0
  <2>1. FlattenSeq(s) = <<>>
    BY <1>1 DEF FlattenSeq
  <2>2. ToSet(<<>>) = {} /\ \A i \in 1 .. N : FALSE
    BY <1>1 DEF ToSet
  <2> QED BY <2>1, <2>2
<1>2. CASE N > 0
  <2>1. PICK h : FlattenSeq(s) = h[N] /\ \A i \in 1 .. N : h[i] = IF i = 1 THEN s[i] ELSE h[i - 1] \o s[i]
    BY <1>2, Flattened
  <2> DEFINE Right(n) == h[n] \in Seq(V) /\ ToSet(h[n]) = {x \in V : \E i \in 1 .. n : x \in ToSet(s[i])}
             T == {n \in 0 .. N : n > 0 => Right(n)}
  <2>2. ASSUME NEW n \in 0 .. N - 1, n \in T
        PROVE  n + 1 \in T
    <3>1. CASE n = 0
      <4>1. h[1] = s[1] /\ 1 \in 1 .. N
        BY <1>0, <1>2, <2>1
      <4>2. \A i \in 1 .. 1 : i = 1
        OBVIOUS
      <4>3. Right(1)
        BY <1>0, <4>1, <4>2
      <4>4. n + 1 = 1 /\ 1 \in 0 .. N
        BY <1>0, <1>2, <3>1
      <4> HIDE DEF Right
      <4> QED BY <4>3, <4>4
    <3>2. CASE n > 0
      <4>1. n + 1 \in 1 .. N /\ n + 1 # 1 /\ (n + 1) - 1 = n /\ n + 1 \in 0 .. N
        BY <1>0, <3>2
      <4>2. h[n + 1] = h[n] \o s[n + 1] /\ s[n + 1] \in Seq(V) /\ ToSet(s[n + 1]) \subseteq V
        BY <1>0, <2>1, <4>1
      <4>3. Right(n)
        BY <2>2, <3>2
      <4>4. h[n + 1] \in Seq(V) /\ ToSet(h[n + 1]) = ToSet(h[n]) \cup ToSet(s[n + 1])
        <5> DEFINE a == h[n]
                   b == s[n + 1]
        <5>1. a \in Seq(V) /\ b \in Seq(V) /\ h[n + 1] = a \o b
          BY <4>2, <4>3
        <5> HIDE DEF a, b
        <5>2. a \o b \in Seq(V) /\ ToSet(a \o b) = ToSet(a) \cup ToSet(b)
          BY <5>1, JoinedSet
        <5> QED BY <5>1, <5>2 DEF a, b
      <4>5. \A i : i \in 1 .. n + 1 <=> i \in 1 .. n \/ i = n + 1
        BY <3>2
      <4>6. Right(n + 1)
        BY <4>2, <4>3, <4>4, <4>5
      <4> HIDE DEF Right
      <4> QED BY <4>1, <4>6
    <3>3. n = 0 \/ n > 0
      BY <1>0
    <3> QED BY <3>1, <3>2, <3>3
  <2>3. T \in SUBSET Nat /\ 0 \in T
    BY <1>0
  <2> HIDE DEF T
  <2>4. N \in T
    BY <1>0, <2>2, <2>3, Reached
  <2>5. Right(N)
    BY <1>2, <2>4 DEF T
  <2> QED BY <2>1, <2>5
<1> QED BY <1>0, <1>1, <1>2

(* g answers out at an end, and elsewhere what it answers one step on. *)
Recurs(g, W, end, step, out) == g = [w \in W |-> IF w \in end THEN out[w] ELSE g[step[w]]]

(* A function that calls itself last exists, whether or not the calls end. *)
LEMMA TailRecursion ==
  ASSUME NEW W, NEW end \in SUBSET W, NEW step \in [W -> W], NEW Y, NEW out \in [W -> Y]
  PROVE  \E g : Recurs(g, W, end, step, out)
<1> DEFINE Chain(t, n) == /\ \A i \in 0 .. n - 1 : t[i] \notin end /\ t[i + 1] = step[t[i]]
                          /\ t[n] \in end
           Ends(w) == {y \in Y : \E n \in Nat : \E t \in [0 .. n -> W] : t[0] = w /\ Chain(t, n) /\ out[t[n]] = y}
           Answer(S) == CHOOSE y : y \in S
           g == [w \in W |-> Answer(Ends(w))]
<1>1. ASSUME NEW w \in W, w \in end
      PROVE  Ends(w) = {out[w]}
  <2>1. out[w] \in Ends(w)
    <3> DEFINE t == [i \in 0 .. 0 |-> w]
    <3>1. t \in [0 .. 0 -> W] /\ t[0] = w /\ Chain(t, 0) /\ 0 \in Nat /\ out[w] \in Y
      BY <1>1
    <3> HIDE DEF t, Chain
    <3> QED BY <3>1
  <2>2. ASSUME NEW y \in Ends(w)
        PROVE  y = out[w]
    <3>0. PICK n \in Nat : \E t \in [0 .. n -> W] : t[0] = w /\ Chain(t, n) /\ out[t[n]] = y
      OBVIOUS
    <3>1. PICK t \in [0 .. n -> W] : t[0] = w /\ Chain(t, n) /\ out[t[n]] = y
      BY <3>0
    <3>2. n = 0
      <4>1. n > 0 => 0 \in 0 .. n - 1
        OBVIOUS
      <4>2. n > 0 => t[0] \notin end
        BY <3>1, <4>1
      <4> QED BY <1>1, <3>1, <4>2
    <3> QED BY <3>1, <3>2
  <2> HIDE DEF Ends
  <2> QED BY <2>1, <2>2
<1>2. ASSUME NEW w \in W, w \notin end
      PROVE  Ends(w) = Ends(step[w])
  <2>1. ASSUME NEW y \in Ends(w)
        PROVE  y \in Ends(step[w])
    <3>0. PICK n \in Nat : \E t \in [0 .. n -> W] : t[0] = w /\ Chain(t, n) /\ out[t[n]] = y
      OBVIOUS
    <3>1. PICK t \in [0 .. n -> W] : t[0] = w /\ Chain(t, n) /\ out[t[n]] = y
      BY <3>0
    <3>2. n > 0
      BY <1>2, <3>1
    <3> DEFINE u == [i \in 0 .. n - 1 |-> t[i + 1]]
    <3>3. n - 1 \in Nat /\ u \in [0 .. n - 1 -> W]
      BY <3>2
    <3>4. u[0] = step[w]
      BY <3>1, <3>2
    <3>5. u[n - 1] = t[n]
      BY <3>2
    <3>6. \A i \in 0 .. (n - 1) - 1 : u[i] \notin end /\ u[i + 1] = step[u[i]]
      <4> TAKE i \in 0 .. (n - 1) - 1
      <4>1. i + 1 \in 0 .. n - 1 /\ i \in 0 .. n - 1
        OBVIOUS
      <4>2. u[i] = t[i + 1] /\ u[i + 1] = t[(i + 1) + 1]
        BY <4>1
      <4> QED BY <3>1, <4>1, <4>2
    <3>7. Chain(u, n - 1)
      BY <3>1, <3>5, <3>6
    <3> HIDE DEF u, Chain
    <3> QED BY <3>1, <3>3, <3>4, <3>5, <3>7
  <2>2. ASSUME NEW y \in Ends(step[w])
        PROVE  y \in Ends(w)
    <3>0. PICK n \in Nat : \E t \in [0 .. n -> W] : t[0] = step[w] /\ Chain(t, n) /\ out[t[n]] = y
      OBVIOUS
    <3>1. PICK t \in [0 .. n -> W] : t[0] = step[w] /\ Chain(t, n) /\ out[t[n]] = y
      BY <3>0
    <3> DEFINE u == [i \in 0 .. n + 1 |-> IF i = 0 THEN w ELSE t[i - 1]]
    <3>2. n + 1 \in Nat /\ u \in [0 .. n + 1 -> W]
      OBVIOUS
    <3>3. u[0] = w /\ u[n + 1] = t[n]
      OBVIOUS
    <3>4. \A i \in 0 .. (n + 1) - 1 : u[i] \notin end /\ u[i + 1] = step[u[i]]
      <4> TAKE i \in 0 .. (n + 1) - 1
      <4>1. CASE i = 0
        BY <1>2, <3>1, <4>1
      <4>2. CASE i # 0
        <5>1. i - 1 \in 0 .. n - 1 /\ u[i] = t[i - 1] /\ u[i + 1] = t[(i - 1) + 1]
          BY <4>2
        <5> QED BY <3>1, <5>1
      <4> QED BY <4>1, <4>2
    <3>5. Chain(u, n + 1)
      BY <3>1, <3>3, <3>4
    <3> HIDE DEF u, Chain
    <3> QED BY <3>1, <3>2, <3>3, <3>5
  <2> HIDE DEF Ends
  <2> QED BY <2>1, <2>2
<1>3. \A S, y : S = {y} => Answer(S) = y
  OBVIOUS
<1> HIDE DEF Ends, Answer
<1>4. \A w \in W : g[w] = IF w \in end THEN out[w] ELSE g[step[w]]
  <2> TAKE w \in W
  <2>1. step[w] \in W /\ g[w] = Answer(Ends(w)) /\ g[step[w]] = Answer(Ends(step[w]))
    OBVIOUS
  <2>2. CASE w \in end
    <3>1. Answer(Ends(w)) = out[w]
      BY <1>1, <1>3, <2>2
    <3> QED BY <2>1, <2>2, <3>1
  <2>3. CASE w \notin end
    <3>1. Ends(w) = Ends(step[w])
      BY <1>2, <2>3
    <3> QED BY <2>1, <2>3, <3>1
  <2> HIDE DEF g
  <2> QED BY <2>2, <2>3
<1>5. g = [w \in W |-> IF w \in end THEN out[w] ELSE g[step[w]]]
  <2>1. g = [w \in W |-> g[w]]
    OBVIOUS
  <2> HIDE DEF g
  <2> QED BY <1>4, <2>1
<1> HIDE DEF g
<1> QED BY <1>5 DEF Recurs

(* What the Include lines of a file match. *)
Matched(val, p) ==
  UNION {{q \in ToSet(Default(val.ssh_dirs, i.dir, <<>>)) : q \in i.match} : i \in ToSet(val.ssh_files[p].includes)}

(* A glob yields the files among the entries that match, no others. *)
LEMMA GlobbedIs ==
  ASSUME NEW val, NEW inc, NEW D, Default(val.ssh_dirs, inc.dir, <<>>) \in Seq(D)
  PROVE  /\ Globbed(val, inc) \in Seq(DOMAIN val.ssh_files)
         /\ ToSet(Globbed(val, inc)) =
              {q \in ToSet(Default(val.ssh_dirs, inc.dir, <<>>)) : q \in inc.match} \cap DOMAIN val.ssh_files
<1> DEFINE F == DOMAIN val.ssh_files
           entries == Default(val.ssh_dirs, inc.dir, <<>>)
           hits == {j \in DOMAIN entries : entries[j] \in inc.match /\ IsFile(val, entries[j])}
           K == Cardinality(hits)
<1>1. Globbed(val, inc) = [n \in 1 .. K |-> entries[Nth(hits, n)]]
  BY DEF Globbed
<1>2. hits \subseteq Nat /\ IsFiniteSet(hits)
  <2>1. hits \subseteq 1 .. Len(entries) /\ Len(entries) \in Nat
    OBVIOUS
  <2> HIDE DEF hits, entries
  <2>2. IsFiniteSet(1 .. Len(entries))
    BY <2>1, FS_Interval
  <2>3. IsFiniteSet(hits)
    BY <2>1, <2>2, FS_Subset
  <2>4. hits \subseteq Nat
    BY <2>1
  <2> QED BY <2>3, <2>4
<1>3. /\ K \in Nat
      /\ \A j \in 1 .. K : Nth(hits, j) \in hits
      /\ \A n \in hits : \E j \in 1 .. K : Nth(hits, j) = n
  <2> HIDE DEF hits
  <2> QED BY <1>2, Sorted
<1>4. \A n \in hits : n \in DOMAIN entries /\ entries[n] \in inc.match /\ entries[n] \in F
  BY DEF IsFile
<1>5. \A n \in DOMAIN entries : entries[n] \in inc.match /\ entries[n] \in F => n \in hits
  BY DEF IsFile
<1> HIDE DEF hits, entries, K
<1>6. Globbed(val, inc) \in Seq(F)
  BY <1>1, <1>3, <1>4
<1>7. DOMAIN Globbed(val, inc) = 1 .. K
  BY <1>1
<1>8. \A q \in ToSet(Globbed(val, inc)) : q \in ToSet(entries) /\ q \in inc.match /\ q \in F
  <2> TAKE q \in ToSet(Globbed(val, inc))
  <2>1. PICK j \in 1 .. K : entries[Nth(hits, j)] = q
    BY <1>1, <1>7 DEF ToSet
  <2> QED BY <1>3, <1>4, <2>1 DEF ToSet
<1>9. \A q : q \in ToSet(entries) /\ q \in inc.match /\ q \in F => q \in ToSet(Globbed(val, inc))
  <2> SUFFICES ASSUME NEW q, q \in ToSet(entries), q \in inc.match, q \in F PROVE q \in ToSet(Globbed(val, inc))
    OBVIOUS
  <2>1. PICK n \in DOMAIN entries : entries[n] = q
    BY DEF ToSet
  <2>2. PICK j \in 1 .. K : Nth(hits, j) = n
    BY <1>3, <1>5, <2>1
  <2> QED BY <1>1, <1>7, <2>1, <2>2 DEF ToSet
<1> QED BY <1>6, <1>8, <1>9 DEF entries

(* The includes of a file, in order, are the files its lines match. *)
LEMMA IncludedIs ==
  ASSUME NEW val, SshHost(val), NEW p \in DOMAIN val.ssh_files
  PROVE  /\ Included(val, p) \in Seq(DOMAIN val.ssh_files)
         /\ ToSet(Included(val, p)) = Matched(val, p) \cap DOMAIN val.ssh_files
<1> DEFINE F == DOMAIN val.ssh_files
           lines == val.ssh_files[p].includes
           s == [j \in DOMAIN lines |-> Globbed(val, lines[j])]
           found(i) == {q \in ToSet(Default(val.ssh_dirs, i.dir, <<>>)) : q \in i.match}
<1>1. lines \in Seq(ToSet(lines)) /\ DOMAIN lines = 1 .. Len(lines) /\ Len(lines) \in Nat
  BY DEF SshHost
<1>2. Included(val, p) = FlattenSeq(s)
  BY DEF Included, Includes
<1>3. \A i : Globbed(val, i) \in Seq(F) /\ ToSet(Globbed(val, i)) = found(i) \cap F
  <2> TAKE i
  <2>1. PICK D : Default(val.ssh_dirs, i.dir, <<>>) \in Seq(D)
    <3>1. CASE i.dir \in DOMAIN val.ssh_dirs
      <4>1. val.ssh_dirs[i.dir] \in Seq(ToSet(val.ssh_dirs[i.dir]))
        BY <3>1 DEF SshHost
      <4> QED BY <3>1, <4>1 DEF Default
    <3>2. CASE i.dir \notin DOMAIN val.ssh_dirs
      <4>1. <<>> \in Seq({})
        OBVIOUS
      <4> QED BY <3>2, <4>1 DEF Default
    <3> QED BY <3>1, <3>2
  <2> QED BY <2>1, GlobbedIs
<1> HIDE DEF lines, found
<1>4. s \in Seq(Seq(F)) /\ Len(s) = Len(lines) /\ \A j \in 1 .. Len(lines) : s[j] = Globbed(val, lines[j])
  BY <1>1, <1>3
<1> HIDE DEF s
<1>5. /\ FlattenSeq(s) \in Seq(F)
      /\ ToSet(FlattenSeq(s)) = {x \in F : \E j \in 1 .. Len(lines) : x \in ToSet(s[j])}
  <2> HIDE DEF F
  <2>1. /\ FlattenSeq(s) \in Seq(F)
        /\ ToSet(FlattenSeq(s)) = {x \in F : \E j \in 1 .. Len(s) : x \in ToSet(s[j])}
    BY <1>4, FlattenedAll
  <2> QED BY <1>4, <2>1
<1>6. \A x \in F : (\E j \in 1 .. Len(lines) : x \in ToSet(s[j])) <=> x \in Matched(val, p)
  <2> TAKE x \in F
  <2>1. ASSUME NEW j \in 1 .. Len(lines), x \in ToSet(s[j])
        PROVE  x \in Matched(val, p)
    <3>1. x \in found(lines[j])
      BY <1>3, <1>4, <2>1
    <3>2. lines[j] \in ToSet(lines)
      BY <1>1 DEF ToSet
    <3> QED BY <3>1, <3>2 DEF Matched, found, lines
  <2>2. ASSUME x \in Matched(val, p)
        PROVE  \E j \in 1 .. Len(lines) : x \in ToSet(s[j])
    <3>1. PICK i \in ToSet(lines) : x \in found(i)
      BY <2>2 DEF Matched, found, lines
    <3>2. PICK j \in 1 .. Len(lines) : lines[j] = i
      BY <1>1, <3>1 DEF ToSet
    <3> QED BY <1>3, <1>4, <3>1, <3>2
  <2> QED BY <2>1, <2>2
<1> QED BY <1>2, <1>5, <1>6

(* The walk of the includes: what is pending and what is found at a call, and after it. *)
Walks(val) == Seq({ssh_main} \cup DOMAIN val.ssh_files) \X Seq({ssh_main} \cup DOMAIN val.ssh_files)
Seen(val, w) == Contains(w[2], Head(w[1])) \/ ~IsFile(val, Head(w[1]))
Visit(val, w) ==
  IF Seen(val, w) THEN <<Tail(w[1]), w[2]>> ELSE <<Included(val, Head(w[1])) \o Tail(w[1]), Append(w[2], Head(w[1]))>>
Visits(val, v) ==
  v = [w \in Walks(val) |-> IF w[1] = <<>> THEN w[2] ELSE v[Visit(val, w)]]

(* A call goes on with sequences of paths: its first path is dropped, or is found and its includes go first. *)
LEMMA VisitIs ==
  ASSUME NEW val, SshHost(val), NEW w \in Walks(val), w[1] # <<>>
  PROVE  LET F == DOMAIN val.ssh_files
             path == Head(w[1])
             n == Visit(val, w)
         IN  /\ n \in Walks(val)
             /\ ToSet(w[1]) = {path} \cup ToSet(Tail(w[1]))
             /\ path \in ToSet(w[2]) \/ path \notin F =>
                  n[2] = w[2] /\ ToSet(n[1]) = ToSet(Tail(w[1])) /\ Len(n[1]) = Len(w[1]) - 1
             /\ path \notin ToSet(w[2]) /\ path \in F =>
                  /\ n[2] = Append(w[2], path)
                  /\ ToSet(n[2]) = ToSet(w[2]) \cup {path}
                  /\ ToSet(n[1]) = (Matched(val, path) \cap F) \cup ToSet(Tail(w[1]))
<1> DEFINE F == DOMAIN val.ssh_files
           P == {ssh_main} \cup F
           p == w[1]
           f == w[2]
           path == Head(p)
           n == Visit(val, w)
<1>1. p \in Seq(P) /\ f \in Seq(P) /\ p # <<>> /\ w = <<p, f>>
  BY DEF Walks
<1>2. /\ path \in P /\ Tail(p) \in Seq(P) /\ Len(Tail(p)) = Len(p) - 1 /\ Len(p) \in Nat /\ Len(p) > 0
      /\ \A i \in 1 .. Len(p) - 1 : Tail(p)[i] = p[i + 1]
      /\ path = p[1]
  <2> HIDE DEF P, p
  <2> QED BY <1>1
<1>3. ToSet(p) = {path} \cup ToSet(Tail(p))
  <2>1. DOMAIN p = 1 .. Len(p) /\ DOMAIN Tail(p) = 1 .. Len(p) - 1
    <3> HIDE DEF P, p
    <3> QED BY <1>1, <1>2
  <2>2. \A x \in ToSet(p) : x = path \/ x \in ToSet(Tail(p))
    <3> TAKE x \in ToSet(p)
    <3>1. PICK i \in 1 .. Len(p) : p[i] = x
      BY <2>1 DEF ToSet
    <3>2. i # 1 => i - 1 \in 1 .. Len(p) - 1 /\ (i - 1) + 1 = i
      BY <1>2
    <3>3. i # 1 => Tail(p)[i - 1] = x /\ i - 1 \in DOMAIN Tail(p)
      <4> HIDE DEF p
      <4> QED BY <1>2, <2>1, <3>1, <3>2
    <3>4. i = 1 => x = path
      BY <1>2, <3>1
    <3> QED BY <3>3, <3>4 DEF ToSet
  <2>3. path \in ToSet(p)
    BY <1>2, <2>1 DEF ToSet
  <2>4. \A x \in ToSet(Tail(p)) : x \in ToSet(p)
    <3> TAKE x \in ToSet(Tail(p))
    <3>1. PICK i \in 1 .. Len(p) - 1 : Tail(p)[i] = x
      BY <2>1 DEF ToSet
    <3>2. i + 1 \in 1 .. Len(p) /\ p[i + 1] = x
      BY <1>2, <3>1
    <3> QED BY <2>1, <3>2 DEF ToSet
  <2> HIDE DEF p, path
  <2> QED BY <2>2, <2>3, <2>4
<1>4. Seen(val, w) <=> path \in ToSet(f) \/ path \notin F
  <2>1. DOMAIN f = 1 .. Len(f)
    BY <1>1
  <2> QED BY <2>1 DEF Seen, IsFile, Contains, ToSet
<1>5. CASE path \in ToSet(f) \/ path \notin F
  <2>1. n = <<Tail(p), f>>
    BY <1>4, <1>5 DEF Visit
  <2>2. n[1] = Tail(p) /\ n[2] = f
    BY <2>1
  <2>3. n \in Walks(val)
    <3> HIDE DEF n, f, p
    <3> QED BY <1>1, <1>2, <2>1 DEF Walks
  <2> QED BY <1>2, <1>3, <1>5, <2>2, <2>3
<1>6. CASE path \notin ToSet(f) /\ path \in F
  <2> DEFINE inc == Included(val, path)
             rest == Tail(p)
  <2>1. n = <<inc \o rest, Append(f, path)>>
    BY <1>4, <1>6 DEF Visit
  <2>2. inc \in Seq(F) /\ ToSet(inc) = Matched(val, path) \cap F
    BY <1>6, IncludedIs
  <2>3. inc \in Seq(P)
    <3>1. \A t \in Seq(F) : t \in Seq(P)
      OBVIOUS
    <3> HIDE DEF P, F, inc
    <3> QED BY <2>2, <3>1
  <2>4. n[1] = inc \o rest /\ n[2] = Append(f, path)
    <3> HIDE DEF n, inc, rest, f, path
    <3> QED BY <2>1
  <2>5. inc \o rest \in Seq(P) /\ ToSet(inc \o rest) = ToSet(inc) \cup ToSet(rest)
    <3>1. rest \in Seq(P)
      BY <1>2
    <3> HIDE DEF inc, rest, P
    <3> QED BY <2>3, <3>1, JoinedSet
  <2>6. Append(f, path) \in Seq(P) /\ ToSet(Append(f, path)) = ToSet(f) \cup {path}
    <3> HIDE DEF f, path, P
    <3>1. Append(f, path) \in Seq(P) /\ f \o <<path>> \in Seq(P) /\ Append(f, path) = f \o <<path>>
      BY <1>1, <1>2
    <3>2. <<path>> \in Seq(P) /\ ToSet(<<path>>) = {path}
      <4>1. DOMAIN <<path>> = {1} /\ <<path>>[1] = path
        OBVIOUS
      <4> QED BY <1>2, <4>1 DEF ToSet
    <3> DEFINE b == <<path>>
    <3>3. f \in Seq(P) /\ b \in Seq(P)
      BY <1>1, <3>2
    <3> HIDE DEF b
    <3>4. ToSet(f \o b) = ToSet(f) \cup ToSet(b)
      BY <3>3, JoinedSet
    <3> QED BY <3>1, <3>2, <3>4 DEF b
  <2>7. n \in Walks(val)
    <3> HIDE DEF n, inc, rest, f, path
    <3> QED BY <2>1, <2>5, <2>6 DEF Walks
  <2>8. /\ n[2] = Append(f, path) /\ ToSet(n[2]) = ToSet(f) \cup {path}
        /\ ToSet(n[1]) = (Matched(val, path) \cap F) \cup ToSet(Tail(p))
    <3> HIDE DEF n, inc, f, p, path, F
    <3> QED BY <2>2, <2>4, <2>5, <2>6
  <2> HIDE DEF inc
  <2> QED BY <1>3, <1>6, <2>7, <2>8
<1> QED BY <1>5, <1>6

(* The walk is a function that exists. *)
LEMMA VisitExists ==
  ASSUME NEW val, SshHost(val)
  PROVE  \E v : Visits(val, v) /\ visited(val) = v[<< <<ssh_main>>, <<>> >>]
<1> DEFINE W == Walks(val)
           end == {w \in W : w[1] = <<>>}
           out == [w \in W |-> w[2]]
           Y == Seq({ssh_main} \cup DOMAIN val.ssh_files)
           step == [w \in W |-> IF w \in end THEN w ELSE Visit(val, w)]
           v == CHOOSE g : Visits(val, g)
<1>1. step \in [W -> W]
  <2>1. \A w \in W : w \notin end => Visit(val, w) \in W
    BY VisitIs
  <2> HIDE DEF W
  <2> QED BY <2>1
<1>2. out \in [W -> Y]
  BY DEF Walks
<1>3. \E g : Visits(val, g)
  <2>1. PICK g : Recurs(g, W, end, step, out)
    <3>1. end \in SUBSET W
      OBVIOUS
    <3> HIDE DEF W, end, out, step, Y
    <3> QED BY <3>1, <1>1, <1>2, TailRecursion
  <2>2. \A w \in W : (IF w \in end THEN out[w] ELSE g[step[w]]) = IF w[1] = <<>> THEN w[2] ELSE g[Visit(val, w)]
    <3> HIDE DEF W
    <3> QED OBVIOUS
  <2>3. g = [w \in W |-> IF w[1] = <<>> THEN w[2] ELSE g[Visit(val, w)]]
    <3> HIDE DEF W, end, out, step
    <3> QED BY <2>1, <2>2 DEF Recurs
  <2> QED BY <2>3 DEF Visits
<1>4. visited(val) = v[<< <<ssh_main>>, <<>> >>]
  <2>1. \A g : Visits(val, g) <=>
               g = [w \in Walks(val) |->
                      IF w[1] = <<>> THEN w[2]
                      ELSE IF Contains(w[2], Head(w[1])) \/ ~IsFile(val, Head(w[1])) THEN g[<<Tail(w[1]), w[2]>>]
                      ELSE g[<<Included(val, Head(w[1])) \o Tail(w[1]), Append(w[2], Head(w[1]))>>]]
    <3> TAKE g
    <3>1. \A w \in Walks(val) :
            (IF w[1] = <<>> THEN w[2] ELSE g[Visit(val, w)]) =
            IF w[1] = <<>> THEN w[2]
            ELSE IF Contains(w[2], Head(w[1])) \/ ~IsFile(val, Head(w[1])) THEN g[<<Tail(w[1]), w[2]>>]
            ELSE g[<<Included(val, Head(w[1])) \o Tail(w[1]), Append(w[2], Head(w[1]))>>]
      BY DEF Visit, Seen
    <3> QED BY <3>1 DEF Visits
  <2> QED BY <2>1 DEF visited, Walks
<1>5. Visits(val, v)
  <2> HIDE DEF W
  <2> QED BY <1>3
<1> QED BY <1>4, <1>5

(* At a call: each file found once, and what a found file includes is found or pending. *)
Underway(val, w) ==
  LET F == DOMAIN val.ssh_files IN
  /\ IsInjective(w[2]) /\ ToSet(w[2]) \subseteq F
  /\ \A x \in ToSet(w[2]) : Matched(val, x) \cap F \subseteq ToSet(w[2]) \cup ToSet(w[1])
(* What it answers: all of that and what it leads to, nothing else, each once. *)
Complete(val, w, files) ==
  LET F == DOMAIN val.ssh_files
      some == ToSet(w[2]) \cup (ToSet(w[1]) \cap F)
  IN  /\ IsInjective(files) /\ some \subseteq ToSet(files) /\ ToSet(files) \subseteq F
      /\ \A x \in ToSet(files) : Matched(val, x) \cap F \subseteq ToSet(files)
      /\ \A R \in SUBSET F : some \subseteq R /\ (\A x \in R : Matched(val, x) \cap F \subseteq R) => ToSet(files) \subseteq R

(* One call: complete when the next one is. *)
LEMMA VisitCompletes ==
  ASSUME NEW val, SshHost(val), NEW w \in Walks(val), Underway(val, w), w[1] # <<>>
  PROVE  LET F == DOMAIN val.ssh_files
             n == Visit(val, w)
         IN  /\ n \in Walks(val) /\ Underway(val, n)
             /\ \A files : Complete(val, n, files) => Complete(val, w, files)
             /\ \/ n[2] = w[2] /\ Len(n[1]) = Len(w[1]) - 1
                \/ \E x \in F : x \notin ToSet(w[2]) /\ ToSet(n[2]) = ToSet(w[2]) \cup {x}
<1> DEFINE F == DOMAIN val.ssh_files
           path == Head(w[1])
           n == Visit(val, w)
           rest == ToSet(Tail(w[1]))
           found == ToSet(w[2])
<1>1. /\ n \in Walks(val)
      /\ ToSet(w[1]) = {path} \cup rest
      /\ path \in found \/ path \notin F =>
           n[2] = w[2] /\ ToSet(n[1]) = rest /\ Len(n[1]) = Len(w[1]) - 1
      /\ path \notin found /\ path \in F =>
           /\ n[2] = Append(w[2], path)
           /\ ToSet(n[2]) = found \cup {path}
           /\ ToSet(n[1]) = (Matched(val, path) \cap F) \cup rest
  BY VisitIs
<1>2. /\ IsInjective(w[2]) /\ found \subseteq F
      /\ \A x \in found : Matched(val, x) \cap F \subseteq found \cup ToSet(w[1])
  BY DEF Underway
<1> HIDE DEF n, path, rest, found
<1>3. CASE path \in found \/ path \notin F
  <2>1. Underway(val, n)
    BY <1>1, <1>2, <1>3 DEF Underway, found
  <2>2. ASSUME NEW files, Complete(val, n, files) PROVE Complete(val, w, files)
    <3>1. n[2] = w[2] /\ ToSet(n[2]) = found /\ ToSet(n[1]) = rest
      BY <1>1, <1>3 DEF found
    <3>2. found \cup (ToSet(n[1]) \cap F) = found \cup (ToSet(w[1]) \cap F)
      BY <1>1, <1>3, <3>1
    <3>3. ToSet(n[2]) \cup (ToSet(n[1]) \cap F) = ToSet(w[2]) \cup (ToSet(w[1]) \cap F)
      BY <3>1, <3>2 DEF found
    <3> QED BY <2>2, <3>3 DEF Complete
  <2> QED BY <1>1, <1>3, <2>1, <2>2 DEF n
<1>4. CASE path \notin found /\ path \in F
  <2>1. IsInjective(n[2])
    <3>1. w[2] \in Seq({ssh_main} \cup F)
      BY DEF Walks
    <3>2. /\ DOMAIN w[2] = 1 .. Len(w[2]) /\ Len(w[2]) \in Nat
          /\ DOMAIN Append(w[2], path) = 1 .. Len(w[2]) + 1
          /\ \A i \in 1 .. Len(w[2]) : Append(w[2], path)[i] = w[2][i]
          /\ Append(w[2], path)[Len(w[2]) + 1] = path
      BY <3>1
    <3>3. \A i \in 1 .. Len(w[2]) : w[2][i] # path
      BY <1>4, <3>2 DEF found, ToSet
    <3>4. \A i \in 1 .. Len(w[2]) + 1 : i \in 1 .. Len(w[2]) \/ i = Len(w[2]) + 1
      BY <3>2
    <3>5. IsInjective(Append(w[2], path))
      BY <1>2, <3>2, <3>3, <3>4 DEF IsInjective
    <3> QED BY <1>1, <1>4, <3>5
  <2>2. Underway(val, n)
    <3>1. ToSet(n[2]) = found \cup {path} /\ ToSet(n[1]) = (Matched(val, path) \cap F) \cup rest /\ ToSet(w[1]) = {path} \cup rest
      BY <1>1, <1>4
    <3>2. \A x \in ToSet(n[2]) : Matched(val, x) \cap F \subseteq ToSet(n[2]) \cup ToSet(n[1])
      <4> TAKE x \in ToSet(n[2])
      <4>1. CASE x = path
        BY <3>1, <4>1
      <4>2. CASE x \in found
        BY <1>2, <3>1, <4>2
      <4> QED BY <3>1, <4>1, <4>2
    <3> QED BY <1>2, <1>4, <2>1, <3>1, <3>2 DEF Underway
  <2>3. ASSUME NEW files, Complete(val, n, files) PROVE Complete(val, w, files)
    <3>1. /\ ToSet(n[2]) = found \cup {path} /\ ToSet(n[1]) = (Matched(val, path) \cap F) \cup rest
          /\ ToSet(w[1]) = {path} \cup rest /\ ToSet(w[2]) = found
      BY <1>1, <1>4 DEF found
    <3> DEFINE some == ToSet(w[2]) \cup (ToSet(w[1]) \cap F)
               more == ToSet(n[2]) \cup (ToSet(n[1]) \cap F)
    <3>2. some \subseteq more
      BY <1>4, <3>1
    <3>3. ASSUME NEW R \in SUBSET F, some \subseteq R, \A x \in R : Matched(val, x) \cap F \subseteq R
          PROVE  more \subseteq R
      <4>1. path \in R
        BY <1>4, <3>1, <3>3
      <4>2. Matched(val, path) \cap F \subseteq R
        BY <3>3, <4>1
      <4> QED BY <3>1, <3>3, <4>1, <4>2
    <3>4. /\ IsInjective(files) /\ more \subseteq ToSet(files) /\ ToSet(files) \subseteq F
          /\ \A x \in ToSet(files) : Matched(val, x) \cap F \subseteq ToSet(files)
          /\ \A R \in SUBSET F : more \subseteq R /\ (\A x \in R : Matched(val, x) \cap F \subseteq R) => ToSet(files) \subseteq R
      BY <2>3 DEF Complete
    <3> HIDE DEF some, more
    <3>5. \A R \in SUBSET F : some \subseteq R /\ (\A x \in R : Matched(val, x) \cap F \subseteq R) => ToSet(files) \subseteq R
      BY <3>3, <3>4
    <3> QED BY <3>2, <3>4, <3>5 DEF Complete, some
  <2> QED BY <1>1, <1>4, <2>2, <2>3 DEF n, found
<1> QED BY <1>3, <1>4

(* The walk ends, for it drops a pending path or finds one more of finitely many files. *)
LEMMA VisitedIs ==
  ASSUME NEW val, SshHost(val)
  PROVE  Complete(val, << <<ssh_main>>, <<>> >>, visited(val))
<1> DEFINE F == DOMAIN val.ssh_files
           start == << <<ssh_main>>, <<>> >>
           left(w) == Cardinality(F \ ToSet(w[2]))
<1>1. PICK v : Visits(val, v) /\ visited(val) = v[start]
  BY VisitExists
<1> DEFINE Bad == {w \in Walks(val) : Underway(val, w) /\ ~Complete(val, w, v[w])}
<1>2. \A w \in Walks(val) : v[w] = IF w[1] = <<>> THEN w[2] ELSE v[Visit(val, w)]
  BY <1>1 DEF Visits
<1>3. \A w \in Walks(val) : IsFiniteSet(F \ ToSet(w[2])) /\ left(w) \in Nat /\ Len(w[1]) \in Nat
  <2> TAKE w \in Walks(val)
  <2>1. IsFiniteSet(F) /\ F \ ToSet(w[2]) \subseteq F
    BY DEF SshHost
  <2>2. IsFiniteSet(F \ ToSet(w[2])) /\ Cardinality(F \ ToSet(w[2])) \in Nat
    <3> DEFINE G == F \ ToSet(w[2])
    <3>1. G \in SUBSET F
      OBVIOUS
    <3> HIDE DEF G, F
    <3>2. IsFiniteSet(G) /\ Cardinality(G) \in Nat
      BY <2>1, <3>1, FS_Subset, FS_CardinalityType
    <3> QED BY <3>2 DEF G
  <2>3. Len(w[1]) \in Nat
    BY DEF Walks
  <2> QED BY <2>2, <2>3
<1> HIDE DEF left
<1>4. Bad = {}
  <2> SUFFICES ASSUME Bad # {} PROVE FALSE
    OBVIOUS
  <2> DEFINE S == {left(w) : w \in Bad}
  <2>1. PICK k \in S : \A m \in S : k <= m
    <3>1. S \in SUBSET Nat /\ S # {}
      BY <1>3
    <3> HIDE DEF S
    <3> QED BY <3>1, LeastNumber
  <2> DEFINE T == {Len(w[1]) : w \in {u \in Bad : left(u) = k}}
  <2>2. PICK l \in T : \A m \in T : l <= m
    <3>1. T \in SUBSET Nat /\ T # {}
      BY <1>3, <2>1
    <3> HIDE DEF T, Bad
    <3> QED BY <3>1, LeastNumber
  <2>3. PICK w \in Bad : left(w) = k /\ Len(w[1]) = l
    BY <2>2
  <2>4. w \in Walks(val) /\ Underway(val, w) /\ ~Complete(val, w, v[w])
    BY <2>3
  <2>5. CASE w[1] = <<>>
    <3>1. ToSet(w[1]) = {} /\ v[w] = w[2]
      BY <1>2, <2>4, <2>5 DEF ToSet
    <3> QED BY <2>4, <3>1 DEF Underway, Complete
  <2>6. CASE w[1] # <<>>
    <3> DEFINE n == Visit(val, w)
    <3>1. /\ n \in Walks(val) /\ Underway(val, n)
          /\ \A files : Complete(val, n, files) => Complete(val, w, files)
          /\ \/ n[2] = w[2] /\ Len(n[1]) = Len(w[1]) - 1
             \/ \E x \in F : x \notin ToSet(w[2]) /\ ToSet(n[2]) = ToSet(w[2]) \cup {x}
      BY <2>4, <2>6, VisitCompletes
    <3>2. v[w] = v[n]
      BY <1>2, <2>4, <2>6
    <3>3. n \in Bad
      BY <2>4, <3>1, <3>2
    <3>4. left(n) >= k /\ (left(n) = k => Len(n[1]) >= l)
      <4>1. left(n) \in S /\ (left(n) = k => Len(n[1]) \in T)
        BY <3>3
      <4>2. k \in Nat /\ l \in Nat /\ left(n) \in Nat /\ Len(n[1]) \in Nat
        BY <1>3, <2>3, <2>4, <3>1
      <4> HIDE DEF S, T, Bad, n
      <4> QED BY <2>1, <2>2, <4>1, <4>2
    <3>5. left(n) < k \/ (left(n) = k /\ Len(n[1]) < l)
      <4>1. CASE n[2] = w[2] /\ Len(n[1]) = Len(w[1]) - 1
        <5>1. Len(w[1]) \in Nat /\ Len(w[1]) = l /\ left(w) = k
          BY <1>3, <2>3, <2>4
        <5> HIDE DEF n
        <5> QED BY <4>1, <5>1 DEF left
      <4>2. CASE \E x \in F : x \notin ToSet(w[2]) /\ ToSet(n[2]) = ToSet(w[2]) \cup {x}
        <5>1. PICK x \in F : x \notin ToSet(w[2]) /\ ToSet(n[2]) = ToSet(w[2]) \cup {x}
          BY <4>2
        <5> DEFINE G == F \ ToSet(w[2])
                   H == F \ ToSet(n[2])
        <5>2. H \in SUBSET G /\ x \in G /\ x \notin H
          BY <5>1
        <5>3. IsFiniteSet(G) /\ left(w) = Cardinality(G) /\ left(n) = Cardinality(H) /\ Cardinality(G) \in Nat /\ Cardinality(H) \in Nat
          BY <1>3, <2>4, <3>1 DEF left
        <5> HIDE DEF G, H, n
        <5>4. Cardinality(H) <= Cardinality(G) /\ Cardinality(H) # Cardinality(G)
          BY <5>2, <5>3, FS_Subset
        <5> QED BY <2>3, <5>3, <5>4
      <4> QED BY <3>1, <4>1, <4>2
    <3>6. k \in Nat /\ l \in Nat /\ left(n) \in Nat /\ Len(n[1]) \in Nat
      BY <1>3, <2>3, <2>4, <3>1
    <3> HIDE DEF n
    <3> QED BY <3>4, <3>5, <3>6
  <2> QED BY <2>5, <2>6
<1>5. start \in Walks(val) /\ Underway(val, start)
  <2>1. <<ssh_main>> \in Seq({ssh_main} \cup F) /\ <<>> \in Seq({ssh_main} \cup F)
    OBVIOUS
  <2>2. start \in Walks(val)
    <3> HIDE DEF F
    <3> QED BY <2>1 DEF Walks, F
  <2>3. start[2] = <<>> /\ ToSet(<<>>) = {} /\ IsInjective(<<>>)
    BY DEF ToSet, IsInjective
  <2> HIDE DEF start
  <2> QED BY <2>2, <2>3 DEF Underway
<1>6. Complete(val, start, v[start])
  <2> HIDE DEF start
  <2> QED BY <1>4, <1>5
<1> QED BY <1>1, <1>6

(* The files the server reads are those of the walk. *)
LEMMA VisitedIsRead ==
  ASSUME SshHost(host)
  PROVE  IsInjective(visited(host)) /\ ToSet(visited(host)) = SshReads
<1> DEFINE F == DOMAIN host.ssh_files
           y == visited(host)
           start == << <<ssh_main>>, <<>> >>
           some == ToSet(start[2]) \cup (ToSet(start[1]) \cap F)
           Closed1(R) == {ssh_main} \cap F \subseteq R /\ \A p \in R : Matched(host, p) \cap F \subseteq R
<1>1. some = {ssh_main} \cap F
  <2>1. DOMAIN <<ssh_main>> = {1} /\ <<ssh_main>>[1] = ssh_main /\ DOMAIN <<>> = {}
    OBVIOUS
  <2> QED BY <2>1 DEF ToSet
<1>2. /\ IsInjective(y) /\ some \subseteq ToSet(y) /\ ToSet(y) \subseteq F
      /\ \A x \in ToSet(y) : Matched(host, x) \cap F \subseteq ToSet(y)
      /\ \A R \in SUBSET F : some \subseteq R /\ (\A x \in R : Matched(host, x) \cap F \subseteq R) => ToSet(y) \subseteq R
  <2>1. Complete(host, start, y)
    BY VisitedIs
  <2> HIDE DEF start
  <2> QED BY <2>1 DEF Complete
<1>3. SshReads = {p \in F : \A R \in {S \in SUBSET F : Closed1(S)} : p \in R}
  BY DEF SshReads, Matched
<1> HIDE DEF y, some, F
<1>4. ToSet(y) \in {S \in SUBSET F : Closed1(S)}
  BY <1>1, <1>2
<1>5. \A R \in {S \in SUBSET F : Closed1(S)} : ToSet(y) \subseteq R
  BY <1>1, <1>2
<1>6. SshReads = ToSet(y)
  <2> HIDE DEF Closed1
  <2> QED BY <1>2, <1>3, <1>4, <1>5
<1> QED BY <1>2, <1>6 DEF y

(* The host of an audit of services stays as it is, nothing of it is collected, and a pass  *)
(* just given is that of the check on this host.                                            *)
SshInv ==
  /\ family \in Families
  /\ family = "services" =>
       /\ SshHost(host)
       /\ DOMAIN cache = {}
       /\ verdicts \in Seq(ToSet(verdicts)) /\ Len(verdicts) <= Len(Checks["services"])
       /\ verdicts # <<>> /\ Asked.type = "sshd_option" /\ Last(verdicts) = "PASS" =>
            sshd_option(ViewOf(host, <<>>, root), Asked) = "PASS"

(* While nothing is collected a view shows the host itself. *)
LEMMA NothingCollected ==
  ASSUME host = [i \in DOMAIN host |-> host[i]], DOMAIN cache = {}
  PROVE  View = ViewOf(host, <<>>, root)
<1>1. Altered(host, cache) = [i \in DOMAIN host |-> host[i]]
  BY DOMAIN host \cup DOMAIN cache = DOMAIN host DEF Altered
<1> QED BY <1>1 DEF View, ViewOf

(* A pass with a limit has read the files, and none of them exceeds it. *)
LEMMA LimitKept ==
  ASSUME NEW e, NEW check, sshd_option(e, check) = "PASS", check.file_max # Absent
  PROVE  \A p \in ToSet(sshd_config_files(e)) : \A n \in e.val.ssh_files[p].limits : ~(n > check.file_max)
<1> DEFINE contexts == sshd_contexts(e)
           configs == [j \in DOMAIN contexts |-> sshd_config(e, contexts[j])]
           files == sshd_config_files(e)
           strict == \E c \in ToSet(configs) : \E s \in check.settings : ~evaluate(Default(c, s.option, <<>>), s.rule)
           over == \E p \in ToSet(files) : \E n \in e.val.ssh_files[p].limits : n > check.file_max
<1>1. sshd_option(e, check) = Needs(Append(configs, files), Verdict(strict \/ over))
  BY DEF sshd_option
<1> HIDE DEF strict, over, configs, files
<1>2. ~over
  BY <1>1 DEF Needs, Verdict
<1> QED BY <1>2 DEF over, files

(* What the invariant says of the last verdict and of the files. *)
LEMMA SshInvImplies == SshInv => IncludesFollowed
<1> SUFFICES ASSUME SshInv, family = "services", sshd_config_files(View) # Unavailable
             PROVE  IncludesFollowed
  BY DEF IncludesFollowed
<1>1. SshHost(host) /\ View = ViewOf(host, <<>>, root)
  <2>1. SshHost(host) /\ DOMAIN cache = {}
    BY DEF SshInv
  <2>2. host = [i \in DOMAIN host |-> host[i]]
    BY <2>1 DEF SshHost
  <2> QED BY <2>1, <2>2, NothingCollected
<1>2. View.val = host
  BY <1>1 DEF ViewOf
<1>3. sshd_config_files(View) = visited(host)
  BY <1>2 DEF sshd_config_files, Opened
<1>4. IsInjective(visited(host)) /\ ToSet(visited(host)) = SshReads
  BY <1>1, VisitedIsRead
<1>5. ASSUME Judged({"sshd_option"}), Last(verdicts) = "PASS", Asked.file_max # Absent,
             NEW p \in SshReads, NEW n \in host.ssh_files[p].limits
      PROVE  n <= Asked.file_max
  <2>1. verdicts # <<>> /\ Asked.type = "sshd_option"
    BY <1>5 DEF Judged
  <2>2. sshd_option(View, Asked) = "PASS"
    BY <1>1, <1>5, <2>1 DEF SshInv
  <2>3. ~(n > Asked.file_max)
    BY <1>2, <1>3, <1>4, <1>5, <2>2, LimitKept
  <2>4. Asked.file_max \in Int
    <3>1. Len(verdicts) \in DOMAIN Checks["services"]
      BY <2>1, SshAssumption DEF SshInv
    <3>2. SshCheck(Asked)
      BY <3>1, SshAssumption DEF SshInv, Asked
    <3> QED BY <1>5, <2>1, <3>2 DEF SshCheck
  <2>5. n \in Int
    <3>1. p \in DOMAIN host.ssh_files
      BY DEF SshReads
    <3> QED BY <1>1, <3>1 DEF SshHost
  <2> QED BY <2>3, <2>4, <2>5
<1> QED BY <1>3, <1>4, <1>5 DEF IncludesFollowed

(* A check of this family collects nothing. *)
LEMMA SshAssess == SshInv /\ Assess => SshInv'
<1> SUFFICES ASSUME SshInv, Assess PROVE SshInv'
  OBVIOUS
<1>1. family' = family /\ root' = root /\ host' = host
  BY DEF Assess
<1> SUFFICES ASSUME family = "services" PROVE SshInv'
  BY <1>1 DEF SshInv
<1> DEFINE n == Len(verdicts)
           check == Checks["services"][n + 1]
<1>2. n \in Nat /\ n + 1 \in DOMAIN Checks["services"] /\ n + 1 <= Len(Checks["services"])
  BY SshAssumption DEF SshInv, Assess
<1>3. SshCheck(check)
  BY <1>2, SshAssumption DEF SshInv
<1>4. Reads(check, View) = {}
  BY <1>3 DEF SshCheck, Reads, Collected
<1>5. DOMAIN cache' = {}
  BY <1>4 DEF SshInv, Assess, Next1, Altered
<1>6. verdicts' = Append(verdicts, VerdictOf(check, View))
  BY DEF Assess, Next1
<1> HIDE DEF check
<1>7. /\ Len(verdicts') = n + 1 /\ verdicts'[n + 1] = VerdictOf(check, View)
      /\ verdicts' \in Seq(ToSet(verdicts'))
  <2>1. verdicts \in Seq(ToSet(verdicts))
    BY DEF SshInv
  <2> DEFINE S == ToSet(verdicts) \cup {VerdictOf(check, View)}
  <2>2. verdicts' \in Seq(S) /\ Len(verdicts') = n + 1 /\ verdicts'[n + 1] = VerdictOf(check, View)
    BY <1>6, <2>1
  <2>3. \A s : s \in Seq(S) => s \in Seq(ToSet(s))
    BY DEF ToSet
  <2> HIDE DEF S
  <2> QED BY <2>2, <2>3
<1>8. Last(verdicts)' = VerdictOf(check, View) /\ Asked' = check
  BY <1>1, <1>7 DEF Last, Asked, check
<1>9. ASSUME check.type = "sshd_option", VerdictOf(check, View) = "PASS"
      PROVE  sshd_option(ViewOf(host, <<>>, root), check) = "PASS"
  <2>1. View = ViewOf(host, <<>>, root)
    BY NothingCollected DEF SshInv, SshHost
  <2>2. Provide(check, View) = "PASS" /\ Provide(check, View) = sshd_option(View, check)
    BY <1>9, PassIsProvided DEF Provide, ServiceVerdict
  <2> QED BY <2>1, <2>2
<1>10. ViewOf(host, <<>>, root)' = ViewOf(host, <<>>, root) /\ SshHost(host)' = SshHost(host)
  BY <1>1 DEF ViewOf
<1> QED
  <2> HIDE DEF n
  <2> QED BY <1>1, <1>2, <1>5, <1>7, <1>8, <1>9, <1>10 DEF SshInv

(* Whatever files, directories and Include lines there are, in whatever nesting and however *)
(* they include each other: the walk of sshd_config_files ends, and reads what the server   *)
(* reads, each file once; and no limit that passes is exceeded in one of them.              *)
THEOREM IncludesFollowedHolds == Spec => []IncludesFollowed
<1>1. Init => SshInv
  <2> SUFFICES ASSUME Init PROVE SshInv
    OBVIOUS
  <2>1. verdicts = <<>> /\ cache = <<>> /\ family \in Families
    BY DEF Init
  <2>2. verdicts \in Seq(ToSet(verdicts)) /\ Len(verdicts) = 0 /\ DOMAIN cache = {}
    BY <2>1
  <2>3. family = "services" => SshHost(host) /\ Len(Checks["services"]) \in Nat
    BY SshAssumption DEF Init
  <2> QED BY <2>1, <2>2, <2>3 DEF SshInv
<1>2. SshInv /\ [Next]_vars => SshInv'
  <2> SUFFICES ASSUME SshInv, [Next]_vars PROVE SshInv'
    OBVIOUS
  <2>1. CASE Assess
    BY <2>1, SshAssess
  <2>2. CASE Edit
    BY <2>2 DEF Edit, SshInv
  <2>3. CASE UNCHANGED vars
    BY <2>3 DEF vars, SshInv, Asked, ViewOf
  <2> QED BY <2>1, <2>2, <2>3 DEF Next
<1>3. SshInv => IncludesFollowed
  BY SshInvImplies
<1> QED BY <1>1, <1>2, <1>3, PTL DEF Spec

------------------------------------------------------------------------------
(* Versions: the rounds of verrevcmp and the weights of the policy. *)

(* What is left of a sequence from a place on. *)
LEMMA FromIs ==
  ASSUME NEW V, NEW s \in Seq(V), NEW j \in 1 .. Len(s) + 1
  PROVE  /\ From(s, j) \in Seq(V) /\ Len(From(s, j)) = Len(s) - j + 1
         /\ \A i \in 1 .. Len(s) - j + 1 : From(s, j)[i] = s[j + i - 1]
BY DEF From

(* What is left from a place on of what is left from a place on. *)
LEMMA FromFrom ==
  ASSUME NEW V, NEW s \in Seq(V), NEW j \in 1 .. Len(s) + 1, NEW k \in 1 .. Len(s) - j + 2
  PROVE  From(From(s, j), k) = From(s, j + k - 1)
<1> DEFINE t == From(s, j)
           u == From(t, k)
           w == From(s, j + k - 1)
<1>0. Len(s) \in Nat /\ j \in Nat /\ k \in Nat /\ j + k - 1 \in 1 .. Len(s) + 1 /\ k \in 1 .. (Len(s) - j + 1) + 1
  OBVIOUS
<1>1. t \in Seq(V) /\ Len(t) = Len(s) - j + 1 /\ \A i \in 1 .. Len(s) - j + 1 : t[i] = s[j + i - 1]
  BY FromIs
<1>2. u \in Seq(V) /\ Len(u) = Len(t) - k + 1 /\ \A i \in 1 .. Len(t) - k + 1 : u[i] = t[k + i - 1]
  <2> HIDE DEF t
  <2>1. t \in Seq(V) /\ k \in 1 .. Len(t) + 1
    BY <1>0, <1>1
  <2> QED BY <2>1, FromIs
<1>3. w \in Seq(V) /\ Len(w) = Len(s) - (j + k - 1) + 1 /\ \A i \in 1 .. Len(s) - (j + k - 1) + 1 : w[i] = s[(j + k - 1) + i - 1]
  BY <1>0, FromIs
<1> HIDE DEF t, u, w
<1>4. Len(u) = Len(w)
  BY <1>0, <1>1, <1>2, <1>3
<1>5. \A i \in 1 .. Len(u) : u[i] = w[i]
  <2> TAKE i \in 1 .. Len(u)
  <2>1. k + i - 1 \in 1 .. Len(s) - j + 1 /\ j + (k + i - 1) - 1 = (j + k - 1) + i - 1
    BY <1>0, <1>1, <1>2
  <2>2. u[i] = t[k + i - 1] /\ t[k + i - 1] = s[j + (k + i - 1) - 1]
    <3>1. i \in 1 .. Len(t) - k + 1
      BY <1>2
    <3> QED BY <1>1, <1>2, <2>1, <3>1
  <2>3. w[i] = s[(j + k - 1) + i - 1]
    <3>1. i \in 1 .. Len(s) - (j + k - 1) + 1
      BY <1>3, <1>4
    <3> QED BY <1>3, <3>1
  <2> QED BY <2>1, <2>2, <2>3
<1>6. u = w
  BY <1>2, <1>3, <1>4, <1>5, SeqEqual
<1> QED BY <1>6 DEF u, t, w

(* A loop over characters of C stops at the first other one, and there is one such place. *)
LEMMA StopIs ==
  ASSUME NEW V, NEW s \in Seq(V), NEW C
  PROVE  LET p == StopAt(s, C) IN
         /\ p \in 1 .. Len(s) + 1 /\ (\A i \in 1 .. p - 1 : s[i] \in C) /\ (p <= Len(s) => s[p] \notin C)
         /\ \A q \in 1 .. Len(s) + 1 :
              (\A i \in 1 .. q - 1 : s[i] \in C) /\ (q <= Len(s) => s[q] \notin C) => q = p
<1> DEFINE I == {i \in 1 .. Len(s) : s[i] \notin C}
           p == StopAt(s, C)
<1>0. Len(s) \in Nat
  OBVIOUS
<1>1. p = LET j == IF I # {} THEN Min(I) ELSE 0 IN IF j = 0 THEN Len(s) + 1 ELSE j
  BY DEF StopAt, SelectInSeq
<1>2. p \in 1 .. Len(s) + 1 /\ (\A i \in 1 .. p - 1 : s[i] \in C) /\ (p <= Len(s) => s[p] \notin C)
  <2>1. CASE I = {}
    BY <1>0, <1>1, <2>1
  <2>2. CASE I # {}
    <3>1. PICK n \in I : \A m \in I : n <= m
      <4>1. I \in SUBSET Nat
        OBVIOUS
      <4> HIDE DEF I
      <4> QED BY <2>2, <4>1, LeastNumber
    <3>2. Min(I) \in I /\ \A m \in I : Min(I) <= m
      BY <3>1 DEF Min
    <3> DEFINE x == Min(I)
    <3>3. p = x
      <4>1. x # 0
        BY <3>2
      <4> HIDE DEF I
      <4> QED BY <1>1, <2>2, <4>1
    <3> HIDE DEF x, p
    <3>4. x \in I /\ \A m \in I : x <= m
      BY <3>2 DEF x
    <3>5. \A i \in 1 .. x - 1 : s[i] \in C
      <4> SUFFICES ASSUME NEW i \in 1 .. x - 1, s[i] \notin C PROVE FALSE
        OBVIOUS
      <4>1. i \in I /\ ~(x <= i)
        BY <1>0, <3>4
      <4> QED BY <3>4, <4>1
    <3> QED BY <1>0, <3>3, <3>4, <3>5
  <2> QED BY <2>1, <2>2
<1> HIDE DEF p
<1>3. ASSUME NEW q \in 1 .. Len(s) + 1, \A i \in 1 .. q - 1 : s[i] \in C, q <= Len(s) => s[q] \notin C
      PROVE  q = p
  <2>1. ~(q < p)
    <3> SUFFICES ASSUME q < p PROVE FALSE
      OBVIOUS
    <3>1. q \in 1 .. p - 1 /\ q <= Len(s)
      BY <1>0, <1>2
    <3> QED BY <1>2, <1>3, <3>1
  <2>2. ~(p < q)
    <3> SUFFICES ASSUME p < q PROVE FALSE
      OBVIOUS
    <3>1. p \in 1 .. q - 1 /\ p <= Len(s)
      BY <1>0, <1>2
    <3> QED BY <1>2, <1>3, <3>1
  <2> QED BY <1>0, <1>2, <2>1, <2>2
<1> QED BY <1>2, <1>3 DEF p

(* The digits a sequence begins with. *)
LEMMA LeadingIs ==
  ASSUME NEW V, NEW s \in Seq(V)
  PROVE  LET p == StopAt(s, Digits) IN
         /\ LeadingDigits(s) \in Seq(Digits) /\ LeadingDigits(s) \in Seq(V) /\ Len(LeadingDigits(s)) = p - 1
         /\ \A i \in 1 .. p - 1 : LeadingDigits(s)[i] = s[i]
<1> DEFINE p == StopAt(s, Digits)
           x == LeadingDigits(s)
<1>1. p \in 1 .. Len(s) + 1 /\ (\A i \in 1 .. p - 1 : s[i] \in Digits) /\ Len(s) \in Nat
  BY StopIs
<1> HIDE DEF p
<1>2. x = SubSeq(s, 1, p - 1)
  BY DEF LeadingDigits, p
<1> HIDE DEF x
<1>3. x \in Seq(V) /\ Len(x) = p - 1 /\ \A i \in 1 .. p - 1 : x[i] = s[i]
  BY <1>1, <1>2
<1>4. x \in Seq(Digits)
  <2>1. x = [i \in 1 .. p - 1 |-> x[i]] /\ p - 1 \in Nat
    BY <1>1, <1>3
  <2>2. \A i \in 1 .. p - 1 : x[i] \in Digits
    BY <1>1, <1>3
  <2> QED BY <2>1, <2>2
<1> QED BY <1>3, <1>4 DEF p, x

(* The value of a digit, 0 for "0" alone. *)
LEMMA DigitIs == \A c \in Digits : DigitValue(c) \in 0 .. 9 /\ (DigitValue(c) = 0 <=> c = "0")
<1>1. /\ DigitValue("0") = 0 /\ DigitValue("1") = 1 /\ DigitValue("2") = 2 /\ DigitValue("3") = 3
      /\ DigitValue("4") = 4 /\ DigitValue("5") = 5 /\ DigitValue("6") = 6 /\ DigitValue("7") = 7
      /\ DigitValue("8") = 8 /\ DigitValue("9") = 9
  BY DEF DigitValue
<1> QED BY <1>1 DEF Digits

(* Two digits of one value are one digit. *)
LEMMA DigitsApart == \A c, d \in Digits : DigitValue(c) = DigitValue(d) => c = d
BY DEF Digits, DigitValue

(* The number of a run of digits is the last value of the count along it. *)
LEMMA NumberIs ==
  ASSUME NEW x \in Seq(Digits)
  PROVE  /\ \E f : /\ Number(x) = f[Len(x)] /\ f[0] = 0 /\ f \in [0 .. Len(x) -> Nat]
                   /\ \A n \in 1 .. Len(x) : f[n] = 10 * f[n - 1] + DigitValue(x[n])
<1> DEFINE N == Len(x)
           Solves(h, n) == h = [i \in 0 .. n |-> IF i = 0 THEN 0 ELSE 10 * h[i - 1] + DigitValue(x[i])]
           S == {n \in 0 .. N : \E h : h \in [0 .. n -> Nat] /\ Solves(h, n)}
<1>0. N \in Nat /\ \A i \in 1 .. N : DigitValue(x[i]) \in Nat
  BY DigitIs
<1>1. 0 \in S
  <2> DEFINE h == [i \in 0 .. 0 |-> 0]
  <2>1. h = [i \in 0 .. 0 |-> IF i = 0 THEN 0 ELSE 10 * h[i - 1] + DigitValue(x[i])] /\ h \in [0 .. 0 -> Nat]
    OBVIOUS
  <2>2. Solves(h, 0) /\ h \in [0 .. 0 -> Nat] /\ 0 \in 0 .. N
    BY <1>0, <2>1
  <2> HIDE DEF h, Solves
  <2> QED BY <2>2
<1>2. ASSUME NEW n \in 0 .. N - 1, n \in S PROVE n + 1 \in S
  <2>1. PICK h : h \in [0 .. n -> Nat] /\ Solves(h, n)
    BY <1>2
  <2> DEFINE g == [i \in 0 .. n + 1 |-> IF i = n + 1 THEN 10 * h[n] + DigitValue(x[n + 1]) ELSE h[i]]
  <2>0. n \in Nat /\ n + 1 \in 1 .. N /\ n + 1 \in 0 .. N /\ n + 1 # 0 /\ (n + 1) - 1 = n
    BY <1>0
  <2>2. \A i \in 0 .. n : h[i] = IF i = 0 THEN 0 ELSE 10 * h[i - 1] + DigitValue(x[i])
    BY <2>1
  <2>3. \A i \in 0 .. n + 1 : g[i] = IF i = 0 THEN 0 ELSE 10 * g[i - 1] + DigitValue(x[i])
    BY <2>0, <2>2
  <2>4. g \in [0 .. n + 1 -> Nat]
    <3>1. DigitValue(x[n + 1]) \in Nat
      BY <1>0, <2>0
    <3> QED BY <2>0, <2>1, <3>1
  <2>5. Solves(g, n + 1)
    <3>1. g = [i \in 0 .. n + 1 |-> g[i]]
      OBVIOUS
    <3> HIDE DEF g
    <3> QED BY <2>3, <3>1
  <2> HIDE DEF g, Solves
  <2> QED BY <2>0, <2>4, <2>5
<1>3. \E h : h \in [0 .. N -> Nat] /\ Solves(h, N)
  <2>1. S \in SUBSET Nat
    BY <1>0
  <2> HIDE DEF S
  <2>2. N \in S
    BY <1>0, <1>1, <1>2, <2>1, Reached
  <2> QED BY <2>2 DEF S
<1> DEFINE f == CHOOSE g : Solves(g, N)
<1>4. Number(x) = f[N]
  BY DEF Number
<1>5. Solves(f, N)
  <2> HIDE DEF Solves
  <2> QED BY <1>3
<1>6. \A i \in 0 .. N : f[i] = IF i = 0 THEN 0 ELSE 10 * f[i - 1] + DigitValue(x[i])
  <2> HIDE DEF f
  <2> QED BY <1>5
<1>7. f \in [0 .. N -> Nat]
  <2>1. PICK h : h \in [0 .. N -> Nat] /\ Solves(h, N)
    BY <1>3
  <2>2. \A i \in 0 .. N : h[i] = IF i = 0 THEN 0 ELSE 10 * h[i - 1] + DigitValue(x[i])
    BY <2>1
  <2> HIDE DEF f, Solves
  <2> DEFINE T == {n \in 0 .. N : f[n] = h[n]}
  <2>3. T \in SUBSET Nat /\ 0 \in T
    BY <1>0, <1>6, <2>2
  <2>4. ASSUME NEW n \in 0 .. N - 1, n \in T PROVE n + 1 \in T
    <3>1. n + 1 \in 0 .. N /\ n + 1 # 0 /\ (n + 1) - 1 = n
      BY <1>0
    <3> QED BY <1>6, <2>2, <2>4, <3>1
  <2>5. \A n \in 0 .. N : n \in T
    <3> TAKE n \in 0 .. N
    <3>1. n \in Nat /\ 0 .. n - 1 \subseteq 0 .. N - 1
      BY <1>0
    <3> HIDE DEF T
    <3> QED BY <2>3, <2>4, <3>1, Reached
  <2>6. f = [i \in 0 .. N |-> f[i]]
    BY <1>5 DEF Solves
  <2> QED BY <2>1, <2>5, <2>6
<1> HIDE DEF f, Solves, S
<1>8. f[0] = 0 /\ \A n \in 1 .. N : f[n] = 10 * f[n - 1] + DigitValue(x[n])
  <2>1. 0 \in 0 .. N /\ \A n \in 1 .. N : n \in 0 .. N /\ n # 0
    BY <1>0
  <2> QED BY <1>6, <2>1
<1> QED BY <1>4, <1>7, <1>8

(* f counts up the digits of x: the value of each prefix from the one before. *)
Counts(x, f) == /\ f[0] = 0 /\ f \in [0 .. Len(x) -> Nat]
                /\ \A n \in 1 .. Len(x) : f[n] = 10 * f[n - 1] + DigitValue(x[n])

(* The count along a run of digits, as a fact to pick. *)
LEMMA NumberCounts ==
  ASSUME NEW x \in Seq(Digits)
  PROVE  \E f : Counts(x, f) /\ Number(x) = f[Len(x)]
BY NumberIs DEF Counts

(* A prefix that is ahead stays ahead as long as both go on. *)
LEMMA AheadStays ==
  ASSUME NEW x \in Seq(Digits), NEW y \in Seq(Digits), NEW f, NEW g, Counts(x, f), Counts(y, g),
         NEW i \in 0 .. Len(x), NEW j \in 0 .. Len(y), Len(x) - i = Len(y) - j, f[i] < g[j]
  PROVE  f[Len(x)] < g[Len(y)]
<1> DEFINE M == Len(x) - i
           S == {m \in 0 .. M : f[i + m] < g[j + m]}
<1>0. Len(x) \in Nat /\ Len(y) \in Nat /\ i \in Nat /\ j \in Nat /\ M \in Nat
      /\ Len(x) = i + M /\ Len(y) = j + M /\ S \in SUBSET Nat
  OBVIOUS
<1>1. 0 \in S
  OBVIOUS
<1>2. ASSUME NEW m \in 0 .. M - 1, m \in S PROVE m + 1 \in S
  <2>1. /\ i + m + 1 \in 1 .. Len(x) /\ (i + m + 1) - 1 = i + m /\ i + m \in 0 .. Len(x) /\ i + (m + 1) = i + m + 1
        /\ j + m + 1 \in 1 .. Len(y) /\ (j + m + 1) - 1 = j + m /\ j + m \in 0 .. Len(y) /\ j + (m + 1) = j + m + 1
        /\ m + 1 \in 0 .. M
    BY <1>0
  <2>2. f[i + m + 1] = 10 * f[i + m] + DigitValue(x[i + m + 1]) /\ g[j + m + 1] = 10 * g[j + m] + DigitValue(y[j + m + 1])
    BY <2>1 DEF Counts
  <2>3. DigitValue(x[i + m + 1]) \in 0 .. 9 /\ DigitValue(y[j + m + 1]) \in 0 .. 9
    <3>1. x[i + m + 1] \in Digits /\ y[j + m + 1] \in Digits
      BY <2>1
    <3> QED BY <3>1, DigitIs
  <2>4. f[i + m] \in Nat /\ g[j + m] \in Nat /\ f[i + m] < g[j + m]
    BY <1>2, <2>1 DEF Counts
  <2>5. \A u, v \in Nat : \A a, b \in 0 .. 9 : u < v => 10 * u + a < 10 * v + b
    OBVIOUS
  <2>6. f[i + m + 1] < g[j + m + 1]
    BY <2>2, <2>3, <2>4, <2>5
  <2> QED BY <2>1, <2>6
<1> HIDE DEF S
<1>3. M \in S
  BY <1>0, <1>1, <1>2, Reached
<1> QED BY <1>0, <1>3 DEF S

(* Of two numbers without leading zeros the one with more digits is larger. *)
LEMMA ShorterIsLess ==
  ASSUME NEW x \in Seq(Digits), NEW y \in Seq(Digits), Len(x) < Len(y), y[1] # "0"
  PROVE  Number(x) < Number(y)
<1>1. PICK f : Counts(x, f) /\ Number(x) = f[Len(x)]
  BY NumberCounts
<1>2. PICK g : Counts(y, g) /\ Number(y) = g[Len(y)]
  BY NumberCounts
<1> DEFINE N == Len(y)
           S == {n \in 0 .. N : n > 0 => g[n] > 0}
<1>3. N \in Nat /\ Len(x) \in Nat /\ N > 0 /\ S \in SUBSET Nat /\ 0 \in S
  OBVIOUS
<1>4. ASSUME NEW n \in 0 .. N - 1, n \in S PROVE n + 1 \in S
  <2>1. n + 1 \in 1 .. N /\ (n + 1) - 1 = n /\ n \in 0 .. N /\ n + 1 \in 0 .. N
    BY <1>3
  <2>2. g[n + 1] = 10 * g[n] + DigitValue(y[n + 1]) /\ g[n] \in Nat
    BY <1>2, <2>1 DEF Counts
  <2>3. DigitValue(y[n + 1]) \in 0 .. 9 /\ (DigitValue(y[n + 1]) = 0 <=> y[n + 1] = "0")
    BY <2>1, DigitIs
  <2>4. n = 0 => g[n + 1] > 0
    <3>1. n = 0 => DigitValue(y[n + 1]) # 0
      BY <2>3
    <3> QED BY <2>2, <2>3, <3>1
  <2>5. n > 0 => g[n + 1] > 0
    BY <1>4, <2>2, <2>3
  <2> QED BY <2>1, <2>4, <2>5
<1> DEFINE d == N - Len(x)
<1>5. d \in 1 .. N /\ g[d] > 0
  <2>1. d \in Nat /\ d > 0 /\ d \in 1 .. N /\ 0 .. d - 1 \subseteq 0 .. N - 1
    BY <1>3
  <2> HIDE DEF S, d
  <2>2. d \in S
    BY <1>3, <1>4, <2>1, Reached
  <2> QED BY <2>1, <2>2 DEF S
<1>6. f[0] < g[d] /\ 0 \in 0 .. Len(x) /\ d \in 0 .. N /\ Len(x) - 0 = N - d
  BY <1>1, <1>3, <1>5 DEF Counts
<1> HIDE DEF d
<1>7. f[Len(x)] < g[N]
  BY <1>1, <1>2, <1>6, AheadStays
<1> QED BY <1>1, <1>2, <1>7

(* Of two numbers of as many digits the first digit that differs decides. *)
LEMMA FirstDecides ==
  ASSUME NEW x \in Seq(Digits), NEW y \in Seq(Digits), Len(x) = Len(y), NEW p \in 1 .. Len(x),
         \A i \in 1 .. p - 1 : x[i] = y[i], DigitValue(x[p]) < DigitValue(y[p])
  PROVE  Number(x) < Number(y)
<1>1. PICK f : Counts(x, f) /\ Number(x) = f[Len(x)]
  BY NumberCounts
<1>2. PICK g : Counts(y, g) /\ Number(y) = g[Len(y)]
  BY NumberCounts
<1> DEFINE N == Len(x)
           S == {n \in 0 .. N : f[n] = g[n]}
<1>3. N \in Nat /\ p \in Nat /\ p - 1 \in 0 .. N /\ p - 1 \in Nat /\ Len(y) = N
  OBVIOUS
<1>4. S \in SUBSET Nat /\ 0 \in S
  BY <1>1, <1>2, <1>3 DEF Counts
<1>5. ASSUME NEW n \in 0 .. (p - 1) - 1, n \in S PROVE n + 1 \in S
  <2>1. n + 1 \in 1 .. N /\ (n + 1) - 1 = n /\ n + 1 \in 0 .. N /\ n + 1 \in 1 .. p - 1
    BY <1>3
  <2>2. f[n + 1] = 10 * f[n] + DigitValue(x[n + 1]) /\ g[n + 1] = 10 * g[n] + DigitValue(y[n + 1]) /\ x[n + 1] = y[n + 1]
    BY <1>1, <1>2, <1>3, <2>1 DEF Counts
  <2> QED BY <1>5, <2>1, <2>2
<1>6. f[p - 1] = g[p - 1] /\ f[p - 1] \in Nat
  <2> HIDE DEF S
  <2>1. p - 1 \in S
    BY <1>3, <1>4, <1>5, Reached
  <2> QED BY <1>1, <1>3, <2>1 DEF S, Counts
<1>7. f[p] = 10 * f[p - 1] + DigitValue(x[p]) /\ g[p] = 10 * g[p - 1] + DigitValue(y[p])
  BY <1>1, <1>2, <1>3 DEF Counts
<1>8. DigitValue(x[p]) \in 0 .. 9 /\ DigitValue(y[p]) \in 0 .. 9
  BY <1>3, DigitIs
<1>9. f[p] < g[p] /\ p \in 0 .. N
  <2>1. \A u \in Nat : \A a, b \in 0 .. 9 : a < b => 10 * u + a < 10 * u + b
    OBVIOUS
  <2>2. 10 * f[p - 1] + DigitValue(x[p]) < 10 * f[p - 1] + DigitValue(y[p])
    BY <1>6, <1>8, <2>1
  <2> QED BY <1>3, <1>6, <1>7, <2>2
<1>10. f[Len(x)] < g[Len(y)]
  BY <1>1, <1>2, <1>3, <1>9, AheadStays
<1> QED BY <1>1, <1>2, <1>10

(* Leading zeros do not count. *)
LEMMA ZerosDrop ==
  ASSUME NEW d \in Seq(Digits), NEW z \in 1 .. Len(d) + 1, \A i \in 1 .. z - 1 : d[i] = "0"
  PROVE  Number(d) = Number(From(d, z))
<1> DEFINE x == From(d, z)
<1>0. /\ x \in Seq(Digits) /\ Len(x) = Len(d) - z + 1
      /\ \A i \in 1 .. Len(d) - z + 1 : x[i] = d[z + i - 1]
  BY FromIs
<1> HIDE DEF x
<1>1. PICK f : Counts(d, f) /\ Number(d) = f[Len(d)]
  BY NumberCounts
<1>2. PICK g : Counts(x, g) /\ Number(x) = g[Len(x)]
  BY <1>0, NumberCounts
<1> DEFINE k == z - 1
           N == Len(x)
           S == {n \in 0 .. k : f[n] = 0}
           T == {n \in 0 .. N : f[k + n] = g[n]}
<1>3. k \in Nat /\ Len(d) \in Nat /\ N \in Nat /\ Len(d) = k + N
  BY <1>0
<1>4. k \in S
  <2>1. S \in SUBSET Nat /\ 0 \in S
    BY <1>1, <1>3 DEF Counts
  <2>2. ASSUME NEW n \in 0 .. k - 1, n \in S PROVE n + 1 \in S
    <3>1. n + 1 \in 1 .. Len(d) /\ (n + 1) - 1 = n /\ n + 1 \in 0 .. k /\ n + 1 \in 1 .. z - 1
      BY <1>3
    <3>2. f[n + 1] = 10 * f[n] + DigitValue(d[n + 1]) /\ d[n + 1] = "0"
      BY <1>1, <3>1 DEF Counts
    <3>3. DigitValue("0") = 0
      BY DEF DigitValue
    <3> QED BY <2>2, <3>1, <3>2, <3>3
  <2> HIDE DEF S, k
  <2> QED BY <1>3, <2>1, <2>2, Reached
<1>5. N \in T
  <2>1. T \in SUBSET Nat /\ 0 \in T
    BY <1>2, <1>3, <1>4 DEF Counts
  <2>2. ASSUME NEW n \in 0 .. N - 1, n \in T PROVE n + 1 \in T
    <3>1. /\ n + 1 \in 1 .. N /\ (n + 1) - 1 = n /\ n + 1 \in 0 .. N
          /\ k + n + 1 \in 1 .. Len(d) /\ (k + n + 1) - 1 = k + n /\ k + (n + 1) = k + n + 1 /\ z + (n + 1) - 1 = k + n + 1
      BY <1>3
    <3>2. x[n + 1] = d[k + n + 1]
      BY <1>0, <3>1
    <3>3. f[k + n + 1] = 10 * f[k + n] + DigitValue(d[k + n + 1]) /\ g[n + 1] = 10 * g[n] + DigitValue(x[n + 1])
      BY <1>1, <1>2, <3>1 DEF Counts
    <3> QED BY <2>2, <3>1, <3>2, <3>3
  <2> HIDE DEF T, N
  <2> QED BY <1>3, <2>1, <2>2, Reached
<1> QED BY <1>1, <1>2, <1>3, <1>5 DEF x

(* The digits at the head, with and without their leading zeros. *)
LEMMA RunIs ==
  ASSUME NEW V, NEW d \in Seq(V)
  PROVE  LET left == SkipZeros(d)
             x == LeadingDigits(left)
             run == LeadingDigits(d)
         IN  /\ left \in Seq(V)
             /\ x \in Seq(Digits) /\ (x # <<>> => x[1] # "0") /\ Len(x) <= Len(run)
             /\ run \in Seq(Digits) /\ Number(run) = Number(x) /\ Len(run) <= Len(d)
             /\ From(left, Len(x) + 1) = From(d, Len(run) + 1)
             /\ d # <<>> /\ d[1] \in Digits => Len(run) > 0
<1> DEFINE z == StopAt(d, {"0"})
           left == SkipZeros(d)
           m == StopAt(left, Digits)
           x == LeadingDigits(left)
           p == StopAt(d, Digits)
           run == LeadingDigits(d)
<1>1. Len(d) \in Nat /\ z \in 1 .. Len(d) + 1 /\ (\A i \in 1 .. z - 1 : d[i] = "0") /\ (z <= Len(d) => d[z] # "0")
  BY StopIs
<1> HIDE DEF z
<1>2. left \in Seq(V) /\ Len(left) = Len(d) - z + 1 /\ (\A i \in 1 .. Len(d) - z + 1 : left[i] = d[z + i - 1])
  BY <1>1, FromIs DEF SkipZeros, z
<1> HIDE DEF left
<1>3. m \in 1 .. Len(left) + 1 /\ (\A i \in 1 .. m - 1 : left[i] \in Digits) /\ (m <= Len(left) => left[m] \notin Digits)
  BY <1>2, StopIs
<1> HIDE DEF m
<1>4. x \in Seq(Digits) /\ Len(x) = m - 1 /\ \A i \in 1 .. m - 1 : x[i] = left[i]
  BY <1>2, LeadingIs DEF m
<1> HIDE DEF x
<1>5. /\ p \in 1 .. Len(d) + 1 /\ (p <= Len(d) => d[p] \notin Digits)
      /\ \A q \in 1 .. Len(d) + 1 :
              (\A i \in 1 .. q - 1 : d[i] \in Digits) /\ (q <= Len(d) => d[q] \notin Digits) => q = p
  BY StopIs
<1> HIDE DEF p
<1>6. run \in Seq(Digits) /\ Len(run) = p - 1 /\ \A i \in 1 .. p - 1 : run[i] = d[i]
  BY LeadingIs DEF p
<1> HIDE DEF run
<1>7. p = z + m - 1
  <2> DEFINE q == z + m - 1
  <2>1. q \in 1 .. Len(d) + 1
    BY <1>1, <1>2, <1>3
  <2>2. \A i \in 1 .. q - 1 : d[i] \in Digits
    <3> TAKE i \in 1 .. q - 1
    <3>1. CASE i \in 1 .. z - 1
      BY <1>1, <3>1 DEF Digits
    <3>2. CASE i \notin 1 .. z - 1
      <4>1. i - z + 1 \in 1 .. m - 1 /\ i - z + 1 \in 1 .. Len(d) - z + 1 /\ z + (i - z + 1) - 1 = i
        BY <1>1, <1>2, <1>3, <3>2
      <4> QED BY <1>2, <1>3, <4>1
    <3> QED BY <3>1, <3>2
  <2>3. q <= Len(d) => d[q] \notin Digits
    <3>1. q <= Len(d) => m <= Len(left) /\ m \in 1 .. Len(d) - z + 1
      BY <1>1, <1>2, <1>3
    <3> QED BY <1>2, <1>3, <3>1
  <2> HIDE DEF q
  <2>4. q = p
    BY <1>5, <2>1, <2>2, <2>3
  <2> QED BY <2>4 DEF q
<1>8. x # <<>> => x[1] # "0"
  <2> SUFFICES ASSUME x # <<>> PROVE x[1] # "0"
    OBVIOUS
  <2>1. m > 1
    BY <1>3, <1>4
  <2>2. x[1] = left[1] /\ left[1] = d[z] /\ z <= Len(d)
    BY <1>1, <1>2, <1>3, <1>4, <2>1
  <2> QED BY <1>1, <2>2
<1>9. Number(run) = Number(x)
  <2> DEFINE y == From(run, z)
  <2>1. z \in 1 .. Len(run) + 1
    BY <1>1, <1>3, <1>6, <1>7
  <2>2. y \in Seq(Digits) /\ Len(y) = Len(run) - z + 1 /\ \A i \in 1 .. Len(run) - z + 1 : y[i] = run[z + i - 1]
    BY <1>6, <2>1, FromIs
  <2>3. \A i \in 1 .. z - 1 : run[i] = "0"
    BY <1>1, <1>3, <1>6, <1>7, SMTT(30)
  <2>4. Number(run) = Number(y)
    BY <1>6, <2>1, <2>3, ZerosDrop
  <2> HIDE DEF y
  <2>5. Len(y) = Len(x)
    BY <1>1, <1>3, <1>4, <1>6, <1>7, <2>2
  <2>6. \A i \in 1 .. Len(y) : y[i] = x[i]
    <3> TAKE i \in 1 .. Len(y)
    <3>1. /\ i \in 1 .. Len(run) - z + 1 /\ z + i - 1 \in 1 .. p - 1 /\ i \in 1 .. m - 1 /\ i \in 1 .. Len(d) - z + 1
      BY <1>1, <1>2, <1>3, <1>4, <1>6, <1>7, <2>2
    <3> QED BY <1>2, <1>4, <1>6, <2>2, <3>1
  <2>7. y = x
    BY <1>4, <2>2, <2>5, <2>6, SeqEqual
  <2> QED BY <2>4, <2>7
<1>10. From(left, Len(x) + 1) = From(d, Len(run) + 1)
  <2>1. left = From(d, z) /\ Len(x) + 1 = m /\ Len(run) + 1 = z + m - 1
    BY <1>1, <1>3, <1>4, <1>6, <1>7 DEF left, SkipZeros, z
  <2>2. m \in 1 .. Len(d) - z + 2
    BY <1>1, <1>2, <1>3
  <2>3. From(From(d, z), m) = From(d, z + m - 1)
    BY <1>1, <2>2, FromFrom
  <2> QED BY <2>1, <2>3
<1>11. d # <<>> /\ d[1] \in Digits => Len(run) > 0
  <2>1. d # <<>> => Len(d) >= 1
    OBVIOUS
  <2> QED BY <1>1, <1>5, <1>6, <2>1
<1>12. Len(x) <= Len(run) /\ Len(run) <= Len(d)
  BY <1>1, <1>3, <1>4, <1>5, <1>6, <1>7
<1> QED BY <1>2, <1>4, <1>6, <1>8, <1>9, <1>10, <1>11, <1>12 DEF left, x, run

(* The policy ranks each character that is no digit by a whole number. *)
LEMMA RankIs == \A c \in DOMAIN Code : Rank(c) \in Int
BY DEF Code, Rank

(* A known character is something, and either a digit or one of Code. *)
LEMMA KnownApart == \A c \in Known : c # Nothing /\ (c \in DOMAIN Code <=> c \notin Digits)
BY DEF Known, Code, Digits, Nothing

(* One round of weigh: the digits after the non-digits at the head, what is left, the weights of both. *)
FirstRun(p) == LeadingDigits(From(p, Len(LeadingText(p)) + 1))
After(p) == From(p, Len(LeadingText(p)) + Len(FirstRun(p)) + 1)
Block(p) == [j \in DOMAIN LeadingText(p) |-> Rank(LeadingText(p)[j])] \o <<0, Number(FirstRun(p))>>

(* The number of any run of digits is a natural one. *)
LEMMA NumberIsNat == \A x \in Seq(Digits) : Number(x) \in Nat
<1> TAKE x \in Seq(Digits)
<1>1. PICK f : Counts(x, f) /\ Number(x) = f[Len(x)]
  BY NumberCounts
<1>2. Len(x) \in 0 .. Len(x)
  OBVIOUS
<1> QED BY <1>1, <1>2 DEF Counts

(* One round of weigh: how long its text and its digits are, what is left, and the weights it adds. *)
LEMMA BlockIs ==
  ASSUME NEW V, NEW p \in Seq(V)
  PROVE  LET t == StopAt(p, DOMAIN Code) - 1
             d == From(p, t + 1)
             run == LeadingDigits(d)
         IN  /\ t \in 0 .. Len(p) /\ d \in Seq(V) /\ Len(LeadingText(p)) = t /\ FirstRun(p) = run
             /\ run \in Seq(Digits)
             /\ After(p) = From(d, Len(run) + 1) /\ After(p) \in Seq(V) /\ Len(After(p)) = Len(p) - t - Len(run)
             /\ Block(p) \in Seq(Int) /\ Len(Block(p)) = t + 2
             /\ \A j \in 1 .. t : Block(p)[j] = Rank(p[j])
             /\ Block(p)[t + 1] = 0 /\ Block(p)[t + 2] = Number(run)
             /\ V = Known /\ p # <<>> => Len(After(p)) < Len(p)
<1> DEFINE t == StopAt(p, DOMAIN Code) - 1
           text == LeadingText(p)
           d == From(p, t + 1)
           run == LeadingDigits(d)
           ranks == [j \in DOMAIN text |-> Rank(text[j])]
<1>1. Len(p) \in Nat /\ t \in 0 .. Len(p) /\ (\A i \in 1 .. t : p[i] \in DOMAIN Code) /\ (t + 1 <= Len(p) => p[t + 1] \notin DOMAIN Code)
  <2> DEFINE u == StopAt(p, DOMAIN Code)
  <2>1. u \in 1 .. Len(p) + 1 /\ (\A i \in 1 .. u - 1 : p[i] \in DOMAIN Code) /\ (u <= Len(p) => p[u] \notin DOMAIN Code)
    BY StopIs
  <2> HIDE DEF u
  <2>2. t = u - 1 /\ t + 1 = u
    BY <2>1 DEF u
  <2> HIDE DEF t
  <2> QED BY <2>1, <2>2
<1>2. text = SubSeq(p, 1, t)
  BY DEF LeadingText
<1> HIDE DEF t, text
<1>3. text \in Seq(V) /\ Len(text) = t /\ DOMAIN text = 1 .. t /\ \A i \in 1 .. t : text[i] = p[i]
  BY <1>1, <1>2
<1>4. t + 1 \in 1 .. Len(p) + 1 /\ d \in Seq(V) /\ Len(d) = Len(p) - t /\ \A i \in 1 .. Len(p) - t : d[i] = p[t + i]
  <2>1. t + 1 \in 1 .. Len(p) + 1
    BY <1>1
  <2>2. d \in Seq(V) /\ Len(d) = Len(p) - (t + 1) + 1 /\ \A i \in 1 .. Len(p) - (t + 1) + 1 : d[i] = p[(t + 1) + i - 1]
    BY <2>1, FromIs
  <2>3. Len(p) - (t + 1) + 1 = Len(p) - t /\ \A i \in 1 .. Len(p) - t : (t + 1) + i - 1 = t + i
    BY <1>1
  <2> HIDE DEF d
  <2> QED BY <2>1, <2>2, <2>3
<1>5. FirstRun(p) = run
  BY <1>3 DEF FirstRun, text
<1>6. run \in Seq(Digits) /\ Len(run) \in 0 .. Len(d) /\ (d # <<>> /\ d[1] \in Digits => Len(run) > 0)
  <2> HIDE DEF d
  <2>1. run \in Seq(Digits) /\ Len(run) <= Len(d) /\ (d # <<>> /\ d[1] \in Digits => Len(run) > 0)
    BY <1>4, RunIs
  <2> QED BY <1>4, <2>1
<1> HIDE DEF run
<1>7. After(p) = From(d, Len(run) + 1) /\ After(p) \in Seq(V) /\ Len(After(p)) = Len(p) - t - Len(run)
  <2> DEFINE k == Len(run) + 1
  <2>1. After(p) = From(p, t + Len(run) + 1)
    BY <1>3, <1>5 DEF After, text
  <2>2. k \in 1 .. Len(p) - (t + 1) + 2 /\ (t + 1) + k - 1 = t + Len(run) + 1 /\ k \in 1 .. Len(d) + 1
    BY <1>1, <1>4, <1>6
  <2> HIDE DEF k
  <2>3. From(From(p, t + 1), k) = From(p, (t + 1) + k - 1)
    BY <1>4, <2>2, FromFrom
  <2>4. From(d, k) \in Seq(V) /\ Len(From(d, k)) = Len(d) - k + 1
    <3> HIDE DEF d
    <3> QED BY <1>4, <2>2, FromIs
  <2>5. d = From(p, t + 1)
    OBVIOUS
  <2> HIDE DEF d
  <2>6. After(p) = From(d, k)
    BY <2>1, <2>2, <2>3, <2>5
  <2>7. Len(d) - k + 1 = Len(p) - t - Len(run)
    BY <1>1, <1>4, <1>6 DEF k
  <2> QED BY <2>4, <2>6, <2>7 DEF k
<1>8. Number(run) \in Nat
  BY <1>6, NumberIsNat
<1>9. ranks \in Seq(Int) /\ Len(ranks) = t /\ \A j \in 1 .. t : ranks[j] = Rank(p[j])
  <2>1. ranks = [j \in 1 .. t |-> Rank(text[j])]
    BY <1>3
  <2>2. \A j \in 1 .. t : Rank(text[j]) = Rank(p[j]) /\ Rank(text[j]) \in Int
    BY <1>1, <1>3, RankIs
  <2> HIDE DEF ranks
  <2> QED BY <1>1, <2>1, <2>2
<1>10. Block(p) = ranks \o <<0, Number(run)>>
  BY <1>5 DEF Block, text
<1> HIDE DEF ranks
<1>11. /\ Block(p) \in Seq(Int) /\ Len(Block(p)) = t + 2
       /\ \A j \in 1 .. t : Block(p)[j] = Rank(p[j])
       /\ Block(p)[t + 1] = 0 /\ Block(p)[t + 2] = Number(run)
  <2> DEFINE b == <<0, Number(run)>>
  <2>1. b \in Seq(Int) /\ Len(b) = 2 /\ b[1] = 0 /\ b[2] = Number(run)
    BY <1>8
  <2> HIDE DEF b
  <2>2. /\ ranks \o b \in Seq(Int) /\ Len(ranks \o b) = Len(ranks) + Len(b)
        /\ \A i \in 1 .. Len(ranks) : (ranks \o b)[i] = ranks[i]
        /\ \A i \in 1 .. Len(b) : (ranks \o b)[Len(ranks) + i] = b[i]
    <3>1. ranks \in Seq(Int) /\ b \in Seq(Int)
      BY <1>9, <2>1
    <3> QED BY <3>1, Joined
  <2> QED BY <1>9, <1>10, <2>1, <2>2 DEF b
<1>12. V = Known /\ p # <<>> => Len(After(p)) < Len(p)
  <2> SUFFICES ASSUME V = Known, p # <<>>, t = 0 PROVE Len(run) > 0
    BY <1>1, <1>6, <1>7
  <2>1. Len(p) >= 1 /\ p[1] \in Known
    OBVIOUS
  <2>2. d[1] = p[1] /\ d # <<>> /\ p[1] \notin DOMAIN Code
    BY <1>1, <1>4, <2>1
  <2>3. d[1] \in Digits
    BY <2>1, <2>2, KnownApart
  <2> QED BY <1>6, <2>2, <2>3
<1> QED BY <1>1, <1>3, <1>4, <1>5, <1>6, <1>7, <1>11, <1>12 DEF t, text, run

(* weigh: a round after another, whether or not they end. *)
Weighings == Parts \X Seq(Int)

(* weigh is its rounds. *)
LEMMA WeighIs ==
  \A w \in Weighings : weigh[w] = IF w[1] = <<>> THEN w[2] ELSE weigh[<<After(w[1]), w[2] \o Block(w[1])>>]
<1> DEFINE W == Weighings
           next(w) == <<After(w[1]), w[2] \o Block(w[1])>>
           Solves(g) == g = [w \in W |-> IF w[1] = <<>> THEN w[2] ELSE g[next(w)]]
           end == {w \in W : w[1] = <<>>}
           out == [w \in W |-> w[2]]
           Y == Seq(Int)
           step == [w \in W |-> IF w \in end THEN w ELSE next(w)]
           v == CHOOSE g : Solves(g)
<1>1. step \in [W -> W]
  <2>1. ASSUME NEW w \in W PROVE next(w) \in W
    <3>1. w[1] \in Seq(Known) /\ w[2] \in Seq(Int)
      BY DEF Weighings, Parts
    <3>2. After(w[1]) \in Seq(Known) /\ Block(w[1]) \in Seq(Int)
      BY <3>1, BlockIs
    <3>3. w[2] \o Block(w[1]) \in Seq(Int)
      BY <3>1, <3>2
    <3> QED BY <3>2, <3>3 DEF Weighings, Parts
  <2> HIDE DEF W, next
  <2> QED BY <2>1
<1>2. out \in [W -> Y]
  BY DEF Weighings
<1>3. \E g : Solves(g)
  <2>1. PICK g : Recurs(g, W, end, step, out)
    <3>1. end \in SUBSET W
      OBVIOUS
    <3> HIDE DEF W, end, out, step, Y
    <3> QED BY <3>1, <1>1, <1>2, TailRecursion
  <2>2. \A w \in W : (IF w \in end THEN out[w] ELSE g[step[w]]) = IF w[1] = <<>> THEN w[2] ELSE g[next(w)]
    <3> HIDE DEF W, next
    <3> QED OBVIOUS
  <2>3. g = [w \in W |-> IF w[1] = <<>> THEN w[2] ELSE g[next(w)]]
    <3> HIDE DEF W, end, out, step, next
    <3> QED BY <2>1, <2>2 DEF Recurs
  <2>4. Solves(g)
    BY <2>3
  <2> HIDE DEF Solves
  <2> QED BY <2>4
<1>4. weigh = v
  <2>1. \A g : Solves(g) <=>
               g = [w \in Parts \X Seq(Int) |->
                      IF w[1] = <<>> THEN w[2]
                      ELSE LET text == LeadingText(w[1])
                               digits == LeadingDigits(From(w[1], Len(text) + 1))
                           IN  g[<<From(w[1], Len(text) + Len(digits) + 1),
                                   w[2] \o ([j \in DOMAIN text |-> Rank(text[j])] \o <<0, Number(digits)>>)>>]]
    BY DEF Weighings, After, Block, FirstRun
  <2> QED BY <2>1 DEF weigh
<1>5. Solves(v)
  <2> HIDE DEF Solves
  <2> QED BY <1>3
<1>6. \A w \in W : v[w] = IF w[1] = <<>> THEN w[2] ELSE v[next(w)]
  <2> HIDE DEF v, W, next
  <2> QED BY <1>5
<1> HIDE DEF v
<1> QED BY <1>4, <1>6

(* The weights of a part follow those before it. *)
LEMMA WeighAppends ==
  ASSUME NEW p \in Parts, NEW done \in Seq(Int)
  PROVE  Weights(p) \in Seq(Int) /\ weigh[<<p, done>>] = done \o Weights(p)
<1> DEFINE Appends(s) == Weights(s) \in Seq(Int) /\ \A d \in Seq(Int) : weigh[<<s, d>>] = d \o Weights(s)
           S == {Len(s) : s \in {u \in Parts : ~Appends(u)}}
<1>1. \A s \in Parts : Len(s) \in Nat
  BY DEF Parts
<1>2. S = {}
  <2> SUFFICES ASSUME S # {} PROVE FALSE
    OBVIOUS
  <2>1. PICK k \in S : \A m \in S : k <= m
    <3>1. S \in SUBSET Nat
      BY <1>1
    <3> HIDE DEF S
    <3> QED BY <3>1, LeastNumber
  <2>2. PICK s \in Parts : ~Appends(s) /\ Len(s) = k
    BY <2>1
  <2>3. \A u \in Parts : Len(u) < k => Appends(u)
    <3> SUFFICES ASSUME NEW u \in Parts, Len(u) < k, ~Appends(u) PROVE FALSE
      <4> HIDE DEF Appends
      <4> QED OBVIOUS
    <3>1. Len(u) \in S
      <4> HIDE DEF Appends
      <4> QED OBVIOUS
    <3>2. ~(k <= Len(u))
      BY <1>1, <2>2
    <3> HIDE DEF S
    <3> QED BY <2>1, <3>1, <3>2
  <2> HIDE DEF S
  <2>4. <<>> \in Seq(Int) /\ \A d \in Seq(Int) : d \o <<>> = d /\ <<>> \o d = d
    OBVIOUS
  <2>5. \A d \in Seq(Int) : weigh[<<s, d>>] = IF s = <<>> THEN d ELSE weigh[<<After(s), d \o Block(s)>>]
    <3> TAKE d \in Seq(Int)
    <3> DEFINE w == <<s, d>>
    <3>1. w \in Weighings /\ w[1] = s /\ w[2] = d
      BY <1>1 DEF Weighings
    <3> HIDE DEF w
    <3>2. weigh[w] = IF s = <<>> THEN d ELSE weigh[<<After(s), d \o Block(s)>>]
      BY <3>1, WeighIs
    <3> QED BY <3>2 DEF w
  <2>6. CASE s = <<>>
    <3>1. Weights(s) = <<>>
      BY <2>4, <2>5, <2>6 DEF Weights
    <3>2. Appends(s)
      BY <2>4, <2>5, <2>6, <3>1
    <3> QED BY <2>2, <3>2
  <2>7. CASE s # <<>>
    <3>1. After(s) \in Parts /\ Len(After(s)) < k /\ Block(s) \in Seq(Int)
      BY <2>2, <2>7, BlockIs DEF Parts
    <3>2. Weights(After(s)) \in Seq(Int) /\ \A d \in Seq(Int) : weigh[<<After(s), d>>] = d \o Weights(After(s))
      BY <2>3, <3>1
    <3> DEFINE B == Block(s)
               R == Weights(After(s))
    <3>3. B \in Seq(Int) /\ R \in Seq(Int)
      BY <3>1, <3>2
    <3>4. \A d \in Seq(Int) : weigh[<<s, d>>] = (d \o B) \o R
      <4> TAKE d \in Seq(Int)
      <4>1. d \o B \in Seq(Int)
        BY <3>3
      <4>2. weigh[<<s, d>>] = weigh[<<After(s), d \o B>>]
        BY <2>5, <2>7
      <4> HIDE DEF B, R
      <4>3. weigh[<<After(s), d \o B>>] = (d \o B) \o R
        BY <3>2, <4>1 DEF R
      <4> QED BY <4>2, <4>3
    <3> HIDE DEF B, R
    <3>5. Weights(s) = B \o R
      BY <2>4, <3>3, <3>4 DEF Weights
    <3>6. B \o R \in Seq(Int) /\ \A d \in Seq(Int) : (d \o B) \o R = d \o (B \o R)
      <4>1. B \o R \in Seq(Int)
        BY <3>3
      <4> QED BY <3>3, <4>1, ConcatAssociative, SMTT(30)
    <3>7. Appends(s)
      BY <3>4, <3>5, <3>6
    <3> QED BY <2>2, <3>7
  <2> QED BY <2>6, <2>7
<1>3. Appends(p)
  <2> SUFFICES ASSUME ~Appends(p) PROVE FALSE
    OBVIOUS
  <2> HIDE DEF Appends
  <2>1. Len(p) \in S
    OBVIOUS
  <2> HIDE DEF S
  <2> QED BY <1>2, <2>1
<1> QED BY <1>3

(* So the weights of a part are those of its first round and then those of what is left. *)
LEMMA WeightsIs ==
  ASSUME NEW p \in Parts
  PROVE  Weights(p) = IF p = <<>> THEN <<>> ELSE Block(p) \o Weights(After(p))
<1> DEFINE w == <<p, <<>> >>
<1>1. w \in Weighings /\ w[1] = p /\ w[2] = <<>> /\ <<>> \in Seq(Int)
  <2>1. <<>> \in Seq(Int)
    OBVIOUS
  <2> QED BY <2>1 DEF Weighings
<1> HIDE DEF w
<1>2. weigh[w] = IF p = <<>> THEN <<>> ELSE weigh[<<After(p), <<>> \o Block(p)>>]
  BY <1>1, WeighIs
<1>3. p # <<>> => After(p) \in Parts /\ Block(p) \in Seq(Int) /\ <<>> \o Block(p) = Block(p)
  <2>1. After(p) \in Parts /\ Block(p) \in Seq(Int)
    BY BlockIs DEF Parts
  <2> QED BY <2>1
<1>4. p # <<>> => weigh[<<After(p), Block(p)>>] = Block(p) \o Weights(After(p))
  BY <1>3, WeighAppends
<1> QED BY <1>2, <1>3, <1>4 DEF Weights, w

(* The weights of a part, as if they went on with zeros: at each place of its first round, and after it. *)
LEMMA PaddedIs ==
  ASSUME NEW p \in Parts
  PROVE  LET t == StopAt(p, DOMAIN Code) - 1
             W(j) == WeightAt(Weights(p), j)
         IN  /\ \A j \in Nat \ {0} : W(j) \in Int
             /\ \A j \in 1 .. t : W(j) = Rank(p[j])
             /\ W(t + 1) = 0 /\ W(t + 2) = Number(FirstRun(p))
             /\ \A j \in Nat \ {0} : W(t + 2 + j) = WeightAt(Weights(After(p)), j)
<1> DEFINE t == StopAt(p, DOMAIN Code) - 1
           W(j) == WeightAt(Weights(p), j)
<1>0. /\ t \in 0 .. Len(p) /\ Len(p) \in Nat /\ FirstRun(p) \in Seq(Digits)
      /\ After(p) \in Parts /\ Len(After(p)) = Len(p) - t - Len(FirstRun(p))
      /\ Block(p) \in Seq(Int) /\ Len(Block(p)) = t + 2
      /\ \A j \in 1 .. t : Block(p)[j] = Rank(p[j])
      /\ Block(p)[t + 1] = 0 /\ Block(p)[t + 2] = Number(FirstRun(p))
  <2>1. p \in Seq(Known)
    BY DEF Parts
  <2> DEFINE run == LeadingDigits(From(p, t + 1))
  <2>2. /\ t \in 0 .. Len(p) /\ FirstRun(p) = run /\ run \in Seq(Digits)
        /\ After(p) \in Seq(Known) /\ Len(After(p)) = Len(p) - t - Len(run)
        /\ Block(p) \in Seq(Int) /\ Len(Block(p)) = t + 2
        /\ \A j \in 1 .. t : Block(p)[j] = Rank(p[j])
        /\ Block(p)[t + 1] = 0 /\ Block(p)[t + 2] = Number(run)
    BY <2>1, BlockIs
  <2> HIDE DEF run, t
  <2> QED BY <2>1, <2>2 DEF Parts
<1> HIDE DEF t
<1>1. Weights(p) \in Seq(Int) /\ Weights(After(p)) \in Seq(Int)
  <2>1. <<>> \in Seq(Int)
    OBVIOUS
  <2> QED BY <1>0, <2>1, WeighAppends
<1>2. \A j \in Nat \ {0} : W(j) \in Int
  BY <1>1 DEF WeightAt
<1>3. CASE p = <<>>
  <2>1. Weights(p) = <<>> /\ t = 0 /\ Len(FirstRun(p)) \in Nat
    BY <1>0, <1>3, WeightsIs
  <2>2. After(p) = <<>> /\ FirstRun(p) = <<>>
    <3>1. Len(After(p)) \in Nat /\ Len(FirstRun(p)) \in Nat /\ Len(p) = 0
      BY <1>0, <1>3 DEF Parts
    <3>2. Len(After(p)) = 0 /\ Len(FirstRun(p)) = 0
      BY <1>0, <2>1, <3>1
    <3> QED BY <1>0, <3>2 DEF Parts
  <2>3. Number(FirstRun(p)) = 0
    <3>1. PICK f : Counts(FirstRun(p), f) /\ Number(FirstRun(p)) = f[Len(FirstRun(p))]
      BY <1>0, NumberCounts
    <3> QED BY <2>2, <3>1 DEF Counts
  <2>4. DOMAIN <<>> = {} /\ \A j : WeightAt(<<>>, j) = 0
    BY DEF WeightAt
  <2> QED BY <1>2, <1>3, <2>1, <2>2, <2>3, <2>4 DEF t
<1>4. CASE p # <<>>
  <2> DEFINE B == Block(p)
             R == Weights(After(p))
  <2>1. B \in Seq(Int) /\ R \in Seq(Int) /\ Len(B) = t + 2 /\ Weights(p) = B \o R
    BY <1>0, <1>1, <1>4, WeightsIs
  <2>2. \A j \in 1 .. t + 2 : B[j] = Block(p)[j]
    OBVIOUS
  <2>3. \A j \in Nat : WeightAt(R, j) = WeightAt(Weights(After(p)), j)
    OBVIOUS
  <2> HIDE DEF B, R
  <2>4. /\ Len(B \o R) = Len(B) + Len(R) /\ Len(R) \in Nat
        /\ \A i \in 1 .. Len(B) : (B \o R)[i] = B[i]
        /\ \A i \in 1 .. Len(R) : (B \o R)[Len(B) + i] = R[i]
        /\ DOMAIN R = 1 .. Len(R) /\ DOMAIN (B \o R) = 1 .. Len(B) + Len(R)
    <3>1. B \in Seq(Int) /\ R \in Seq(Int)
      BY <2>1
    <3>2. /\ B \o R \in Seq(Int) /\ Len(B \o R) = Len(B) + Len(R)
          /\ \A i \in 1 .. Len(B) : (B \o R)[i] = B[i]
          /\ \A i \in 1 .. Len(R) : (B \o R)[Len(B) + i] = R[i]
      BY <3>1, Joined
    <3> QED BY <3>1, <3>2
  <2>5. \A j \in 1 .. t + 2 : W(j) = Block(p)[j]
    BY <1>0, <2>1, <2>2, <2>4 DEF WeightAt
  <2>6. \A j \in Nat \ {0} : W(t + 2 + j) = WeightAt(R, j)
    <3> TAKE j \in Nat \ {0}
    <3>1. CASE j \in 1 .. Len(R)
      <4>1. t + 2 + j \in 1 .. Len(B) + Len(R) /\ t + 2 + j = Len(B) + j
        BY <1>0, <2>1, <2>4, <3>1
      <4> QED BY <2>1, <2>4, <3>1, <4>1 DEF WeightAt
    <3>2. CASE j \notin 1 .. Len(R)
      <4>1. t + 2 + j \notin 1 .. Len(B) + Len(R)
        BY <1>0, <2>1, <2>4, <3>2
      <4> QED BY <2>1, <2>4, <3>2, <4>1 DEF WeightAt
    <3> QED BY <3>1, <3>2
  <2>7. (\A j \in 1 .. t : j \in 1 .. t + 2) /\ t + 1 \in 1 .. t + 2 /\ t + 2 \in 1 .. t + 2
    BY <1>0
  <2>8. (\A j \in 1 .. t : W(j) = Rank(p[j])) /\ W(t + 1) = 0 /\ W(t + 2) = Number(FirstRun(p))
    BY <1>0, <2>5, <2>7
  <2>9. \A j \in Nat \ {0} : W(t + 2 + j) = WeightAt(Weights(After(p)), j)
    BY <2>3, <2>6
  <2> HIDE DEF W
  <2> QED BY <1>2, <2>8, <2>9 DEF t, W
<1> QED BY <1>3, <1>4

(* A place of a part holds a known character, or nothing beyond its end. *)
LEMMA CharIs ==
  ASSUME NEW p \in Parts, NEW j \in Nat \ {0}
  PROVE  /\ CharAt(p, j) \in Known \cup {Nothing} /\ (CharAt(p, j) = Nothing <=> j > Len(p))
         /\ j <= Len(p) => CharAt(p, j) = p[j] /\ p[j] \in Known
<1>1. Len(p) \in Nat /\ \A i \in 1 .. Len(p) : p[i] \in Known
  BY DEF Parts
<1>2. j <= Len(p) => j \in 1 .. Len(p)
  BY <1>1
<1>3. j <= Len(p) => CharAt(p, j) = p[j] /\ p[j] \in Known /\ p[j] # Nothing
  <2>1. j <= Len(p) => CharAt(p, j) = p[j]
    BY DEF CharAt
  <2> QED BY <1>1, <1>2, <2>1, KnownApart
<1>4. j > Len(p) => CharAt(p, j) = Nothing /\ ~(j <= Len(p))
  <2>1. j > Len(p) => ~(j <= Len(p))
    BY <1>1
  <2> QED BY <2>1 DEF CharAt
<1>5. j <= Len(p) \/ j > Len(p)
  BY <1>1
<1> QED BY <1>3, <1>4, <1>5

(* The round of verrevcmp parts two parts at a place both have or have just run out at. *)
LEMMA PartingIs ==
  ASSUME NEW a \in Parts, NEW b \in Parts
  PROVE  LET k == Parting(a, b) IN
         /\ k \in 1 .. Len(a) + 1 /\ k \in 1 .. Len(b) + 1
         /\ \A j \in 1 .. k - 1 : ~IsDigit(a[j]) /\ b[j] = a[j]
         /\ CharAt(a, k) # CharAt(b, k) \/ CharAt(a, k) = Nothing \/ IsDigit(CharAt(a, k))
<1> DEFINE Ends(k) == CharAt(a, k) # CharAt(b, k) \/ k > Len(a) \/ IsDigit(a[k])
           P(k) == (\A j \in 1 .. k - 1 : ~IsDigit(a[j]) /\ CharAt(b, j) = a[j]) /\ Ends(k)
           k == Parting(a, b)
           S == {n \in 1 .. Len(a) + 1 : Ends(n)}
<1>0. Len(a) \in Nat /\ Len(b) \in Nat
  BY DEF Parts
<1>1. PICK n \in S : \A m \in S : n <= m
  <2>1. S \in SUBSET Nat /\ Len(a) + 1 \in S
    BY <1>0
  <2> HIDE DEF S
  <2> QED BY <2>1, LeastNumber
<1>2. n \in 1 .. Len(a) + 1 /\ P(n)
  <2>1. ASSUME NEW j \in 1 .. n - 1 PROVE ~IsDigit(a[j]) /\ CharAt(b, j) = a[j]
    <3>1. j \in 1 .. Len(a) + 1 /\ j <= Len(a) /\ j \in Nat \ {0} /\ ~(n <= j)
      BY <1>0, <1>1
    <3>2. ~Ends(j)
      <4> HIDE DEF Ends
      <4>1. j \notin S
        BY <1>1, <3>1
      <4> QED BY <3>1, <4>1
    <3>3. CharAt(a, j) = a[j]
      BY <3>1 DEF CharAt
    <3> QED BY <3>2, <3>3
  <2> HIDE DEF Ends
  <2> QED BY <1>1, <2>1
<1>3. k \in 1 .. Len(a) + 1 /\ P(k)
  <2>1. k = CHOOSE m \in 1 .. Len(a) + 1 : P(m)
    BY DEF Parting
  <2> HIDE DEF k, P
  <2> QED BY <1>2, <2>1
<1> HIDE DEF k
<1>4. \A j \in 1 .. k - 1 : j <= Len(b)
  <2> SUFFICES ASSUME NEW j \in 1 .. k - 1, j > Len(b) PROVE FALSE
    BY <1>0, <1>3
  <2>1. j \in Nat \ {0} /\ j <= Len(a)
    BY <1>0, <1>3
  <2>2. CharAt(b, j) = Nothing /\ a[j] \in Known
    BY <2>1, CharIs
  <2> QED BY <1>3, <2>2, KnownApart
<1>5. k \in 1 .. Len(b) + 1
  <2>1. k > 1 => k - 1 <= Len(b)
    <3>1. k > 1 => k - 1 \in 1 .. k - 1
      BY <1>0, <1>3
    <3> QED BY <1>4, <3>1
  <2> QED BY <1>0, <1>3, <2>1
<1>6. \A j \in 1 .. k - 1 : ~IsDigit(a[j]) /\ b[j] = a[j]
  BY <1>3, <1>4 DEF CharAt
<1>7. CharAt(a, k) # CharAt(b, k) \/ CharAt(a, k) = Nothing \/ IsDigit(CharAt(a, k))
  <2>1. k \in Nat \ {0} /\ (k <= Len(a) => CharAt(a, k) = a[k])
    BY <1>0, <1>3 DEF CharAt
  <2>2. k > Len(a) => CharAt(a, k) = Nothing
    BY <2>1, CharIs
  <2>3. k <= Len(a) \/ k > Len(a)
    BY <1>0, <2>1
  <2> HIDE DEF P
  <2>4. CharAt(a, k) # CharAt(b, k) \/ k > Len(a) \/ IsDigit(a[k])
    BY <1>3 DEF P
  <2> QED BY <2>1, <2>2, <2>3, <2>4
<1> QED BY <1>3, <1>5, <1>6, <1>7 DEF k

(* The weight of a place: that of the character there, none at the end or where digits begin. *)
Place(c) == IF c = Nothing \/ IsDigit(c) THEN 0 ELSE Rank(c)

(* order sorts characters as the policy ranks them. *)
LEMMA OrderIs ==
  \A c, d \in Known \cup {Nothing} :
    /\ order(c) \in Int /\ Place(c) \in Int
    /\ order(c) < order(d) => Place(c) < Place(d)
    /\ order(c) = order(d) => c = d \/ (c \in Digits \cup {Nothing} /\ d \in Digits \cup {Nothing})
<1> DEFINE C == {"A", "a", "b", "+", ".", "-", ":", "~"}
<1>1. DOMAIN Code = C
  BY DEF Code
<1>2. /\ Code["A"] = 65 /\ Code["a"] = 97 /\ Code["b"] = 98 /\ Code["+"] = 43
      /\ Code["."] = 46 /\ Code["-"] = 45 /\ Code[":"] = 58
  BY DEF Code
<1>3. \A c \in Digits \cup {Nothing} : order(c) = 0 /\ Place(c) = 0
  <2> TAKE c \in Digits \cup {Nothing}
  <2>1. c = Nothing \/ IsDigit(c)
    BY DEF IsDigit
  <2>2. c \notin {"A", "a", "b"} /\ c # "~"
    BY DEF Digits, Nothing
  <2>3. order(c) = 0
    BY <2>1, <2>2 DEF order
  <2> QED BY <2>1, <2>3 DEF Place
<1>4. \A c \in C : c # Nothing /\ ~IsDigit(c)
  BY KnownApart, <1>1 DEF Known, IsDigit
<1>5. /\ order("A") = 65 /\ order("a") = 97 /\ order("b") = 98 /\ order("~") = -1
      /\ order("+") = 299 /\ order(".") = 302 /\ order("-") = 301 /\ order(":") = 314
  <2>1. ~IsDigit("A") /\ ~IsDigit("a") /\ ~IsDigit("b") /\ ~IsDigit("~") /\ ~IsDigit("+") /\ ~IsDigit(".") /\ ~IsDigit("-") /\ ~IsDigit(":")
    BY <1>4
  <2> QED BY <1>2, <2>1 DEF order, Nothing
<1>6. /\ Place("A") = 1 /\ Place("a") = 2 /\ Place("b") = 3 /\ Place("~") = -1
      /\ Place("+") = 4 /\ Place(".") = 6 /\ Place("-") = 5 /\ Place(":") = 7
  <2>1. /\ Rank("A") = 1 /\ Rank("a") = 2 /\ Rank("b") = 3 /\ Rank("~") = -1
        /\ Rank("+") = 4 /\ Rank(".") = 6 /\ Rank("-") = 5 /\ Rank(":") = 7
    BY DEF Rank
  <2>2. \A c \in C : Place(c) = Rank(c)
    BY <1>4 DEF Place
  <2> QED BY <2>1, <2>2
<1>7. \A c \in C : order(c) \in {-1, 65, 97, 98, 299, 301, 302, 314}
  BY <1>5
<1>8. \A c, d \in C : /\ order(c) \in Int /\ Place(c) \in Int
                      /\ order(c) < order(d) => Place(c) < Place(d)
                      /\ order(c) = order(d) => c = d
  BY <1>5, <1>6
<1>9. \A c \in C : order(c) # 0 /\ (order(c) < 0 => Place(c) < 0) /\ (0 < order(c) => 0 < Place(c))
  BY <1>5, <1>6
<1>10. \A c \in Known \cup {Nothing} : c \in C \/ c \in Digits \cup {Nothing}
  BY <1>1 DEF Known
<1> HIDE DEF C
<1>11. ASSUME NEW c \in Known \cup {Nothing}, NEW d \in Known \cup {Nothing}
       PROVE  /\ order(c) \in Int /\ Place(c) \in Int
              /\ order(c) < order(d) => Place(c) < Place(d)
              /\ order(c) = order(d) => c = d \/ (c \in Digits \cup {Nothing} /\ d \in Digits \cup {Nothing})
  <2>1. CASE c \in C /\ d \in C
    BY <1>8, <2>1
  <2>2. CASE c \in C /\ d \in Digits \cup {Nothing}
    <3>1. order(d) = 0 /\ Place(d) = 0
      BY <1>3, <2>2
    <3>2. order(c) \in Int /\ Place(c) \in Int /\ order(c) # 0 /\ (order(c) < 0 => Place(c) < 0)
      BY <1>8, <1>9, <2>2
    <3> QED BY <3>1, <3>2
  <2>3. CASE c \in Digits \cup {Nothing} /\ d \in C
    <3>1. order(c) = 0 /\ Place(c) = 0
      BY <1>3, <2>3
    <3>2. order(d) \in Int /\ Place(d) \in Int /\ order(d) # 0 /\ (0 < order(d) => 0 < Place(d))
      BY <1>8, <1>9, <2>3
    <3> QED BY <3>1, <3>2
  <2>4. CASE c \in Digits \cup {Nothing} /\ d \in Digits \cup {Nothing}
    BY <1>3, <2>4
  <2> QED BY <1>10, <2>1, <2>2, <2>3, <2>4
<1> QED BY <1>11

(* The significant digits at a place of a part, and what is left after them. *)
DigitsAt(p, k) == LeadingDigits(SkipZeros(From(p, k)))
RestAt(p, k) == From(SkipZeros(From(p, k)), Len(DigitsAt(p, k)) + 1)

(* The weights of a part up to a place before which it has no digit, and beyond it. *)
LEMMA HeadWeights ==
  ASSUME NEW p \in Parts, NEW k \in 1 .. Len(p) + 1, \A j \in 1 .. k - 1 : ~IsDigit(p[j])
  PROVE  LET W(j) == WeightAt(Weights(p), j) IN
         /\ RestAt(p, k) \in Parts /\ DigitsAt(p, k) \in Seq(Digits)
         /\ DigitsAt(p, k) # <<>> => DigitsAt(p, k)[1] # "0"
         /\ \A j \in 1 .. k - 1 : W(j) = Rank(p[j])
         /\ W(k) = Place(CharAt(p, k))
         /\ CharAt(p, k) \in Digits \cup {Nothing} =>
              /\ W(k + 1) = Number(DigitsAt(p, k))
              /\ \A j \in Nat \ {0} : W(k + 1 + j) = WeightAt(Weights(RestAt(p, k)), j)
         /\ Len(RestAt(p, k)) <= Len(p) - k + 1
         /\ CharAt(p, k) \in Digits => Len(RestAt(p, k)) < Len(p) - k + 1
<1> DEFINE W(j) == WeightAt(Weights(p), j)
           t == StopAt(p, DOMAIN Code) - 1
           d == From(p, k)
<1>0. p \in Seq(Known) /\ Len(p) \in Nat /\ k \in Nat \ {0}
  BY DEF Parts
<1>1. t \in 0 .. Len(p) /\ (\A i \in 1 .. t : p[i] \in DOMAIN Code) /\ (t + 1 <= Len(p) => p[t + 1] \notin DOMAIN Code)
  <2> DEFINE u == StopAt(p, DOMAIN Code)
  <2>1. u \in 1 .. Len(p) + 1 /\ (\A i \in 1 .. u - 1 : p[i] \in DOMAIN Code) /\ (u <= Len(p) => p[u] \notin DOMAIN Code)
    BY <1>0, StopIs
  <2> HIDE DEF u
  <2>2. t = u - 1 /\ t + 1 = u
    BY <1>0, <2>1 DEF u
  <2> HIDE DEF t
  <2> QED BY <1>0, <2>1, <2>2
<1>2. /\ \A j \in 1 .. t : W(j) = Rank(p[j])
      /\ W(t + 1) = 0 /\ W(t + 2) = Number(FirstRun(p))
      /\ \A j \in Nat \ {0} : W(t + 2 + j) = WeightAt(Weights(After(p)), j)
  BY PaddedIs
<1>3. LeadingDigits(From(p, t + 1)) = FirstRun(p) /\ After(p) = From(From(p, t + 1), Len(FirstRun(p)) + 1)
  BY <1>0, BlockIs
<1> HIDE DEF t, W
<1>4. \A i \in 1 .. Len(p) : p[i] \in Known /\ (p[i] \in DOMAIN Code <=> ~IsDigit(p[i]))
  <2>1. \A i \in 1 .. Len(p) : p[i] \in Known
    BY <1>0
  <2> QED BY <2>1, KnownApart DEF IsDigit
<1>5. t >= k - 1
  <2> SUFFICES ASSUME t < k - 1 PROVE FALSE
    BY <1>0, <1>1
  <2>1. t + 1 \in 1 .. k - 1 /\ t + 1 \in 1 .. Len(p)
    BY <1>0, <1>1
  <2> QED BY <1>1, <1>4, <2>1
<1>6. CharAt(p, k) \notin Digits \cup {Nothing} => k <= Len(p) /\ k <= t
  <2> SUFFICES ASSUME CharAt(p, k) \notin Digits \cup {Nothing} PROVE k <= Len(p) /\ k <= t
    OBVIOUS
  <2>1. k <= Len(p) /\ CharAt(p, k) = p[k] /\ k \in 1 .. Len(p)
    <3>1. CharAt(p, k) # Nothing
      OBVIOUS
    <3>2. k <= Len(p)
      BY <1>0, <3>1, CharIs
    <3> QED BY <1>0, <3>2 DEF CharAt
  <2>2. p[k] \in DOMAIN Code
    BY <1>4, <2>1 DEF IsDigit
  <2>3. t # k - 1
    <3>1. t = k - 1 => t + 1 = k
      BY <1>0, <1>1
    <3> QED BY <1>1, <2>1, <2>2, <3>1
  <2> QED BY <1>0, <1>1, <1>5, <2>1, <2>3
<1>7. CharAt(p, k) \in Digits \cup {Nothing} => t = k - 1
  <2> SUFFICES ASSUME CharAt(p, k) \in Digits \cup {Nothing}, k <= t PROVE FALSE
    <3>1. t = k - 1 \/ k <= t
      BY <1>0, <1>1, <1>5
    <3> QED BY <3>1
  <2>1. k \in 1 .. t /\ k \in 1 .. Len(p)
    BY <1>0, <1>1
  <2>2. CharAt(p, k) = p[k] /\ p[k] # Nothing
    BY <1>0, <2>1, CharIs
  <2> QED BY <1>1, <1>4, <2>1, <2>2 DEF IsDigit
<1>8. /\ d \in Seq(Known) /\ Len(d) = Len(p) - k + 1
      /\ \A i \in 1 .. Len(p) - k + 1 : d[i] = p[k + i - 1]
  BY <1>0, FromIs
<1>9. d # <<>> /\ d[1] \in Digits <=> CharAt(p, k) \in Digits
  <2>1. CASE k <= Len(p)
    <3>1. 1 \in 1 .. Len(p) - k + 1 /\ k + 1 - 1 = k
      BY <1>0, <2>1
    <3>2. CharAt(p, k) = p[k]
      BY <1>0, <2>1, CharIs
    <3>3. d[1] = p[k]
      BY <1>8, <3>1
    <3>4. Len(d) > 0
      BY <1>0, <1>8, <2>1
    <3> HIDE DEF d
    <3>5. d # <<>>
      BY <3>4
    <3> QED BY <3>2, <3>3, <3>5
  <2>2. CASE k > Len(p)
    <3>1. d = <<>> /\ CharAt(p, k) = Nothing /\ Nothing \notin Digits
      <4>1. Len(d) = 0
        BY <1>0, <1>8, <2>2
      <4>2. CharAt(p, k) = Nothing
        BY <1>0, <2>2, CharIs
      <4> HIDE DEF d
      <4> QED BY <1>8, <4>1, <4>2, KnownApart DEF Known
    <3> HIDE DEF d
    <3> QED BY <3>1
  <2> QED BY <1>0, <2>1, <2>2
<1> DEFINE run == LeadingDigits(d)
<1>10. /\ DigitsAt(p, k) \in Seq(Digits) /\ (DigitsAt(p, k) # <<>> => DigitsAt(p, k)[1] # "0")
       /\ run \in Seq(Digits) /\ Number(run) = Number(DigitsAt(p, k)) /\ Len(run) <= Len(d)
       /\ RestAt(p, k) = From(d, Len(run) + 1)
       /\ CharAt(p, k) \in Digits => Len(run) > 0
  <2> HIDE DEF d
  <2>1. /\ LeadingDigits(SkipZeros(d)) \in Seq(Digits)
        /\ (LeadingDigits(SkipZeros(d)) # <<>> => LeadingDigits(SkipZeros(d))[1] # "0")
        /\ run \in Seq(Digits) /\ Number(run) = Number(LeadingDigits(SkipZeros(d))) /\ Len(run) <= Len(d)
        /\ From(SkipZeros(d), Len(LeadingDigits(SkipZeros(d))) + 1) = From(d, Len(run) + 1)
        /\ (d # <<>> /\ d[1] \in Digits => Len(run) > 0)
    BY <1>8, RunIs
  <2> QED BY <1>9, <2>1 DEF DigitsAt, RestAt, d
<1> HIDE DEF run
<1>11. RestAt(p, k) \in Parts /\ Len(RestAt(p, k)) = Len(p) - k + 1 - Len(run)
  <2> DEFINE m == Len(run) + 1
  <2>1. m \in 1 .. Len(d) + 1
    BY <1>8, <1>10
  <2> HIDE DEF d, m
  <2>2. From(d, m) \in Seq(Known) /\ Len(From(d, m)) = Len(d) - m + 1
    BY <1>8, <2>1, FromIs
  <2>3. Len(d) - m + 1 = Len(p) - k + 1 - Len(run)
    BY <1>0, <1>8, <1>10 DEF m
  <2> QED BY <1>10, <2>2, <2>3 DEF m, Parts
<1>12. Len(run) \in Nat
  BY <1>10
<1>13. \A j \in 1 .. k - 1 : W(j) = Rank(p[j])
  BY <1>0, <1>1, <1>2, <1>5
<1>14. W(k) = Place(CharAt(p, k))
  <2>1. CASE CharAt(p, k) \in Digits \cup {Nothing}
    <3>1. t + 1 = k
      BY <1>0, <1>1, <1>7, <2>1
    <3>2. W(k) = 0
      BY <1>2, <3>1
    <3> QED BY <2>1, <3>2 DEF Place, IsDigit
  <2>2. CASE CharAt(p, k) \notin Digits \cup {Nothing}
    <3>1. k \in 1 .. t /\ CharAt(p, k) = p[k]
      <4>1. k <= Len(p) /\ k <= t
        BY <1>6, <2>2
      <4> QED BY <1>0, <1>1, <4>1 DEF CharAt
    <3> QED BY <1>2, <2>2, <3>1 DEF Place, IsDigit
  <2> QED BY <2>1, <2>2
<1>15. CharAt(p, k) \in Digits \cup {Nothing} =>
              /\ W(k + 1) = Number(DigitsAt(p, k))
              /\ \A j \in Nat \ {0} : W(k + 1 + j) = WeightAt(Weights(RestAt(p, k)), j)
  <2> SUFFICES ASSUME CharAt(p, k) \in Digits \cup {Nothing}
               PROVE  /\ W(k + 1) = Number(DigitsAt(p, k))
                      /\ \A j \in Nat \ {0} : W(k + 1 + j) = WeightAt(Weights(RestAt(p, k)), j)
    OBVIOUS
  <2>1. t + 1 = k /\ t + 2 = k + 1
    BY <1>0, <1>1, <1>7
  <2>2. FirstRun(p) = run /\ After(p) = RestAt(p, k)
    BY <1>3, <1>10, <2>1 DEF run
  <2> QED BY <1>2, <1>10, <2>1, <2>2
<1>16. Len(RestAt(p, k)) <= Len(p) - k + 1 /\ (CharAt(p, k) \in Digits => Len(RestAt(p, k)) < Len(p) - k + 1)
  BY <1>0, <1>10, <1>11, <1>12
<1> QED BY <1>10, <1>11, <1>13, <1>14, <1>15, <1>16 DEF W

(* One round of verrevcmp: whether it decides, what it answers then, what it goes on with. *)
PartPairs == Parts \X Parts
Differs(x, y) == {j \in DOMAIN x \cap DOMAIN y : x[j] # y[j]}
FirstOf(D) == CHOOSE j \in D : \A i \in D : j <= i
Apart(w) == order(CharAt(w[1], Parting(w[1], w[2]))) # order(CharAt(w[2], Parting(w[1], w[2])))
DigitsOf(w, i) == DigitsAt(w[i], Parting(w[1], w[2]))
Decided(w) ==
  \/ w[1] = <<>> /\ w[2] = <<>>
  \/ Apart(w) \/ Len(DigitsOf(w, 1)) # Len(DigitsOf(w, 2)) \/ Differs(DigitsOf(w, 1), DigitsOf(w, 2)) # {}
Decision(w) ==
  LET k == Parting(w[1], w[2])
      x == DigitsOf(w, 1)
      y == DigitsOf(w, 2)
      first == FirstOf(Differs(x, y))
  IN  IF w[1] = <<>> /\ w[2] = <<>> THEN 0
      ELSE IF Apart(w) THEN order(CharAt(w[1], k)) - order(CharAt(w[2], k))
      ELSE IF Len(x) # Len(y) THEN Len(x) - Len(y)
      ELSE DigitValue(x[first]) - DigitValue(y[first])
Onward(w) == <<RestAt(w[1], Parting(w[1], w[2])), RestAt(w[2], Parting(w[1], w[2]))>>

(* What a round needs of its two parts. *)
LEMMA RoundHas ==
  ASSUME NEW w \in PartPairs
  PROVE  LET a == w[1]
             b == w[2]
             k == Parting(a, b)
         IN  /\ a \in Parts /\ b \in Parts /\ k \in 1 .. Len(a) + 1 /\ k \in 1 .. Len(b) + 1
             /\ \A j \in 1 .. k - 1 : ~IsDigit(a[j]) /\ ~IsDigit(b[j]) /\ b[j] = a[j]
             /\ Onward(w) \in PartPairs
<1> DEFINE a == w[1]
           b == w[2]
           k == Parting(a, b)
<1>1. a \in Parts /\ b \in Parts
  BY DEF PartPairs
<1> HIDE DEF a, b
<1>2. k \in 1 .. Len(a) + 1 /\ k \in 1 .. Len(b) + 1 /\ \A j \in 1 .. k - 1 : ~IsDigit(a[j]) /\ b[j] = a[j]
  BY <1>1, PartingIs
<1>3. \A j \in 1 .. k - 1 : ~IsDigit(b[j])
  BY <1>2
<1> HIDE DEF k
<1>4. RestAt(a, k) \in Parts
  BY <1>1, <1>2, HeadWeights
<1>5. RestAt(b, k) \in Parts
  BY <1>1, <1>2, <1>3, HeadWeights
<1>6. Onward(w) \in PartPairs
  BY <1>4, <1>5 DEF Onward, PartPairs, a, b, k
<1> QED BY <1>1, <1>2, <1>3, <1>6 DEF a, b, k

(* verrevcmp is its rounds: each decides, or leaves it to the rest of both parts. *)
LEMMA VerrevcmpIs ==
  \A w \in PartPairs : verrevcmp[w] = IF Decided(w) THEN Decision(w) ELSE verrevcmp[Onward(w)]
<1> DEFINE W == PartPairs
           Solves(g) == g = [w \in W |-> IF Decided(w) THEN Decision(w) ELSE g[Onward(w)]]
           end == {w \in W : Decided(w)}
           out == [w \in W |-> Decision(w)]
           Y == {Decision(w) : w \in W}
           step == [w \in W |-> IF w \in end THEN w ELSE Onward(w)]
           v == CHOOSE g : Solves(g)
<1>1. step \in [W -> W]
  <2>1. \A w \in W : Onward(w) \in W
    BY RoundHas
  <2> HIDE DEF W
  <2> QED BY <2>1
<1>2. out \in [W -> Y]
  OBVIOUS
<1>3. \E g : Solves(g)
  <2>1. PICK g : Recurs(g, W, end, step, out)
    <3>1. end \in SUBSET W
      OBVIOUS
    <3> HIDE DEF W, end, out, step, Y
    <3> QED BY <3>1, <1>1, <1>2, TailRecursion
  <2>2. \A w \in W : (IF w \in end THEN out[w] ELSE g[step[w]]) = IF Decided(w) THEN Decision(w) ELSE g[Onward(w)]
    <3> HIDE DEF W
    <3> QED OBVIOUS
  <2>3. g = [w \in W |-> IF Decided(w) THEN Decision(w) ELSE g[Onward(w)]]
    <3> HIDE DEF W, end, out, step
    <3> QED BY <2>1, <2>2 DEF Recurs
  <2>4. Solves(g)
    BY <2>3
  <2> HIDE DEF Solves
  <2> QED BY <2>4
<1> DEFINE Round(g, w) ==
             IF w[1] = <<>> /\ w[2] = <<>> THEN 0
             ELSE LET a == w[1]
                      b == w[2]
                      k == Parting(a, b)
                      left == SkipZeros(From(a, k))
                      right == SkipZeros(From(b, k))
                      x == LeadingDigits(left)
                      y == LeadingDigits(right)
                      differ == {j \in DOMAIN x \cap DOMAIN y : x[j] # y[j]}
                      first == CHOOSE j \in differ : \A i \in differ : j <= i
                  IN  IF order(CharAt(a, k)) # order(CharAt(b, k)) THEN order(CharAt(a, k)) - order(CharAt(b, k))
                      ELSE IF Len(x) # Len(y) THEN Len(x) - Len(y)
                      ELSE IF differ # {} THEN DigitValue(x[first]) - DigitValue(y[first])
                      ELSE g[<<From(left, Len(x) + 1), From(right, Len(y) + 1)>>]
<1>4. \A g, w : Round(g, w) = IF Decided(w) THEN Decision(w) ELSE g[Onward(w)]
  <2> TAKE g, w
  <2>1. CASE w[1] = <<>> /\ w[2] = <<>>
    BY <2>1 DEF Decided, Decision
  <2>2. CASE ~(w[1] = <<>> /\ w[2] = <<>>)
    <3> DEFINE a == w[1]
               b == w[2]
               k == Parting(a, b)
               left == SkipZeros(From(a, k))
               right == SkipZeros(From(b, k))
               x == LeadingDigits(left)
               y == LeadingDigits(right)
               differ == {j \in DOMAIN x \cap DOMAIN y : x[j] # y[j]}
               first == CHOOSE j \in differ : \A i \in differ : j <= i
    <3>1. DigitsOf(w, 1) = x /\ DigitsOf(w, 2) = y
      BY DEF DigitsOf, DigitsAt
    <3>2. Onward(w) = <<From(left, Len(x) + 1), From(right, Len(y) + 1)>>
      BY DEF Onward, RestAt, DigitsAt
    <3>3. Apart(w) <=> order(CharAt(a, k)) # order(CharAt(b, k))
      BY DEF Apart
    <3>4. Differs(x, y) = differ /\ FirstOf(differ) = first
      BY DEF Differs, FirstOf
    <3>5. Round(g, w) = IF order(CharAt(a, k)) # order(CharAt(b, k)) THEN order(CharAt(a, k)) - order(CharAt(b, k))
                        ELSE IF Len(x) # Len(y) THEN Len(x) - Len(y)
                        ELSE IF differ # {} THEN DigitValue(x[first]) - DigitValue(y[first])
                        ELSE g[<<From(left, Len(x) + 1), From(right, Len(y) + 1)>>]
      BY <2>2
    <3>6. Decision(w) = IF Apart(w) THEN order(CharAt(a, k)) - order(CharAt(b, k))
                       ELSE IF Len(DigitsOf(w, 1)) # Len(DigitsOf(w, 2)) THEN Len(DigitsOf(w, 1)) - Len(DigitsOf(w, 2))
                       ELSE DigitValue(DigitsOf(w, 1)[FirstOf(Differs(DigitsOf(w, 1), DigitsOf(w, 2)))])
                              - DigitValue(DigitsOf(w, 2)[FirstOf(Differs(DigitsOf(w, 1), DigitsOf(w, 2)))])
      BY <2>2 DEF Decision
    <3>7. Decided(w) <=> Apart(w) \/ Len(DigitsOf(w, 1)) # Len(DigitsOf(w, 2)) \/ Differs(DigitsOf(w, 1), DigitsOf(w, 2)) # {}
      BY <2>2 DEF Decided
    <3> HIDE DEF Round, a, b, k, left, right, x, y, differ, first
    <3> QED BY <3>1, <3>2, <3>3, <3>4, <3>5, <3>6, <3>7
  <2> QED BY <2>1, <2>2
<1>5. verrevcmp = v
  <2>1. \A g : Solves(g) <=> g = [w \in Parts \X Parts |-> Round(g, w)]
    <3> HIDE DEF Round
    <3> QED BY <1>4 DEF PartPairs
  <2> HIDE DEF Solves
  <2>2. v = CHOOSE g : g = [w \in Parts \X Parts |-> Round(g, w)]
    <3> HIDE DEF Round
    <3> QED BY <2>1
  <2> HIDE DEF v
  <2> QED BY <2>2 DEF verrevcmp
<1>6. Solves(v)
  <2> HIDE DEF Solves
  <2> QED BY <1>3
<1>7. \A w \in W : v[w] = IF Decided(w) THEN Decision(w) ELSE v[Onward(w)]
  <2> HIDE DEF v, W
  <2> QED BY <1>6
<1> HIDE DEF v, Round
<1> QED BY <1>5, <1>7

(* a weighs less than b, or as much, all the way. *)
Before(a, b) ==
  \E j \in Nat \ {0} : /\ WeightAt(Weights(a), j) < WeightAt(Weights(b), j)
                       /\ \A i \in 1 .. j - 1 : WeightAt(Weights(a), i) = WeightAt(Weights(b), i)
Level(a, b) == \A j \in Nat \ {0} : WeightAt(Weights(a), j) = WeightAt(Weights(b), j)
Sorts(a, b, n) == n \in Int /\ (n < 0 => Before(a, b)) /\ (n > 0 => Before(b, a)) /\ (n = 0 => Level(a, b))

(* What parts at k of two parts that agree before it decides. *)
LEMMA PlaceDecides ==
  ASSUME NEW a \in Parts, NEW b \in Parts, NEW k \in 1 .. Len(a) + 1, k \in 1 .. Len(b) + 1,
         \A j \in 1 .. k - 1 : ~IsDigit(a[j]) /\ ~IsDigit(b[j]) /\ b[j] = a[j]
  PROVE  LET c == CharAt(a, k)
             d == CharAt(b, k)
             x == DigitsAt(a, k)
             y == DigitsAt(b, k)
             Ends == Digits \cup {Nothing}
         IN  /\ Place(c) < Place(d) => Before(a, b)
             /\ c \in Ends /\ d \in Ends /\ Number(x) < Number(y) => Before(a, b)
             /\ c \in Ends /\ d \in Ends /\ x = y /\ Before(RestAt(a, k), RestAt(b, k)) => Before(a, b)
             /\ c \in Ends /\ d \in Ends /\ x = y /\ Level(RestAt(a, k), RestAt(b, k)) => Level(a, b)
<1> DEFINE V(j) == WeightAt(Weights(a), j)
           W(j) == WeightAt(Weights(b), j)
           V1(j) == WeightAt(Weights(RestAt(a, k)), j)
           W1(j) == WeightAt(Weights(RestAt(b, k)), j)
           c == CharAt(a, k)
           d == CharAt(b, k)
           x == DigitsAt(a, k)
           y == DigitsAt(b, k)
           Ends == Digits \cup {Nothing}
<1>0. k \in Nat \ {0} /\ k + 1 \in Nat \ {0}
  BY DEF Parts
<1>1. /\ \A j \in 1 .. k - 1 : V(j) = Rank(a[j])
      /\ V(k) = Place(c)
      /\ c \in Ends => V(k + 1) = Number(x) /\ \A j \in Nat \ {0} : V(k + 1 + j) = V1(j)
  BY HeadWeights
<1>2. /\ \A j \in 1 .. k - 1 : W(j) = Rank(b[j])
      /\ W(k) = Place(d)
      /\ d \in Ends => W(k + 1) = Number(y) /\ \A j \in Nat \ {0} : W(k + 1 + j) = W1(j)
  BY HeadWeights
<1> HIDE DEF V, W, V1, W1, c, d, x, y
<1>3. \A j \in 1 .. k - 1 : V(j) = W(j)
  BY <1>1, <1>2
<1>4. c \in Ends /\ d \in Ends => V(k) = W(k)
  BY <1>1, <1>2 DEF Place, IsDigit
<1>5. c \in Ends /\ d \in Ends => \A j \in 1 .. k : V(j) = W(j)
  BY <1>0, <1>3, <1>4
<1>6. \A j \in Nat \ {0} : (V(j) < W(j) /\ \A i \in 1 .. j - 1 : V(i) = W(i)) => Before(a, b)
  BY DEF Before, V, W
<1>7. Place(c) < Place(d) => Before(a, b)
  BY <1>0, <1>1, <1>2, <1>3, <1>6
<1>8. c \in Ends /\ d \in Ends /\ Number(x) < Number(y) => Before(a, b)
  <2>1. (k + 1) - 1 = k
    BY <1>0
  <2> QED BY <1>0, <1>1, <1>2, <1>5, <1>6, <2>1
<1>9. c \in Ends /\ d \in Ends /\ x = y => \A j \in 1 .. k + 1 : V(j) = W(j)
  <2> SUFFICES ASSUME c \in Ends, d \in Ends, x = y, NEW j \in 1 .. k + 1 PROVE V(j) = W(j)
    OBVIOUS
  <2>1. j \in 1 .. k \/ j = k + 1
    BY <1>0
  <2> QED BY <1>1, <1>2, <1>5, <2>1
<1>10. \A j \in Nat \ {0} : j \in 1 .. k + 1 \/ \E i \in Nat \ {0} : j = k + 1 + i
  <2> TAKE j \in Nat \ {0}
  <2>1. j \notin 1 .. k + 1 => j - (k + 1) \in Nat \ {0} /\ j = k + 1 + (j - (k + 1))
    BY <1>0
  <2> QED BY <2>1
<1>11. ASSUME c \in Ends, d \in Ends, x = y, Before(RestAt(a, k), RestAt(b, k)) PROVE Before(a, b)
  <2>1. PICK j \in Nat \ {0} : V1(j) < W1(j) /\ \A i \in 1 .. j - 1 : V1(i) = W1(i)
    BY <1>11 DEF Before, V1, W1
  <2> DEFINE m == k + 1 + j
  <2>2. m \in Nat \ {0} /\ V(m) < W(m)
    BY <1>0, <1>1, <1>2, <1>11, <2>1
  <2>3. \A i \in 1 .. m - 1 : V(i) = W(i)
    <3> TAKE i \in 1 .. m - 1
    <3>1. CASE i \in 1 .. k + 1
      BY <1>9, <1>11, <3>1
    <3>2. CASE \E n \in Nat \ {0} : i = k + 1 + n
      <4>1. PICK n \in Nat \ {0} : i = k + 1 + n
        BY <3>2
      <4>2. n \in 1 .. j - 1
        BY <1>0, <4>1
      <4> QED BY <1>1, <1>2, <1>11, <2>1, <4>1, <4>2
    <3>3. i \in Nat \ {0}
      BY <1>0
    <3> QED BY <1>10, <3>1, <3>2, <3>3
  <2> HIDE DEF m
  <2> QED BY <1>6, <2>2, <2>3
<1>12. ASSUME c \in Ends, d \in Ends, x = y, Level(RestAt(a, k), RestAt(b, k)) PROVE Level(a, b)
  <2>1. \A j \in Nat \ {0} : V1(j) = W1(j)
    BY <1>12 DEF Level, V1, W1
  <2>2. \A j \in Nat \ {0} : V(j) = W(j)
    <3> TAKE j \in Nat \ {0}
    <3>1. CASE j \in 1 .. k + 1
      BY <1>9, <1>12, <3>1
    <3>2. CASE \E i \in Nat \ {0} : j = k + 1 + i
      BY <1>1, <1>2, <1>12, <2>1, <3>2
    <3> QED BY <1>10, <3>1, <3>2
  <2> QED BY <2>2 DEF Level, V, W
<1> QED BY <1>7, <1>8, <1>11, <1>12 DEF c, d, x, y

(* A round that decides is right, and one that does not leaves it to what comes after. *)
LEMMA RoundSorts ==
  ASSUME NEW w \in PartPairs
  PROVE  LET a == w[1]
             b == w[2]
             n == Onward(w)
         IN  /\ Decided(w) => Sorts(a, b, Decision(w))
             /\ ~Decided(w) => /\ \A m : Sorts(n[1], n[2], m) => Sorts(a, b, m)
                               /\ Len(n[1]) + Len(n[2]) < Len(a) + Len(b)
<1> DEFINE a == w[1]
           b == w[2]
           k == Parting(a, b)
           c == CharAt(a, k)
           d == CharAt(b, k)
           x == DigitsAt(a, k)
           y == DigitsAt(b, k)
           Ends == Digits \cup {Nothing}
           D == Differs(x, y)
           first == FirstOf(D)
           n == Onward(w)
<1>1. /\ a \in Parts /\ b \in Parts /\ k \in 1 .. Len(a) + 1 /\ k \in 1 .. Len(b) + 1
      /\ \A j \in 1 .. k - 1 : ~IsDigit(a[j]) /\ ~IsDigit(b[j]) /\ b[j] = a[j]
      /\ Onward(w) \in PartPairs
  BY RoundHas
<1>2. DigitsOf(w, 1) = x /\ DigitsOf(w, 2) = y /\ n[1] = RestAt(a, k) /\ n[2] = RestAt(b, k) /\ (Apart(w) <=> order(c) # order(d))
  BY DEF DigitsOf, Onward, Apart
<1>3. c # d \/ c = Nothing \/ IsDigit(c)
  <2> HIDE DEF a, b
  <2> QED BY <1>1, PartingIs
<1>4. /\ Decided(w) <=> (a = <<>> /\ b = <<>>) \/ order(c) # order(d) \/ Len(x) # Len(y) \/ D # {}
      /\ Decision(w) = IF a = <<>> /\ b = <<>> THEN 0
                      ELSE IF order(c) # order(d) THEN order(c) - order(d)
                      ELSE IF Len(x) # Len(y) THEN Len(x) - Len(y)
                      ELSE DigitValue(x[first]) - DigitValue(y[first])
  <2> HIDE DEF c, d, x, y, D, first
  <2>1. /\ Decided(w) <=> (a = <<>> /\ b = <<>>) \/ Apart(w) \/ Len(x) # Len(y) \/ D # {}
        /\ Decision(w) = IF a = <<>> /\ b = <<>> THEN 0
                        ELSE IF Apart(w) THEN order(CharAt(a, k)) - order(CharAt(b, k))
                        ELSE IF Len(x) # Len(y) THEN Len(x) - Len(y)
                        ELSE DigitValue(x[first]) - DigitValue(y[first])
    BY <1>2 DEF Decided, Decision, D, first
  <2> QED BY <1>2, <2>1 DEF c, d
<1> HIDE DEF a, b, k, n
<1>5. k \in Nat \ {0} /\ Len(a) \in Nat /\ Len(b) \in Nat
  BY <1>1 DEF Parts
<1>6. c \in Known \cup {Nothing} /\ d \in Known \cup {Nothing}
  BY <1>1, <1>5, CharIs
<1>7. /\ x \in Seq(Digits) /\ (x # <<>> => x[1] # "0") /\ RestAt(a, k) \in Parts
      /\ Len(RestAt(a, k)) <= Len(a) - k + 1 /\ (c \in Digits => Len(RestAt(a, k)) < Len(a) - k + 1)
  BY <1>1, HeadWeights
<1>8. /\ y \in Seq(Digits) /\ (y # <<>> => y[1] # "0") /\ RestAt(b, k) \in Parts
      /\ Len(RestAt(b, k)) <= Len(b) - k + 1 /\ (d \in Digits => Len(RestAt(b, k)) < Len(b) - k + 1)
  BY <1>1, HeadWeights
<1>9. /\ Place(c) < Place(d) => Before(a, b)
      /\ c \in Ends /\ d \in Ends /\ Number(x) < Number(y) => Before(a, b)
      /\ c \in Ends /\ d \in Ends /\ x = y /\ Before(RestAt(a, k), RestAt(b, k)) => Before(a, b)
      /\ c \in Ends /\ d \in Ends /\ x = y /\ Level(RestAt(a, k), RestAt(b, k)) => Level(a, b)
  BY <1>1, PlaceDecides
<1>10. /\ Place(d) < Place(c) => Before(b, a)
       /\ c \in Ends /\ d \in Ends /\ Number(y) < Number(x) => Before(b, a)
       /\ c \in Ends /\ d \in Ends /\ x = y /\ Before(RestAt(b, k), RestAt(a, k)) => Before(b, a)
  <2>1. \A j \in 1 .. k - 1 : ~IsDigit(b[j]) /\ ~IsDigit(a[j]) /\ a[j] = b[j]
    BY <1>1
  <2> QED BY <1>1, <2>1, PlaceDecides
<1> HIDE DEF c, d, x, y, D, first
<1>11. CASE order(c) # order(d)
  <2>1. order(c) \in Int /\ order(d) \in Int /\ (order(c) < order(d) => Place(c) < Place(d)) /\ (order(d) < order(c) => Place(d) < Place(c))
    BY <1>6, OrderIs
  <2>2. ~(a = <<>> /\ b = <<>>)
    <3> SUFFICES ASSUME a = <<>>, b = <<>> PROVE c = d
      BY <1>11
    <3> QED BY DEF c, d
  <2>3. Decided(w) /\ Decision(w) = order(c) - order(d)
    BY <1>4, <1>11, <2>2
  <2>4. Sorts(a, b, order(c) - order(d))
    <3>1. /\ order(c) - order(d) \in Int /\ order(c) - order(d) # 0
          /\ (order(c) - order(d) < 0 => order(c) < order(d)) /\ (order(c) - order(d) > 0 => order(d) < order(c))
      BY <1>11, <2>1
    <3> QED BY <1>9, <1>10, <2>1, <3>1 DEF Sorts
  <2> QED BY <2>3, <2>4 DEF a, b
<1>12. CASE order(c) = order(d)
  <2>1. c \in Ends /\ d \in Ends
    <3>1. c = d \/ (c \in Ends /\ d \in Ends)
      BY <1>6, <1>12, OrderIs
    <3>2. c = d => c \in Ends
      BY <1>3 DEF IsDigit
    <3> QED BY <3>1, <3>2
  <2>2. Len(x) \in Nat /\ Len(y) \in Nat
    BY <1>7, <1>8
  <2>3. CASE a = <<>> /\ b = <<>>
    <3>1. Level(a, b)
      BY <2>3 DEF Level
    <3>2. Decided(w) /\ Decision(w) = 0
      BY <1>4, <2>3
    <3> QED BY <3>1, <3>2 DEF Sorts, a, b
  <2>4. CASE ~(a = <<>> /\ b = <<>>) /\ Len(x) # Len(y)
    <3>1. Decided(w) /\ Decision(w) = Len(x) - Len(y)
      BY <1>4, <1>12, <2>4
    <3>2. Len(x) < Len(y) => Number(x) < Number(y)
      <4> SUFFICES ASSUME Len(x) < Len(y) PROVE Number(x) < Number(y)
        OBVIOUS
      <4>1. y # <<>>
        BY <1>7, <1>8, <2>2
      <4> QED BY <1>7, <1>8, <4>1, ShorterIsLess
    <3>3. Len(y) < Len(x) => Number(y) < Number(x)
      <4> SUFFICES ASSUME Len(y) < Len(x) PROVE Number(y) < Number(x)
        OBVIOUS
      <4>1. x # <<>>
        BY <1>7, <1>8, <2>2
      <4> QED BY <1>7, <1>8, <4>1, ShorterIsLess
    <3>4. /\ Len(x) - Len(y) \in Int /\ Len(x) - Len(y) # 0
          /\ (Len(x) - Len(y) < 0 => Len(x) < Len(y)) /\ (Len(x) - Len(y) > 0 => Len(y) < Len(x))
      BY <2>2, <2>4
    <3>5. Sorts(a, b, Len(x) - Len(y))
      BY <1>9, <1>10, <2>1, <3>2, <3>3, <3>4 DEF Sorts
    <3> QED BY <3>1, <3>5 DEF a, b
  <2>5. CASE ~(a = <<>> /\ b = <<>>) /\ Len(x) = Len(y) /\ D # {}
    <3>1. Decided(w) /\ Decision(w) = DigitValue(x[first]) - DigitValue(y[first])
      BY <1>4, <1>12, <2>5
    <3>2. D \in SUBSET Nat /\ \A j \in D : j \in 1 .. Len(x) /\ x[j] # y[j]
      BY <1>7, <1>8 DEF D, Differs
    <3>3. \A j \in 1 .. Len(x) : x[j] # y[j] => j \in D
      BY <1>7, <1>8, <2>5 DEF D, Differs
    <3>4. first \in D /\ \A j \in D : first <= j
      <4>1. \E j \in D : \A i \in D : j <= i
        BY <2>5, <3>2, LeastNumber
      <4> QED BY <4>1 DEF first, FirstOf
    <3>5. first \in 1 .. Len(x) /\ \A i \in 1 .. first - 1 : x[i] = y[i]
      <4>1. first \in 1 .. Len(x)
        BY <3>2, <3>4
      <4>2. ASSUME NEW i \in 1 .. first - 1 PROVE x[i] = y[i]
        <5>1. i \in 1 .. Len(x) /\ ~(first <= i)
          BY <2>2, <4>1
        <5> QED BY <3>3, <3>4, <5>1
      <4> QED BY <4>1, <4>2
    <3>6. /\ x[first] \in Digits /\ y[first] \in Digits /\ x[first] # y[first]
          /\ DigitValue(x[first]) \in Nat /\ DigitValue(y[first]) \in Nat
          /\ DigitValue(x[first]) # DigitValue(y[first])
      <4>1. x[first] \in Digits /\ y[first] \in Digits /\ x[first] # y[first]
        BY <1>7, <1>8, <2>5, <3>2, <3>4, <3>5
      <4>2. DigitValue(x[first]) \in 0 .. 9 /\ DigitValue(y[first]) \in 0 .. 9
        BY <4>1, DigitIs
      <4> QED BY <4>1, <4>2, DigitsApart
    <3> DEFINE e == DigitValue(x[first])
               f == DigitValue(y[first])
    <3>7. e < f => Number(x) < Number(y)
      BY <1>7, <1>8, <2>5, <3>5, FirstDecides
    <3>8. f < e => Number(y) < Number(x)
      <4>1. first \in 1 .. Len(y) /\ \A i \in 1 .. first - 1 : y[i] = x[i]
        BY <2>5, <3>5
      <4> QED BY <1>7, <1>8, <2>5, <4>1, FirstDecides
    <3>9. e \in Nat /\ f \in Nat /\ e # f
      BY <3>6
    <3> HIDE DEF e, f
    <3>10. e - f \in Int /\ e - f # 0 /\ (e - f < 0 => e < f) /\ (e - f > 0 => f < e)
      BY <3>9
    <3>11. Sorts(a, b, e - f)
      BY <1>9, <1>10, <2>1, <3>7, <3>8, <3>10 DEF Sorts
    <3> QED BY <3>1, <3>11 DEF e, f, a, b
  <2>6. CASE ~(a = <<>> /\ b = <<>>) /\ Len(x) = Len(y) /\ D = {}
    <3>1. ~Decided(w)
      BY <1>4, <1>12, <2>6
    <3>2. x = y
      <4>1. \A i \in 1 .. Len(x) : x[i] = y[i]
        <5>1. DOMAIN x = 1 .. Len(x) /\ DOMAIN y = 1 .. Len(y)
          BY <1>7, <1>8
        <5> QED BY <2>6, <5>1 DEF D, Differs
      <4> QED BY <1>7, <1>8, <2>6, <4>1, SeqEqual
    <3>3. \A m : Sorts(RestAt(a, k), RestAt(b, k), m) => Sorts(a, b, m)
      BY <1>9, <1>10, <2>1, <3>2 DEF Sorts
    <3>4. Len(RestAt(a, k)) + Len(RestAt(b, k)) < Len(a) + Len(b)
      <4>1. Len(RestAt(a, k)) \in Nat /\ Len(RestAt(b, k)) \in Nat
        BY <1>7, <1>8 DEF Parts
      <4>2. CASE k > 1
        BY <1>5, <1>7, <1>8, <4>1, <4>2
      <4>3. CASE k = 1
        <5>1. Len(a) >= 1 \/ Len(b) >= 1
          BY <1>1, <1>5, <2>6 DEF Parts
        <5>2. (Len(a) >= 1 => c # Nothing) /\ (Len(b) >= 1 => d # Nothing)
          BY <1>1, <1>5, <4>3, CharIs DEF c, d
        <5>3. c \in Digits \/ d \in Digits
          BY <2>1, <5>1, <5>2
        <5> QED BY <1>5, <1>7, <1>8, <4>1, <4>3, <5>3
      <4> QED BY <1>5, <4>2, <4>3
    <3>5. n[1] = RestAt(a, k) /\ n[2] = RestAt(b, k)
      BY <1>2
    <3> QED BY <3>1, <3>3, <3>4, <3>5 DEF a, b, n
  <2> QED BY <2>3, <2>4, <2>5, <2>6
<1> QED BY <1>11, <1>12

(* verrevcmp sorts any two parts as their weights do. *)
LEMMA VerrevcmpSorts ==
  ASSUME NEW a \in Parts, NEW b \in Parts
  PROVE  Sorts(a, b, verrevcmp[<<a, b>>])
<1> DEFINE Right(w) == Sorts(w[1], w[2], verrevcmp[w])
           size(w) == Len(w[1]) + Len(w[2])
           S == {size(w) : w \in {u \in PartPairs : ~Right(u)}}
<1>1. \A w \in PartPairs : size(w) \in Nat
  BY DEF PartPairs, Parts
<1>2. S = {}
  <2> SUFFICES ASSUME S # {} PROVE FALSE
    OBVIOUS
  <2>1. PICK k \in S : \A m \in S : k <= m
    <3>1. S \in SUBSET Nat
      BY <1>1
    <3> HIDE DEF S
    <3> QED BY <3>1, LeastNumber
  <2> HIDE DEF Right
  <2>2. PICK w \in PartPairs : ~Right(w) /\ size(w) = k
    BY <2>1
  <2> DEFINE n == Onward(w)
  <2>3. /\ Decided(w) => Sorts(w[1], w[2], Decision(w))
        /\ ~Decided(w) => (\A m : Sorts(n[1], n[2], m) => Sorts(w[1], w[2], m)) /\ size(n) < size(w)
    BY RoundSorts
  <2>4. n \in PartPairs
    BY RoundHas
  <2>5. verrevcmp[w] = IF Decided(w) THEN Decision(w) ELSE verrevcmp[n]
    BY VerrevcmpIs
  <2> HIDE DEF n
  <2>6. ~Decided(w)
    BY <2>2, <2>3, <2>5 DEF Right
  <2>7. ~Right(n)
    BY <2>2, <2>3, <2>5, <2>6 DEF Right
  <2> HIDE DEF size
  <2>8. size(n) \in S
    BY <2>4, <2>7
  <2> HIDE DEF S
  <2>9. k <= size(n) /\ size(n) < k
    BY <2>1, <2>2, <2>3, <2>6, <2>8
  <2> QED BY <1>1, <2>2, <2>4, <2>9
<1> DEFINE w == <<a, b>>
<1>3. w \in PartPairs /\ w[1] = a /\ w[2] = b
  BY DEF PartPairs
<1> HIDE DEF w
<1>4. Right(w)
  <2> SUFFICES ASSUME ~Right(w) PROVE FALSE
    OBVIOUS
  <2> HIDE DEF Right, size
  <2>1. size(w) \in S
    BY <1>3
  <2> HIDE DEF S
  <2> QED BY <1>2, <2>1
<1> QED BY <1>3, <1>4 DEF w

(* Lighter is Before, which holds one way at most and never between levels. *)
LEMMA LighterIs ==
  ASSUME NEW a \in Parts, NEW b \in Parts
  PROVE  /\ Lighter(Weights(a), Weights(b)) <=> Before(a, b)
         /\ ~(Before(a, b) /\ Before(b, a)) /\ ~(Before(a, b) /\ Level(a, b))
<1> DEFINE v == Weights(a)
           w == Weights(b)
<1>1. v \in Seq(Int) /\ w \in Seq(Int)
  <2>1. <<>> \in Seq(Int)
    OBVIOUS
  <2> QED BY <2>1, WeighAppends
<1> HIDE DEF v, w
<1>2. \A j \in Nat \ {0} : WeightAt(v, j) \in Int /\ WeightAt(w, j) \in Int
  BY <1>1 DEF WeightAt
<1>3. \A j \in DOMAIN v \cup DOMAIN w : j \in Nat \ {0}
  BY <1>1
<1>4. \A j \in Nat \ {0} : WeightAt(v, j) < WeightAt(w, j) => j \in DOMAIN v \cup DOMAIN w
  BY <1>2 DEF WeightAt
<1>5. Before(a, b) <=> \E j \in Nat \ {0} : WeightAt(v, j) < WeightAt(w, j) /\ \A i \in 1 .. j - 1 : WeightAt(v, i) = WeightAt(w, i)
  BY DEF Before, v, w
<1>6. Lighter(v, w) <=> Before(a, b)
  BY <1>3, <1>4, <1>5 DEF Lighter
<1>7. Before(b, a) <=> \E j \in Nat \ {0} : WeightAt(w, j) < WeightAt(v, j) /\ \A i \in 1 .. j - 1 : WeightAt(w, i) = WeightAt(v, i)
  BY DEF Before, v, w
<1>8. ~(Before(a, b) /\ Before(b, a))
  <2> SUFFICES ASSUME Before(a, b), Before(b, a) PROVE FALSE
    OBVIOUS
  <2>1. PICK j \in Nat \ {0} : WeightAt(v, j) < WeightAt(w, j) /\ \A i \in 1 .. j - 1 : WeightAt(v, i) = WeightAt(w, i)
    BY <1>5
  <2>2. PICK m \in Nat \ {0} : WeightAt(w, m) < WeightAt(v, m) /\ \A i \in 1 .. m - 1 : WeightAt(w, i) = WeightAt(v, i)
    BY <1>7
  <2>3. CASE j < m
    <3>1. j \in 1 .. m - 1
      BY <2>3
    <3> QED BY <1>2, <2>1, <2>2, <3>1
  <2>4. CASE m < j
    <3>1. m \in 1 .. j - 1
      BY <2>4
    <3> QED BY <1>2, <2>1, <2>2, <3>1
  <2>5. CASE j = m
    BY <1>2, <2>1, <2>2, <2>5
  <2> QED BY <2>3, <2>4, <2>5
<1>9. ~(Before(a, b) /\ Level(a, b))
  BY <1>2, <1>5 DEF Level, v, w
<1> QED BY <1>6, <1>8, <1>9 DEF v, w

(* verrevcmp is negative, zero or positive as the policy orders two parts. *)
LEMMA VerrevcmpIsOrder ==
  ASSUME NEW a \in Parts, NEW b \in Parts
  PROVE  LET n == verrevcmp[<<a, b>>]
             lighter(x, y) == Lighter(Weights(x), Weights(y))
         IN  n \in Int /\ (n < 0 <=> lighter(a, b)) /\ (n > 0 <=> lighter(b, a))
<1> DEFINE n == verrevcmp[<<a, b>>]
<1>1. Sorts(a, b, n)
  BY VerrevcmpSorts
<1> HIDE DEF n
<1>2. n \in Int /\ (n < 0 => Before(a, b)) /\ (n > 0 => Before(b, a)) /\ (n = 0 => Level(a, b)) /\ (n < 0 \/ n > 0 \/ n = 0)
  BY <1>1 DEF Sorts
<1>3. Level(a, b) => Level(b, a)
  BY DEF Level
<1>4. /\ Lighter(Weights(a), Weights(b)) <=> Before(a, b)
      /\ ~(Before(a, b) /\ Before(b, a)) /\ ~(Before(a, b) /\ Level(a, b))
  BY LighterIs
<1>5. /\ Lighter(Weights(b), Weights(a)) <=> Before(b, a)
      /\ ~(Before(b, a) /\ Level(b, a))
  BY LighterIs
<1>6. (n < 0 <=> Before(a, b)) /\ (n > 0 <=> Before(b, a))
  <2>1. ~(n < 0 /\ n > 0) /\ ~(n < 0 /\ n = 0) /\ ~(n > 0 /\ n = 0)
    BY <1>2
  <2> QED BY <1>2, <1>3, <1>4, <1>5, <2>1
<1> QED BY <1>2, <1>4, <1>5, <1>6 DEF n

(* A version splits into a number and two parts. *)
LEMMA SplitIs ==
  ASSUME NEW v \in Parts
  PROVE  split(v).epoch \in Nat /\ split(v).upstream \in Parts /\ split(v).revision \in Parts
<1> DEFINE C == {i \in 1 .. Len(v) : v[i] = ":"}
           colon == IF C # {} THEN Min(C) ELSE 0
           head == SubSeq(v, 1, colon - 1)
           rest == SubSeq(v, colon + 1, Len(v))
           H == {i \in 1 .. Len(rest) : rest[i] = "-"}
           hyphen == IF H # {} THEN Max(H) ELSE 0
           epoch == IF head # <<>> /\ \A c \in ToSet(head) : IsDigit(c) THEN Number(head) ELSE 0
           upstream == IF hyphen = 0 THEN rest ELSE SubSeq(rest, 1, hyphen - 1)
           revision == IF hyphen = 0 THEN <<"0">> ELSE SubSeq(rest, hyphen + 1, Len(rest))
<1>1. split(v) = [epoch |-> epoch, upstream |-> upstream, revision |-> revision]
  BY DEF split, SelectInSeq, SelectLastInSeq
<1>2. Len(v) \in Nat /\ v \in Seq(Known)
  BY DEF Parts
<1>3. colon \in 0 .. Len(v)
  <2>1. C # {} => Min(C) \in C
    <3> SUFFICES ASSUME C # {} PROVE Min(C) \in C
      OBVIOUS
    <3>1. C \in SUBSET Nat
      BY <1>2
    <3> HIDE DEF C
    <3>2. \E n \in C : \A m \in C : n <= m
      BY <3>1, LeastNumber
    <3> QED BY <3>2 DEF Min
  <2> QED BY <1>2, <2>1
<1> HIDE DEF C, colon
<1>4. head \in Seq(Known) /\ rest \in Seq(Known)
  BY <1>2, <1>3
<1> HIDE DEF head, rest
<1>5. hyphen \in 0 .. Len(rest) /\ Len(rest) \in Nat
  <2>1. H # {} => Max(H) \in H
    <3> SUFFICES ASSUME H # {} PROVE Max(H) \in H
      OBVIOUS
    <3>1. H \subseteq Nat /\ H \subseteq 1 .. Len(rest) /\ Len(rest) \in Nat
      BY <1>4
    <3> HIDE DEF H
    <3>2. IsFiniteSet(H)
      <4>1. IsFiniteSet(1 .. Len(rest))
        BY <3>1, FS_Interval
      <4> QED BY <3>1, <4>1, FS_Subset
    <3> QED BY <3>1, <3>2, GreatestNumber
  <2> QED BY <1>4, <2>1
<1> HIDE DEF H, hyphen
<1>6. "0" \in Known /\ <<"0">> \in Seq(Known)
  <2>1. "0" \in Known
    BY DEF Known, Digits
  <2> QED BY <2>1
<1>7. upstream \in Parts /\ revision \in Parts
  BY <1>4, <1>5, <1>6 DEF Parts
<1>8. epoch \in Nat
  <2> SUFFICES ASSUME \A c \in ToSet(head) : IsDigit(c) PROVE Number(head) \in Nat
    OBVIOUS
  <2>1. \A i \in 1 .. Len(head) : head[i] \in Digits
    BY <1>4 DEF ToSet, IsDigit
  <2>2. head \in Seq(Digits)
    BY <1>4, <2>1
  <2> QED BY <2>2, NumberIsNat
<1> HIDE DEF upstream, revision, epoch
<1> QED BY <1>1, <1>7, <1>8

(* A candidate is newer exactly when the policy orders the version installed before it. *)
LEMMA CompareIsPolicy ==
  ASSUME NEW left \in Parts, NEW right \in Parts
  PROVE  debian_version_compare(left, right) > 0 <=> Older(right, left)
<1> DEFINE l == split(left)
           r == split(right)
           up == verrevcmp[<<l.upstream, r.upstream>>]
           rev == verrevcmp[<<l.revision, r.revision>>]
           lighter(x, y) == Lighter(Weights(x), Weights(y))
<1>1. /\ l.epoch \in Nat /\ l.upstream \in Parts /\ l.revision \in Parts
      /\ r.epoch \in Nat /\ r.upstream \in Parts /\ r.revision \in Parts
  BY SplitIs
<1>2. debian_version_compare(left, right) =
        IF l.epoch # r.epoch THEN Sign(l.epoch - r.epoch) ELSE IF up # 0 THEN Sign(up) ELSE Sign(rev)
  BY DEF debian_version_compare
<1>3. Older(right, left) <=>
        \/ r.epoch < l.epoch
        \/ /\ r.epoch = l.epoch
           /\ \/ lighter(r.upstream, l.upstream)
              \/ ~lighter(l.upstream, r.upstream) /\ lighter(r.revision, l.revision)
  BY DEF Older
<1> HIDE DEF l, r
<1>4. up \in Int /\ (up < 0 <=> lighter(l.upstream, r.upstream)) /\ (up > 0 <=> lighter(r.upstream, l.upstream))
  BY <1>1, VerrevcmpIsOrder
<1>5. rev \in Int /\ (rev > 0 <=> lighter(r.revision, l.revision))
  BY <1>1, VerrevcmpIsOrder
<1> HIDE DEF up, rev, lighter
<1>6. \A n \in Int : Sign(n) > 0 <=> n > 0
  BY DEF Sign
<1>7. l.epoch - r.epoch \in Int /\ (l.epoch - r.epoch > 0 <=> r.epoch < l.epoch)
  BY <1>1
<1>8. CASE l.epoch # r.epoch
  BY <1>2, <1>3, <1>6, <1>7, <1>8
<1>9. CASE l.epoch = r.epoch
  <2>1. ~(r.epoch < l.epoch)
    BY <1>1, <1>9
  <2>2. CASE up # 0
    BY <1>2, <1>3, <1>4, <1>6, <1>9, <2>1, <2>2
  <2>3. CASE up = 0
    BY <1>2, <1>3, <1>4, <1>5, <1>6, <1>9, <2>1, <2>3
  <2> QED BY <2>2, <2>3
<1> QED BY <1>8, <1>9

(* A control passes or fails only when its provider says so. *)
LEMMA VerdictIsProvided ==
  ASSUME NEW check, NEW e, VerdictOf(check, e) \in {"PASS", "FAIL"}
  PROVE  Provide(check, e) = VerdictOf(check, e)
<1> DEFINE conditions == IF "applies_if" \in DOMAIN check THEN check.applies_if ELSE <<>>
           j == SelectInSeq(conditions, LAMBDA c : Applies(c, e) # TRUE)
           failed == If(Applies(conditions[j], e), "")
<1>1. VerdictOf(check, e) = IF j = 0 THEN Provide(check, e) ELSE failed
  BY DEF VerdictOf
<1>2. failed \notin {"PASS", "FAIL"}
  BY DEF If
<1> HIDE DEF j, conditions, failed
<1>3. j = 0
  BY <1>1, <1>2
<1> QED BY <1>1, <1>3

(* An installed package that is judged is compared by versions the model knows. *)
LEMMA CurrentIsPolicy ==
  ASSUME NEW fam, NEW h, VersionHost(fam, h), NEW p \in AskedPackages(fam),
         NEW e, e.val = h, package_current(e, p) \in {"PASS", "FAIL"}, Installed(e, p)
  PROVE  package_current(e, p) = "FAIL" <=> Older(Packages(e)[p], Run(e, "apt_cache").candidate[p])
<1>1. Packages(e) # Unavailable /\ apt_policy(e, p) \notin {Unavailable, Absent}
      /\ package_current(e, p) = Verdict(debian_version_compare(apt_policy(e, p), Packages(e)[p]) > 0)
  BY DEF package_current
<1>2. Packages(e)[p] \in Parts
  <2>1. Packages(e) = h.packages /\ h.packages # Absent
    BY <1>1 DEF Packages, Collect, Content, VersionHost
  <2>2. p \in DOMAIN h.packages
    BY <2>1 DEF Installed
  <2> QED BY <2>1, <2>2 DEF VersionHost
<1>3. apt_policy(e, p) \in Parts /\ apt_policy(e, p) = Run(e, "apt_cache").candidate[p]
  <2>1. Exists(e, "apt_cache") /\ Run(e, "apt_cache").ok /\ apt_policy(e, p) = Run(e, "apt_cache").candidate[p]
    BY <1>1 DEF apt_policy
  <2>2. h.apt_cache # Absent /\ Content(e, "apt_cache") = h.apt_cache
    BY <2>1 DEF Exists, Content, VersionHost
  <2>3. PICK u \in {"root", "user"} : Run(e, "apt_cache") = h.apt_cache[u]
    BY <2>2 DEF Run
  <2>4. h.apt_cache[u].candidate[p] \in Parts \cup {Absent}
    BY <2>1, <2>2, <2>3 DEF VersionHost
  <2> QED BY <1>1, <2>1, <2>3, <2>4
<1>4. debian_version_compare(apt_policy(e, p), Packages(e)[p]) > 0 <=> Older(Packages(e)[p], apt_policy(e, p))
  BY <1>2, <1>3, CompareIsPolicy
<1>5. package_current(e, p) = "FAIL" <=> debian_version_compare(apt_policy(e, p), Packages(e)[p]) > 0
  BY <1>1 DEF Verdict
<1> QED BY <1>3, <1>4, <1>5

(* The host of an audit of packages stays as it is, nothing of it is collected, and what has *)
(* just been said of a package is what its check says of this host.                          *)
VersionInv ==
  /\ RefusalInv
  /\ family \in {"packages", "versions"} =>
       /\ VersionHost(family, host)
       /\ DOMAIN cache = {}
       /\ verdicts # <<>> /\ Asked.type = "package_current" /\ Last(verdicts) \in {"PASS", "FAIL"} =>
            package_current(ViewOf(host, <<>>, root), Asked.package) = Last(verdicts)

(* What the invariant says of the last verdict. *)
LEMMA VersionInvImplies == RefusalAssumption /\ VersionInv => CurrentMeansNoNewer
<1> SUFFICES ASSUME RefusalAssumption, VersionInv, verdicts # <<>>, Asked.type = "package_current",
                    Last(verdicts) \in {"PASS", "FAIL"}, Installed(View, Asked.package)
             PROVE  Last(verdicts) = "FAIL" <=>
                      Older(Packages(View)[Asked.package], Run(View, "apt_cache").candidate[Asked.package])
  BY DEF CurrentMeansNoNewer, Judged
<1>1. Asked = Checks[family][Len(verdicts)] /\ Len(verdicts) \in DOMAIN Checks[family]
  <2>1. PICK S : verdicts \in Seq(S)
    BY DEF VersionInv, RefusalInv
  <2>2. Len(verdicts) \in Nat /\ Len(verdicts) > 0
    BY <2>1
  <2> QED BY <2>2 DEF VersionInv, RefusalInv, RefusalAssumption, Asked
<1>2. Asked.type \in TypesOf(family) /\ family \in {"accounts", "access", "kernel", "services", "boot", "audit", "paths", "packages", "versions", "esxi"}
  BY <1>1 DEF RefusalAssumption, VersionInv, RefusalInv, TypedCheck
<1>3. family \in {"packages", "versions"}
  BY <1>2 DEF TypesOf, AccountTypes, AccessTypes, KernelTypes, ServiceTypes, BootTypes, AuditTypes, PathTypes, EsxiTypes, VmTypes
<1>4. Asked.package \in AskedPackages(family)
  <2>1. Asked \in ToSet(Checks[family])
    BY <1>1 DEF ToSet
  <2> QED BY <2>1 DEF AskedPackages
<1>5. View = ViewOf(host, <<>>, root) /\ View.val = host
  <2>1. host = [i \in DOMAIN host |-> host[i]] /\ DOMAIN cache = {}
    BY <1>3 DEF VersionInv, RefusalInv, AuditedHost
  <2>2. View = ViewOf(host, <<>>, root)
    BY <2>1, NothingCollected
  <2> QED BY <2>2 DEF ViewOf
<1>6. VersionHost(family, host) /\ package_current(View, Asked.package) = Last(verdicts)
  BY <1>3, <1>5 DEF VersionInv
<1> QED BY <1>4, <1>5, <1>6, CurrentIsPolicy

(* A check of these families collects nothing. *)
LEMMA VersionAssess == RefusalAssumption /\ VersionInv /\ Assess => VersionInv'
<1> SUFFICES ASSUME RefusalAssumption, VersionInv, Assess PROVE VersionInv'
  OBVIOUS
<1>1. RefusalInv'
  BY RefusalAssess DEF VersionInv
<1>2. family' = family /\ root' = root /\ host' = host
  BY DEF Assess
<1> SUFFICES ASSUME family \in {"packages", "versions"} PROVE VersionInv'
  BY <1>1, <1>2 DEF VersionInv
<1> DEFINE n == Len(verdicts)
           check == Checks[family][n + 1]
<1>3. PICK S : verdicts \in Seq(S)
  BY DEF VersionInv, RefusalInv
<1>4. n \in Nat /\ n + 1 \in DOMAIN Checks[family]
  BY <1>3 DEF VersionInv, RefusalInv, RefusalAssumption, Assess
<1>5. check.type \in PackageTypes
  BY <1>4 DEF VersionInv, RefusalInv, RefusalAssumption, TypedCheck, TypesOf
<1>6. Reads(check, View) = {}
  BY <1>5 DEF Reads, Collected, PackageTypes
<1>7. DOMAIN cache' = {}
  BY <1>6 DEF VersionInv, Assess, Next1, Altered
<1>8. verdicts' = Append(verdicts, VerdictOf(check, View))
  BY DEF Assess, Next1
<1> HIDE DEF check
<1>9. Last(verdicts)' = VerdictOf(check, View) /\ Asked' = check
  <2>1. Len(verdicts') = n + 1 /\ verdicts'[n + 1] = VerdictOf(check, View)
    BY <1>3, <1>8
  <2> QED BY <1>2, <2>1 DEF Last, Asked, check
<1>10. ASSUME check.type = "package_current", VerdictOf(check, View) \in {"PASS", "FAIL"}
       PROVE  package_current(ViewOf(host, <<>>, root), check.package) = VerdictOf(check, View)
  <2>1. View = ViewOf(host, <<>>, root)
    BY NothingCollected DEF VersionInv, RefusalInv, AuditedHost
  <2>2. Provide(check, View) = VerdictOf(check, View)
    BY <1>10, VerdictIsProvided
  <2>3. Provide(check, View) = package_current(View, check.package)
    BY <1>10 DEF Provide, PackageVerdict
  <2> QED BY <2>1, <2>2, <2>3
<1>11. ViewOf(host, <<>>, root)' = ViewOf(host, <<>>, root) /\ VersionHost(family, host)' = VersionHost(family, host)
  BY <1>2 DEF ViewOf, VersionHost, AskedPackages
<1> QED
  <2> HIDE DEF n
  <2> QED BY <1>1, <1>2, <1>7, <1>9, <1>10, <1>11 DEF VersionInv

(* Whatever versions a package and its candidate have, of the characters the model knows and *)
(* of any length: the package is called outdated exactly when the policy of Debian orders    *)
(* the version installed before the candidate.                                               *)
THEOREM CurrentMeansNoNewerHolds == Spec => []CurrentMeansNoNewer
<1>1. Init => VersionInv
  <2> SUFFICES ASSUME Init PROVE VersionInv
    OBVIOUS
  <2>1. RefusalInv
    BY RefusalAssumption, RefusalInit
  <2>2. verdicts = <<>> /\ DOMAIN cache = {} /\ family \in Families
    BY DEF Init
  <2>3. family \in {"packages", "versions"} => VersionHost(family, host)
    BY <2>2, VersionsAssumption DEF Init
  <2> QED BY <2>1, <2>2, <2>3 DEF VersionInv
<1>2. VersionInv /\ [Next]_vars => VersionInv'
  <2> SUFFICES ASSUME VersionInv, [Next]_vars PROVE VersionInv'
    OBVIOUS
  <2>1. CASE Assess
    BY <2>1, RefusalAssumption, VersionAssess
  <2>2. CASE Edit
    <3>1. RefusalInv'
      BY <2>2, RefusalAssumption, RefusalEdit DEF VersionInv
    <3>2. family' = "accounts"
      BY <2>2 DEF Edit
    <3> QED BY <3>1, <3>2 DEF VersionInv
  <2>3. CASE UNCHANGED vars
    <3>1. RefusalInv'
      BY <2>3 DEF vars, VersionInv, RefusalInv, AuditedHost
    <3> QED BY <2>3, <3>1 DEF vars, VersionInv, Asked, ViewOf, VersionHost, AskedPackages
  <2> QED BY <2>1, <2>2, <2>3 DEF Next
<1>3. VersionInv => CurrentMeansNoNewer
  BY RefusalAssumption, VersionInvImplies
<1> QED BY <1>1, <1>2, <1>3, PTL DEF Spec
=============================================================================
