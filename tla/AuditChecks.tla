----------------------------- MODULE AuditChecks -----------------------------
(***************************************************************************)
(* The providers of lsa/checks/auditd.py. A line of audit rules is the     *)
(* sequence of its tokens, a flag and a value; a field value has its text  *)
(* and the number it is (of an errno name, the errno), Junk when it is     *)
(* none.                                                                   *)
(***************************************************************************)
EXTENDS AccessChecks

CONSTANT LIST_LIMIT   \* length at which filesystem.py cuts an inventory
ASSUME ListLimitAssumption == LIST_LIMIT \in Nat

(* _norm: one spelling per path. *)
Respelt == [x \in {"/var/run/utmp"} |-> "/run/utmp"]
norm(path) == IF path \in DOMAIN Respelt THEN Respelt[path] ELSE path
UNSET_VALUES == {"unset", "-1", "4294967295"}

(* A number of megabytes, or a value the setting allows; and no setting missing. *)
auditd_conf_check(e, settings) ==
  LET conf == ReadText(e, "auditd_conf") IN
  Needs(<<conf>>,
        Verdict(\/ conf = Absent
                \/ \E s \in settings :
                     \/ s.key \notin DOMAIN conf
                     \/ IF s.numeric THEN conf[s.key] = Junk ELSE conf[s.key] \notin s.allowed))

(* The sources of the audit permission checks; the tools are those that exist. *)
audit_log_directory(e) ==
  IF "log_file" \in DOMAIN ReadText(e, "auditd_conf") THEN ReadText(e, "auditd_conf")["log_file"] ELSE "var_log_audit"
audit_log_files(e) ==
  IF ReadText(e, "auditd_conf") \in {Unavailable, Absent} THEN Unavailable ELSE Glob(e, audit_log_directory(e))
audit_config_files(e) == WalkFiles(e, "etc_audit")
audit_tools(e) == {t \in e.val.audit_tools : Exists(e, t)}

audit_log_group(e) ==
  LET conf == ReadText(e, "auditd_conf")
      files == WalkFiles(e, audit_log_directory(e))
      group == IF "log_group" \in DOMAIN conf THEN conf["log_group"] ELSE "root"
  IN  IF conf = Unavailable THEN "NOT_ASSESSED"
      ELSE IF conf = Absent THEN "FAIL"
      ELSE IF files = Unavailable \/ \E p \in ToSet(files) : Meta(e, p) = Unavailable THEN "NOT_ASSESSED"
      ELSE Verdict(\/ group \notin {"adm", "root"}
                   \/ \E p \in ToSet(files) : /\ Meta(e, p) # Absent
                                              /\ GroupName(e, Meta(e, p).gid) \notin {"adm", "root"})

------------------------------------------------------------------------------
(* Audit rules *)
NoRule == [kind |-> "control", actions |-> {}, arch |-> Absent, syscalls |-> {}, fields |-> {},
           path |-> Absent, pathfield |-> Absent, perms |-> {}, options |-> <<>>]

ParseField(rule, token) ==
  LET f == token.value IN
  IF f = Junk THEN rule
  ELSE CASE f.name = "arch" -> [rule EXCEPT !.arch = f.value]
         [] f.name \in {"path", "dir"} /\ token.flag = "-F" -> [rule EXCEPT !.path = f.value, !.pathfield = f.name]
         [] f.name = "perm" -> [rule EXCEPT !.perms = f.value]
         [] f.name = "key" -> rule
         [] OTHER -> [rule EXCEPT !.fields = @ \cup {f}]

(* A later token overrides an earlier one of its kind, syscalls and fields add up. *)
ParseToken(rule, token) ==
  CASE token.flag = "-a" -> [rule EXCEPT !.kind = "syscall", !.actions = token.value]
    [] token.flag = "-w" -> [rule EXCEPT !.kind = "watch", !.path = token.value, !.pathfield = "watch"]
    [] token.flag = "-p" -> [rule EXCEPT !.perms = token.value]
    [] token.flag = "-k" -> rule
    [] token.flag = "-S" -> [rule EXCEPT !.syscalls = @ \cup token.value]
    [] token.flag \in {"-F", "-C"} -> ParseField(rule, token)
    [] OTHER -> [rule EXCEPT !.options = Append(@, token.flag)]
parse_rule(tokens) == FoldLeft(ParseToken, NoRule, tokens)
parse_rules(lines) == {parse_rule(lines[j]) : j \in DOMAIN lines}

disk_rules(e) ==
  LET files == Glob(e, "audit_rules_d") IN
  IF files = Unavailable \/ Withheld(e, files) THEN Unavailable
  ELSE UNION {parse_rules(files[j].rules) : j \in DOMAIN files}
loaded_rules(e) ==
  IF ~Exists(e, "auditctl") \/ ~Run(e, "auditctl").ok THEN Unavailable
  ELSE parse_rules(Run(e, "auditctl").out)

native(e) == IF e.val.machine \in {"x86_64", "aarch64"} THEN "b64" ELSE "b32"
required_archs(e) == IF e.val.machine = "x86_64" THEN {"b64", "b32"} ELSE {native(e)}

(* Bug: a threshold is met by any higher one. *)
field_matches_above(f, wanted, uid_min) ==
  IF wanted.value.text = "UID_MIN" THEN f.name = wanted.name /\ f.op = ">=" /\ f.value.num # Junk /\ f.value.num >= uid_min
  ELSE f.name = wanted.name /\ f.op = wanted.op
(* A threshold is met by any lower one; 2^32 - 1 is one more spelling of unset; the two *)
(* sides of a comparison of uids may swap; numbers are compared as numbers.              *)
field_matches(f, wanted, uid_min) ==
  LET same == f.name = wanted.name /\ f.op = wanted.op IN
  IF wanted.value.text = "UID_MIN" THEN
    f.name = wanted.name /\ f.op = ">=" /\ f.value.num # Junk /\ f.value.num <= uid_min
  ELSE IF wanted.value.text = "unset" THEN same /\ f.value.text \in UNSET_VALUES
  ELSE IF {wanted.name, wanted.value.text} = {"uid", "euid"} THEN
    f.op = "!=" /\ wanted.op = "!=" /\ {f.name, f.value.text} = {"uid", "euid"}
  ELSE IF wanted.name = "exit" \/ wanted.value.num # Junk THEN
    same /\ f.value.num # Junk /\ f.value.num = wanted.value.num
  ELSE same /\ f.value.text = wanted.value.text
fields_ok(rule, wanted, uid_min) == \A w \in wanted : \E f \in rule.fields : field_matches(f, w, uid_min)
exit_rule(rule) == rule.kind = "syscall" /\ rule.actions = {"always", "exit"}

watch_found(rules, path, perms, wanted, uid_min) ==
  \E r \in rules :
    /\ norm(r.path) = norm(path)
    /\ perms \subseteq r.perms
    /\ \/ r.kind = "watch" /\ wanted = {}
       \/ /\ exit_rule(r) /\ r.pathfield \in {"path", "dir"}
          /\ r.syscalls = {} \/ "all" \in r.syscalls
          /\ fields_ok(r, wanted, uid_min)

syscall_found(rules, arch, natively, syscall, wanted, uid_min) ==
  \E r \in rules :
    /\ exit_rule(r) /\ r.path = Absent
    /\ (IF r.arch = Absent THEN natively ELSE r.arch) = arch
    /\ {syscall, "all"} \cap r.syscalls # {}
    /\ fields_ok(r, wanted, uid_min)

(* The last log file a sudoers line names. *)
sudo_log_path(e) ==
  LET j == SelectLastInSeq(sudoers_lines(e), LAMBDA x : x.log # Absent)
  IN  IF j = 0 THEN Absent ELSE sudoers_lines(e)[j].log

audit_uid_min(e) == CollectOr(e, "login_defs", [uid_min |-> 1000]).uid_min
watch_path(e, w) == IF w.path = "@sudo_logfile" THEN sudo_log_path(e) ELSE w.path
missing_requirements(e, check, rules) ==
  \/ \E w \in check.watches :
       /\ ~w.if_exists \/ Exists(e, watch_path(e, w))
       /\ ~watch_found(rules, watch_path(e, w), w.perms, w.fields, audit_uid_min(e))
  \/ \E g \in check.syscalls, a \in required_archs(e) : \E n \in g.names :
       ~syscall_found(rules, a, native(e), n, g.fields, audit_uid_min(e))

(* Rules missing on disk fail the control even when the loaded ones cannot be read; only a *)
(* complete disk leaves it undecided then.                                                  *)
OnDiskAndLoaded(e, Missing(_)) ==
  IF disk_rules(e) = Unavailable THEN "NOT_ASSESSED"
  ELSE IF Missing(disk_rules(e)) THEN "FAIL"
  ELSE IF loaded_rules(e) = Unavailable THEN "NOT_ASSESSED"
  ELSE Verdict(Missing(loaded_rules(e)))

audit_rules(e, check) ==
  LET sudo == \E w \in check.watches : w.path = "@sudo_logfile" IN
  IF sudo /\ sudoers_lines(e) = Unavailable THEN "NOT_ASSESSED"
  ELSE IF sudo /\ sudo_log_path(e) = Absent THEN "FAIL"
  ELSE IF CollectOr(e, "login_defs", Absent) = Unavailable THEN "NOT_ASSESSED"
  ELSE OnDiskAndLoaded(e, LAMBDA rules : missing_requirements(e, check, rules))

(* Every set-uid program the filesystem scan found and kept; no mount to scan proves nothing. *)
mentions(rules, path) == \E r \in rules : norm(r.path) = path
privileged_files(e) == ToSet(Upto(e.val.scan.privileged, LIST_LIMIT))
audit_privileged_commands(e) ==
  IF e.val.scan.mounts = {} THEN "NOT_ASSESSED"
  ELSE OnDiskAndLoaded(e, LAMBDA rules : \E p \in privileged_files(e) : ~mentions(rules, p))

audit_rules_directive(e, directive) ==
  Needs(<<disk_rules(e)>>, Verdict(~ \E r \in disk_rules(e) : IsPrefix(directive, r.options)))

(* aide -p prints the attributes of each tool that exists; its exit code is not read. *)
aide_audit_tools(e, required) ==
  LET tools == audit_tools(e) IN
  Verdict(\/ ~Exists(e, "aide")
          \/ ~Exists(e, "aide_conf")
          \/ tools = {}
          \/ \E t \in tools : ~(required \subseteq Run(e, "aide")[t]))

AuditVerdict(check, e) ==
  CASE check.type = "auditd_conf" -> auditd_conf_check(e, check.settings)
    [] check.type = "audit_log_group" -> audit_log_group(e)
    [] check.type = "audit_rules" -> audit_rules(e, check)
    [] check.type = "audit_privileged_commands" -> audit_privileged_commands(e)
    [] check.type = "audit_rules_directive" -> audit_rules_directive(e, check.directive)
    [] check.type = "aide_audit_tools" -> aide_audit_tools(e, check.required)
=============================================================================
