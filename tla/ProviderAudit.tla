---------------------------- MODULE ProviderAudit ----------------------------
(***************************************************************************)
(* An audit of one family of checks: its controls are evaluated one after  *)
(* the other, as in Engine.run, on a host that may change once in between. *)
(* The user databases are collected on first use and kept (System.cached); *)
(* every other object is read when it is needed. All providers of          *)
(* lsa/checks are composed here.                                           *)
(***************************************************************************)
EXTENDS AccountChecks, KernelChecks, BootChecks, EsxiChecks, PathChecks, Conditions

CONSTANTS
  Families,  \* names of families of checks
  Checks,    \* family -> sequence of checks, in the order of the definition
  Base,      \* family -> host that satisfies them
  Alts,      \* family -> set of alterations [at, is]: object and other content
  Denied,    \* family -> objects only root may open
  Hidden     \* family -> objects below a directory only root may search

VARIABLES
  family,   \* the family audited
  root,     \* whether the audit runs as root
  host,     \* object -> content now
  before,   \* object -> content when the audit began
  cache,    \* database -> content when it was collected
  verdicts  \* the verdicts given so far, in order
vars == <<family, root, host, before, cache, verdicts>>

Databases == {"passwd", "group", "shadow", "shells", "login_defs"}
(* What f says, and of everything else what h says. *)
Altered(h, f) == [i \in DOMAIN h \cup DOMAIN f |-> IF i \in DOMAIN f THEN f[i] ELSE h[i]]

(* Bug: the user databases are read again for each check. *)
ViewFresh(h, snapshot, r) ==
  [root |-> r, val |-> h, now |-> h, denied |-> Denied[family], hidden |-> Hidden[family]]
ViewOf(h, snapshot, r) ==
  [root |-> r, val |-> IF snapshot = <<>> THEN h ELSE Altered(h, snapshot), now |-> h,
   denied |-> Denied[family], hidden |-> Hidden[family]]
View == ViewOf(host, cache, root)

(* The provider of the check. *)
Provide(check, e) ==
  CASE family = "accounts" -> AccountVerdict(check, e)
    [] family = "access" -> AccessVerdict(check, e)
    [] family = "kernel" -> KernelVerdict(check, e)
    [] family = "services" -> ServiceVerdict(check, e)
    [] family = "boot" -> BootVerdict(check, e)
    [] family = "audit" -> AuditVerdict(check, e)
    [] family = "paths" -> PathVerdict(check, e)
    [] family \in {"packages", "versions"} -> PackageVerdict(check, e)
    [] family = "esxi" -> EsxiVerdict(check, e)

(* Engine.evaluate: the conditions in order, to the first that does not hold. *)
VerdictOf(check, e) ==
  LET conditions == IF "applies_if" \in DOMAIN check THEN check.applies_if ELSE <<>>
      j == SelectInSeq(conditions, LAMBDA c : Applies(c, e) # TRUE)
  IN  IF j = 0 THEN Provide(check, e) ELSE If(Applies(conditions[j], e), "")

(* The databases a provider collects, in its order: the first that is refused ends it.      *)
(* Naming an owner asks passwd, a group the group database.                                 *)
Raises(e, d) ==
  CASE d = "shells" -> ValidShells(e) = Unavailable
    [] d = "login_defs" -> LoginDefs(e) = Unavailable
    [] OTHER -> Collect(e, d) = Unavailable
Then(e, d, more) == IF Raises(e, d) THEN {d} ELSE {d} \cup more
DotReads(e) ==
  Then(e, "shells", Then(e, "passwd",
    IF Collect(e, "mounts") # Unavailable /\ LocalHomes(e) # {} THEN {"group"} ELSE {}))
Collected(check, e) ==
  CASE check.type = "password_aging" -> Then(e, "login_defs", {"shadow"})
    [] check.type = "inactive_lock" -> IF useradd_inactive(e) = Unavailable THEN {} ELSE {"shadow"}
    [] check.type \in {"password_change_past", "root_access", "shadow_not_empty"} -> {"shadow"}
    [] check.type = "encrypt_method" -> {"login_defs"}
    [] check.type = "default_umask" ->
         IF Glob(e, "profile_d") = Unavailable \/ ReadText(e, "profile") = Unavailable THEN {} ELSE {"login_defs"}
    [] check.type \in {"uid_zero", "gid_zero_users", "shadowed_passwords"} -> {"passwd"}
    [] check.type = "gid_zero_groups" -> {"group"}
    [] check.type = "root_path" -> IF e.root THEN Then(e, "passwd", {"login_defs"}) ELSE {}
    [] check.type = "system_account_shells" -> Then(e, "shells", Then(e, "login_defs", {"passwd"}))
    [] check.type = "nologin_accounts_locked" -> Then(e, "shells", Then(e, "shadow", {"passwd"}))
    [] check.type = "passwd_groups_exist" -> Then(e, "group", {"passwd"})
    [] check.type = "shadow_group_empty" ->
         Then(e, "group", IF FirstNamed(Collect(e, "group"), "shadow") = Absent THEN {} ELSE {"passwd"})
    [] check.type = "duplicates" -> IF check.kind \in {"uid", "user"} THEN {"passwd"} ELSE {"group"}
    [] check.type = "home_directories" -> Then(e, "shells", {"passwd"})
    [] check.type \in {"dot_files", "dot_directories"} -> DotReads(e)
    [] OTHER -> {}
(* A control whose conditions do not all hold collects none. *)
Met(check, e) ==
  "applies_if" \in DOMAIN check => \A j \in 1 .. Len(check.applies_if) : Applies(check.applies_if[j], e) = TRUE
Reads(check, e) == IF Met(check, e) THEN Collected(check, e) ELSE {}

Next1 == Checks[family][Len(verdicts) + 1]

Init ==
  /\ family \in Families
  /\ root \in BOOLEAN
  /\ host = Base[family] \/ \E j \in DOMAIN Alts[family] : host = Altered(Base[family], Alts[family][j])
  /\ before = host
  /\ cache = <<>>
  /\ verdicts = <<>>

(* Engine.evaluate of the next control. *)
Assess ==
  /\ Len(verdicts) < Len(Checks[family])
  /\ verdicts' = Append(verdicts, VerdictOf(Next1, View))
  /\ cache' = Altered(cache, [i \in Reads(Next1, View) \ DOMAIN cache |-> host[i]])
  /\ UNCHANGED <<family, root, host, before>>

(* Somebody edits a user database. Bound: one edit, of a host that was as it should be. *)
Edit ==
  /\ family = "accounts"
  /\ host = Base[family]
  /\ before = host
  /\ \E j \in DOMAIN Alts[family] :
       DOMAIN Alts[family][j] \subseteq Databases /\ host' = Altered(host, Alts[family][j])
  /\ UNCHANGED <<family, root, before, cache, verdicts>>

Next == Assess \/ Edit
Spec == Init /\ [][Next]_vars

------------------------------------------------------------------------------
(* Properties *)
Asked == Checks[family][Len(verdicts)]
Judged(types) == verdicts # <<>> /\ Asked.type \in types

(* What root is told of the same host. *)
Truth == VerdictOf(Asked, ViewOf(host, <<>>, TRUE))

(* Where the code lets a refusal decide: it asks the session of the user (security.py,      *)
(* gsettings), passes over processes it may not name (logs.py, chrony_user), reads what     *)
(* aide prints whatever its exit code (auditd.py), takes a prerequisite below a closed      *)
(* directory for missing (filesystem.py), does not hold the state of a unit it cannot read  *)
(* against a mount, judges virtual machines by those it can read (esxi.py), and passes over *)
(* a home below a closed directory when it may list all the others (accounts.py).           *)
TablesTold(e) == ValidShells(e) # Unavailable /\ Collect(e, "passwd") # Unavailable /\ Collect(e, "mounts") # Unavailable
HomePassedOver(e) ==
  /\ TablesTold(e)
  /\ \E u \in interactive_users(e) : u.home \in e.hidden
  /\ \A u \in LocalHomes(e) : ~Closed(e, u.home)
RefusalDecides(e, i) ==
  \/ Asked.type \in {"gsettings", "chrony_user", "aide_audit_tools"}
  \/ Asked.type = "file_permissions" /\ Asked.prerequisite \in Hidden[family]
  \/ Asked.type = "mount_exists" /\ i = "units"
  \/ Asked.type \in {"vmx_setting", "vmx_device_absent", "vmx_disk_mode"}
  \/ Asked.type \in {"dot_files", "dot_directories"} /\ HomePassedOver(e)

(* Without root, and whatever further object the audit may not open, a check answers what   *)
(* it answers root or withholds its verdict: no provider, collector or fallback takes a     *)
(* refused read for an empty file, a missing setting or a missing line. The names of owners *)
(* come from the C library when passwd and group are closed: those two stay open.           *)
Refusing(i) == [View EXCEPT !.denied = @ \cup {i}]
RefusalOnlyWithholds ==
  (verdicts # <<>> /\ ~root /\ host = before) =>
    \A i \in DOMAIN host \ {"passwd", "group"} :
      RefusalDecides(Refusing(i), i) \/ VerdictOf(Asked, Refusing(i)) \in {"NOT_ASSESSED", Truth}

(* README: evidence that needs privileges is reported as NOT_ASSESSED, never as a failure. *)
NeverFailsForWantOfRoot ==
  (verdicts # <<>> /\ ~root /\ host = before /\ Last(verdicts) = "FAIL") => Truth = "FAIL"

(* All verdicts of a run speak of one snapshot: each user database as it was before an edit *)
(* or as it is after, the same for every check (System.cached) but the one that reads       *)
(* /etc/shells again past the cache.                                                        *)
OneSnapshot ==
  family = "accounts" =>
    \E stale \in SUBSET {d \in Databases : before[d] # host[d]} :
      \A j \in DOMAIN verdicts :
        \/ Checks[family][j].type = "nologin_not_in_shells"
        \/ verdicts[j] = VerdictOf(Checks[family][j], ViewOf(Altered(host, [d \in stale |-> before[d]]), <<>>, root))

(* The sysctl files of a boot, in the order they are applied. systemd-sysctl applies what it   *)
(* lists, one file per name, that of /etc before that of /lib, in the order of the names.      *)
NoFile == [isfile |-> FALSE, set |-> <<>>]
Given(f) == IF f = Absent THEN NoFile ELSE f
BootLayers ==
  LET layer(d) == IF host[d] = Absent THEN <<>> ELSE host[d]
      etc == layer("sysctl_etc")
      lib == layer("sysctl_lib")
  IN  IF host.systemd_sysctl # Absent /\ host.systemd_sysctl["root"].ok THEN host.systemd_sysctl["root"].out
      ELSE [n \in 1 .. Max(DOMAIN etc \cup DOMAIN lib \cup {0}) |->
              IF n \in DOMAIN etc THEN etc[n] ELSE IF n \in DOMAIN lib THEN lib[n] ELSE NoFile]
BootUfw ==
  IF host.ufw_conf \notin {Absent, <<>>} /\ Last(host.ufw_conf) = "yes" THEN Given(host.default_ufw) ELSE NoFile
(* Of all the assignments the last one stays. *)
InForce(files) ==
  LET applied == FlattenSeq([j \in DOMAIN files |-> files[j].set]) IN
  IF applied = <<>> THEN Absent ELSE Last(applied)

(* systemd-sysctl reads /etc/sysctl.conf only through a link to it, 99-sysctl.conf, which has   *)
(* its place among the names. Without the link, or when a file with a later name sets the       *)
(* parameter too, the boot leaves another value in force than /etc/sysctl.conf sets, and the    *)
(* code, which puts it above all of them (kernel.py:169), names the wrong one.                  *)
MainOutranked ==
  /\ BootUfw.set = <<>> /\ Given(host.sysctl_conf).set # <<>>
  /\ ~ \E n \in DOMAIN BootLayers :
         BootLayers[n] = host.sysctl_conf /\ \A k \in n + 1 .. Len(BootLayers) : BootLayers[k].set = <<>>

(* The value sysctl_configured names, searching from the last layer to the first and passing    *)
(* over files met under another name, is what applying them in the order of its docstring       *)
(* leaves: the files of systemd-sysctl, /etc/sysctl.conf, the file of UFW. It is also what a    *)
(* boot, which applies /etc/sysctl.conf at the place of its link alone, leaves in force, unless *)
(* /etc/sysctl.conf is outranked.                                                               *)
BootAppliesIt ==
  LET configured == sysctl_configured(ViewOf(host, <<>>, TRUE)) IN
  (family = "kernel" /\ configured # Unavailable) =>
    /\ configured = InForce(BootLayers \o <<Given(host.sysctl_conf), BootUfw>>)
    /\ MainOutranked \/ configured = InForce(BootLayers \o <<BootUfw>>)

(* A sysctl file is read line by line; a name is a number; a mask sets nothing; what leads to   *)
(* the same path is the same file.                                                              *)
SysctlFile(f) == f.isfile \in BOOLEAN /\ f.set \in Seq(ToSet(f.set)) /\ (~f.isfile => f.set = <<>>)
SysctlFiles(h) ==
  (UNION {IF h[d] = Absent THEN {} ELSE {h[d][n] : n \in DOMAIN h[d]} : d \in {"sysctl_etc", "sysctl_lib"}})
  \cup ({h.sysctl_conf, h.default_ufw} \ {Absent})
  \cup IF h.systemd_sysctl = Absent THEN {} ELSE ToSet(h.systemd_sysctl["root"].out)
SysctlHost(h) ==
  /\ {"systemd_sysctl", "sysctl_etc", "sysctl_lib", "sysctl_conf", "default_ufw", "ufw_conf"} \subseteq DOMAIN h
  /\ \A d \in {"sysctl_etc", "sysctl_lib"} :
       h[d] # Absent => IsFiniteSet(DOMAIN h[d]) /\ DOMAIN h[d] \subseteq Nat \ {0}
  /\ h.systemd_sysctl # Absent => h.systemd_sysctl["root"].out \in Seq(ToSet(h.systemd_sysctl["root"].out))
  /\ \A f \in SysctlFiles(h) : SysctlFile(f) /\ \A g \in SysctlFiles(h) : f.real = g.real => f = g
ASSUME SysctlAssumption ==
  "kernel" \in Families =>
    SysctlHost(Base["kernel"]) /\ \A j \in DOMAIN Alts["kernel"] : SysctlHost(Altered(Base["kernel"], Alts["kernel"][j]))

(* The files the SSH checks read are those the server reads: the main file and whatever an  *)
(* Include of a file it reads matches - the least set of files closed under that - through  *)
(* files that include each other, each once; so a limit that passes is exceeded in none.    *)
(* An Include has wildcards in its last part only: the server expands those of the          *)
(* directories too, the code (ssh.py:82) looks for a directory of that name.                *)
SshReads ==
  LET files == DOMAIN host.ssh_files
      included(p) ==
        UNION {{q \in ToSet(Default(host.ssh_dirs, i.dir, <<>>)) : q \in i.match} : i \in ToSet(host.ssh_files[p].includes)}
      closed == {R \in SUBSET files : {ssh_main} \cap files \subseteq R /\ \A p \in R : included(p) \cap files \subseteq R}
  IN  {p \in files : \A R \in closed : p \in R}
IncludesFollowed ==
  (family = "services" /\ sshd_config_files(View) # Unavailable) =>
    /\ IsInjective(sshd_config_files(View))
    /\ ToSet(sshd_config_files(View)) = SshReads
    /\ (Judged({"sshd_option"}) /\ Last(verdicts) = "PASS" /\ Asked.file_max # Absent) =>
         \A p \in SshReads : \A n \in host.ssh_files[p].limits : n <= Asked.file_max

(* The configuration is finitely many files, a directory a sequence of entries; a limit a number. *)
SshHost(h) ==
  /\ h = [i \in DOMAIN h |-> h[i]]
  /\ {"ssh_files", "ssh_dirs"} \subseteq DOMAIN h
  /\ IsFiniteSet(DOMAIN h.ssh_files)
  /\ \A d \in DOMAIN h.ssh_dirs : h.ssh_dirs[d] \in Seq(ToSet(h.ssh_dirs[d]))
  /\ \A p \in DOMAIN h.ssh_files :
       /\ h.ssh_files[p].includes \in Seq(ToSet(h.ssh_files[p].includes))
       /\ h.ssh_files[p].limits \subseteq Int
SshCheck(c) ==
  /\ c.type \in {"ufw_service", "ufw_default", "mta_local_only", "sshd_option", "sshd_access", "sshd_banner_configured"}
  /\ c.type = "sshd_option" => c.file_max = Absent \/ c.file_max \in Int
ASSUME SshAssumption ==
  "services" \in Families =>
    /\ Checks["services"] \in Seq(ToSet(Checks["services"]))
    /\ \A j \in DOMAIN Checks["services"] : SshCheck(Checks["services"][j])
    /\ SshHost(Base["services"])
    /\ \A j \in DOMAIN Alts["services"] : SshHost(Altered(Base["services"], Alts["services"][j]))

(* An event: who logged in, who acts as whom, the first argument and how the call ended. No *)
(* login is a number above all others. As in the code, the sign of an exit value is not     *)
(* told.                                                                                    *)
Unset == 2147483647
UidMin1 == audit_uid_min(View)
Ids == {"auid", "euid", "uid"}
Events == [auid : {0, UidMin1 - 1, UidMin1, UidMin1 + 1, Unset}, euid : {0, UidMin1}, uid : {UidMin1},
           exit : {0, 1, 13}, a0 : {0, 1}]
Limit(f, ev) ==
  CASE f.value.text = "UID_MIN" -> UidMin1
    [] f.value.text \in UNSET_VALUES -> Unset
    [] f.value.text \in {"uid", "euid"} -> ev[f.value.text]
    [] OTHER -> f.value.num
Holds(f, ev) ==
  \/ f.op = ">=" /\ ev[f.name] >= Limit(f, ev)
  \/ f.op = "=" /\ ev[f.name] = Limit(f, ev)
  \/ f.op = "!=" /\ ev[f.name] # Limit(f, ev)

(* What the requirements of the benchmarks ask of an event, and what reading a field of a   *)
(* rule makes of its text: no number of a word, and none that an id can have of "unset".    *)
Demand(w) ==
  \/ w.name \in Ids /\ w.op = ">=" /\ w.value.text = "UID_MIN"
  \/ w.name \in Ids /\ w.op \in {"=", "!="} /\ w.value.text = "unset"
  \/ w.op = "!=" /\ {w.name, w.value.text} = {"uid", "euid"}
  \/ /\ w.name \in {"exit", "a0"} /\ w.op \in {"=", "!="}
     /\ w.value.num # Junk /\ w.value.num \in 0 .. Unset - 1
     /\ w.value.text \notin UNSET_VALUES \cup {"UID_MIN", "uid", "euid"}
Written(f) ==
  /\ f.value.num \in Int \cup {Junk}
  /\ f.value.text \in {"UID_MIN", "uid", "euid"} => f.value.num = Junk
  /\ f.value.text \in UNSET_VALUES => f.value.num \notin 0 .. Unset - 1

(* The audits of audit rules: checks of auditd.py on such requirements, and hosts with such *)
(* rules, on which auditctl answers only root.                                              *)
RootView(fam, h) ==
  [root |-> TRUE, val |-> h, now |-> h, denied |-> Denied[fam], hidden |-> Hidden[fam]]
AuditCheck(check) ==
  /\ check.type \in {"auditd_conf", "audit_log_group", "audit_rules", "audit_privileged_commands",
                     "audit_rules_directive", "aide_audit_tools"}
  /\ check.type = "audit_rules" => \A g \in check.syscalls \cup check.watches : \A w \in g.fields : Demand(w)
AuditHost(h) ==
  /\ h = [i \in DOMAIN h |-> h[i]]
  /\ h.login_defs = Absent \/ h.login_defs.uid_min \in 1 .. Unset - 1
  /\ h.auditctl = Absent \/ ~h.auditctl.user.ok
  /\ \A rules \in {disk_rules(RootView("audit", h)), loaded_rules(RootView("audit", h))} :
       rules = Unavailable \/ \A r \in rules : \A f \in r.fields : Written(f)
ASSUME AuditAssumption ==
  "audit" \in Families =>
    /\ Len(Checks["audit"]) \in Nat /\ DOMAIN Checks["audit"] = 1 .. Len(Checks["audit"])
    /\ \A j \in DOMAIN Checks["audit"] : AuditCheck(Checks["audit"][j])
    /\ AuditHost(Base["audit"])
    /\ \A j \in DOMAIN Alts["audit"] : AuditHost(Altered(Base["audit"], Alts["audit"][j]))

(* The audits of accounts: no home and no directory of the PATH of root is a database, and  *)
(* no condition asks whether one exists.                                                    *)
AccountTypes ==
  {"password_aging", "encrypt_method", "inactive_lock", "password_change_past", "uid_zero", "gid_zero_users",
   "gid_zero_groups", "root_access", "root_path", "root_umask", "default_umask", "system_account_shells",
   "nologin_accounts_locked", "nologin_not_in_shells", "shell_timeout", "shadowed_passwords", "shadow_not_empty",
   "passwd_groups_exist", "shadow_group_empty", "duplicates", "home_directories", "dot_files", "dot_directories"}
AccountCondition(c) ==
  /\ c.type \in {"package_installed", "sshd_installed", "cron_installed", "gdm_installed", "not_router",
                "ipv6_enabled", "path_exists"}
  /\ c.type = "path_exists" => c.path \notin Databases
AccountCheck(check) ==
  /\ check.type \in AccountTypes
  /\ "applies_if" \in DOMAIN check =>
       /\ Len(check.applies_if) \in Nat
       /\ \A j \in 1 .. Len(check.applies_if) : AccountCondition(check.applies_if[j])
AccountHost(h) ==
  /\ Databases \cup {"rootshell"} \subseteq DOMAIN h
  /\ \A d \in ToSet(h.rootshell.root.out) : d \notin Databases
  /\ h.passwd # Absent => \A x \in ToSet(h.passwd) : x.home \notin Databases
ASSUME AccountsAssumption ==
  "accounts" \in Families =>
    /\ Len(Checks["accounts"]) \in Nat /\ DOMAIN Checks["accounts"] = 1 .. Len(Checks["accounts"])
    /\ \A j \in DOMAIN Checks["accounts"] : AccountCheck(Checks["accounts"][j])
    /\ AccountHost(Base["accounts"])
    /\ \A j \in DOMAIN Alts["accounts"] : AccountHost(Altered(Base["accounts"], Alts["accounts"][j]))

(* Two kinds of rules the code accepts although they miss events are left out: one that a   *)
(* field the requirement does not ask for narrows (_fields_ok), and one with a negative     *)
(* number for a threshold, which the kernel takes for a number above all others. So is what *)
(* an earlier "never" rule keeps from being met.                                            *)
Narrowed(r, wanted) ==
  /\ fields_ok(r, wanted, UidMin1)
  /\ \E f \in r.fields : \/ f.op = ">=" /\ f.value.num # Junk /\ f.value.num < 0
                         \/ \A w \in wanted : ~field_matches(f, w, UidMin1)
Records(r, wanted, ev) == Narrowed(r, wanted) \/ \A f \in r.fields : f.name \in DOMAIN ev /\ Holds(f, ev)
Wanted(g) == {ev \in Events : \A w \in g.fields : Holds(w, ev)}
OnCall(r, arch, call) ==
  /\ exit_rule(r) /\ r.path = Absent /\ (IF r.arch = Absent THEN native(View) ELSE r.arch) = arch
  /\ {call, "all"} \cap r.syscalls # {}
OnFile(r, path, access) ==
  norm(r.path) = norm(path) /\ access \in r.perms /\ (r.kind = "watch" \/ exit_rule(r))

(* A control on audit rules passes only when each event it wants recorded is recorded, now  *)
(* and after the next boot, on every architecture: whatever spelling of a path, a           *)
(* threshold, of "unset" and of a number the rules use.                                     *)
PassMeansAudited ==
  (family = "audit" /\ host = before /\ Judged({"audit_rules"}) /\ Last(verdicts) = "PASS") =>
    \A rules \in {disk_rules(View), loaded_rules(View)} :
      /\ \A g \in Asked.syscalls : \A arch \in required_archs(View), call \in g.names, ev \in Wanted(g) :
           \E r \in rules : OnCall(r, arch, call) /\ Records(r, g.fields, ev)
      /\ \A w \in Asked.watches : \A access \in w.perms, ev \in Wanted(w) :
           \/ w.if_exists /\ Content(View, watch_path(View, w)) = Absent
           \/ \E r \in rules : OnFile(r, watch_path(View, w), access) /\ Records(r, w.fields, ev)

(* An installed package is called outdated exactly when the policy of Debian orders its     *)
(* version before the candidate: epochs as numbers, then runs of digits as numbers and all  *)
(* else by letters, then the rest, a tilde before the end of a part.                        *)
CurrentMeansNoNewer ==
  (Judged({"package_current"}) /\ Last(verdicts) \in {"PASS", "FAIL"} /\ Installed(View, Asked.package)) =>
    (Last(verdicts) = "FAIL" <=> Older(Packages(View)[Asked.package], Run(View, "apt_cache").candidate[Asked.package]))

(* Versions are of the characters the model knows; apt-cache answers for each package asked. *)
AskedPackages(fam) == {check.package : check \in {c \in ToSet(Checks[fam]) : c.type = "package_current"}}
VersionHost(fam, h) ==
  /\ {"packages", "apt_cache"} \subseteq DOMAIN h
  /\ \A p \in AskedPackages(fam) :
       /\ h.packages # Absent /\ p \in DOMAIN h.packages => h.packages[p] \in Parts
       /\ \A u \in {"root", "user"} : h.apt_cache # Absent /\ h.apt_cache[u].ok =>
            h.apt_cache[u].candidate[p] \in Parts \cup {Absent}
ASSUME VersionsAssumption ==
  \A fam \in {"packages", "versions"} \cap Families :
    /\ VersionHost(fam, Base[fam])
    /\ \A j \in DOMAIN Alts[fam] : VersionHost(fam, Altered(Base[fam], Alts[fam][j]))
=============================================================================
