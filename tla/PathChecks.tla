----------------------------- MODULE PathChecks -----------------------------
(***************************************************************************)
(* The path, mount and log providers of lsa/checks/filesystem.py. Targets  *)
(* are fixed paths, globs, walks, or the sources that other modules of     *)
(* checks register.                                                        *)
(***************************************************************************)
EXTENDS AuditChecks, ServiceChecks, PackageChecks

(* The paths a source names; of a glob or a walk, those the directory has. *)
SourcePaths(e, name) ==
  CASE name = "audit_log_files" -> IF audit_log_files(e) = Unavailable THEN Unavailable ELSE ToSet(audit_log_files(e))
    [] name = "audit_tools" -> audit_tools(e)
    [] name = "sshd_config_dropins" -> sshd_config_dropins(e)
    [] name = "sshd_include_dirs" -> sshd_include_dirs(e)
    [] name = "sshd_private_hostkeys" -> sshd_private_hostkeys(e)
    [] name = "sshd_public_hostkeys" -> sshd_public_hostkeys(e)
    [] name = "apt_keyring_files" -> apt_keyring_files(e)
    [] name = "apt_signed_by_keys" -> apt_signed_by_keys(e)
    [] name = "privileged_files" -> privileged_files(e)
Listing(s) == IF s = Unavailable THEN Unavailable ELSE ToSet(s)
Paths(e, t) ==
  CASE t.kind = "path" -> IF Exists(e, t.at) THEN {t.at} ELSE {}
    [] t.kind = "glob" -> Listing(Glob(e, t.at))
    [] t.kind = "find" -> Listing(WalkFiles(e, t.at))
    [] t.kind = "source" -> SourcePaths(e, t.at)
Refused(e, t) == Paths(e, t) = Unavailable
Gone(e, t) == t.kind = "path" /\ ~Exists(e, t.at)

(* A path that several targets list is judged by the first of them. *)
file_permissions(e, check) ==
  LET ts == check.targets
      first(p) == ts[SelectInSeq(ts, LAMBDA t : p \in Paths(e, t))]
      inspected == {p \in UNION {Paths(e, t) : t \in ToSet(ts)} : Meta(e, p) # Absent}
      problem(p) == \/ PermissionProblem(e, Meta(e, p), first(p).mask, first(p).owners, first(p).groups)
                    \/ check.file_type = "dir" /\ ~Meta(e, p).isdir
  IN  IF check.prerequisite # "" /\ ~Exists(e, check.prerequisite) THEN "FAIL"
      ELSE IF \E t \in ToSet(ts) : Refused(e, t) \/ (Gone(e, t) /\ t.missing = "unassessed") THEN "NOT_ASSESSED"
      ELSE IF \E p \in inspected : Meta(e, p) = Unavailable THEN "NOT_ASSESSED"
      ELSE Verdict(\/ \E t \in ToSet(ts) : Gone(e, t) /\ t.missing = "fail"
                   \/ \E p \in inspected : problem(p)
                   \/ inspected = {} /\ check.require_targets)

(* The last mount of a target is the one in effect. *)
MountAt(e, path) ==
  LET j == SelectLastInSeq(Collect(e, "mounts"), LAMBDA m : m.target = path)
  IN  IF j = 0 THEN Absent ELSE Collect(e, "mounts")[j]

(* A unit whose state cannot be read is not held against the mount. *)
mount_exists(e, check) ==
  LET states == Collect(e, "units") IN
  Needs(<<Collect(e, "mounts")>>,
        Verdict(\/ MountAt(e, check.path) = Absent
                \/ check.unit # "" /\ states # Unavailable /\ states[check.unit].file \in {"masked", "disabled"}))

mount_option(e, check) ==
  Needs(<<Collect(e, "mounts")>>,
        IF MountAt(e, check.path) = Absent THEN "NOT_APPLICABLE"
        ELSE Verdict(check.option \notin MountAt(e, check.path).options))

(* _log_rule: mask, owners and groups by the name of the log; only under the last rule may *)
(* a log stay with root or with an owner that has no login shell.                           *)
log_rule(name) ==
  CASE name = "apt" -> [mask |-> {"ux", "gw", "gx", "ow", "ox"}, owners |-> {"root"}, groups |-> {"root", "adm"}]
    [] name = "wtmp" -> [mask |-> {"ux", "gx", "ow", "ox"}, owners |-> {"root"}, groups |-> {"root", "utmp"}]
    [] name = "cloud-init.log" -> [mask |-> {"ux", "gw", "gx", "ow", "ox"}, owners |-> {"root", "syslog"}, groups |-> {"root", "adm"}]
    [] name = "sssd" -> [mask |-> {"ux", "gx", "or", "ow", "ox"}, owners |-> {"root", "SSSD"}, groups |-> {"root", "SSSD"}]
    [] name = "gdm" -> [mask |-> {"ux", "gx", "or", "ow", "ox"}, owners |-> {"root"}, groups |-> {"root", "gdm", "gdm3"}]
    [] name = "journal" -> [mask |-> {"ux", "gw", "gx", "or", "ow", "ox"}, owners |-> {"root"}, groups |-> {"root", "systemd-journal"}]
    [] OTHER -> [mask |-> {"ux", "gw", "gx", "or", "ow", "ox"}, owners |-> {"root", "syslog"}, groups |-> {"root", "adm"}]

LogProblem(e, m) ==
  LET rule == log_rule(m.name)
      owner == UserName(e, m.uid)
      group == GroupName(e, m.gid)
      users == Collect(e, "passwd")
      j == SelectLastInSeq(users, LAMBDA x : x.name = owner)
      shells == IF ReadNow(e, "shells") = Absent THEN {} ELSE ReadNow(e, "shells")
      spared == m.name = "other" /\ (owner = "root" \/ j = 0 \/ users[j].shell \notin shells)
  IN  \/ m.mode \cap rule.mask # {}
      \/ ~spared /\ (owner \notin rule.owners \/ group \notin rule.groups)

log_files_access(e) ==
  LET files == WalkFiles(e, "var_log") IN
  IF Unavailable \in {files, ReadNow(e, "shells"), Collect(e, "passwd")} THEN "NOT_ASSESSED"
  ELSE IF \E p \in ToSet(files) : Meta(e, p) = Unavailable THEN "NOT_ASSESSED"
  ELSE Verdict(\E p \in ToSet(files) : Meta(e, p) # Absent /\ LogProblem(e, Meta(e, p)))

PathVerdict(check, e) ==
  CASE check.type = "file_permissions" -> file_permissions(e, check)
    [] check.type = "mount_exists" -> mount_exists(e, check)
    [] check.type = "mount_option" -> mount_option(e, check)
    [] check.type = "log_files_access" -> log_files_access(e)
=============================================================================
