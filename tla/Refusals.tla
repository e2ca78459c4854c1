------------------------------ MODULE Refusals ------------------------------
(***************************************************************************)
(* The audits of which RefusalOnlyWithholds is proved: the types of checks *)
(* of each family, the objects a check asks after by name (exists, is_dir  *)
(* and which answer FALSE below a closed directory, they do not raise),    *)
(* and what commands tell a user who is not root.                          *)
(***************************************************************************)
EXTENDS ProviderAudit

AccessTypes ==
  {"sudo_use_pty", "sudo_logfile", "sudo_forbidden", "sudo_timestamp_timeout", "su_restricted", "pam_module_enabled",
   "faillock_option", "faillock_root", "pwquality_option", "pwhistory_option", "pam_unix_args"}
KernelTypes ==
  {"kernel_module", "wireless_interfaces", "sysctl", "systemd_config", "journald_to_rsyslog", "timesyncd_servers",
   "single_time_daemon", "rsyslog_file_create_mode", "rsyslog_no_remote_input", "rsyslog_gtls", "chrony_sources", "chrony_user"}
ServiceTypes ==
  {"ufw_service", "ufw_default", "mta_local_only", "sshd_option", "sshd_access", "sshd_banner_configured"}
BootTypes ==
  {"banner_content", "bootloader_password", "grub_cmdline", "core_dump_limit", "apport_disabled", "gsettings", "gdm_config",
   "apparmor_enabled", "apparmor_enforcing"}
AuditTypes ==
  {"auditd_conf", "audit_log_group", "audit_rules", "audit_privileged_commands", "audit_rules_directive", "aide_audit_tools"}
PathTypes == {"file_permissions", "mount_exists", "mount_option", "log_files_access"}
PackageTypes ==
  {"package_installed", "package_absent", "package_current", "unit_state", "units_not_in_use", "service_not_in_use",
   "apt_config", "apt_sources_https"}
VmTypes == {"vmx_setting", "vmx_device_absent", "vmx_disk_mode"}
EsxiTypes ==
  {"esxi_advanced", "esxi_mob_disabled", "esxi_acceptance", "esxi_ntp", "esxi_service_disabled", "esxi_lockdown",
   "esxi_coredump_network", "esxi_nonroot_admin", "esxi_vswitch_security", "esxi_portgroup_vlan", "esxi_iscsi_chap"}
TypesOf(fam) ==
  CASE fam = "accounts" -> AccountTypes
    [] fam = "access" -> AccessTypes
    [] fam = "kernel" -> KernelTypes
    [] fam = "services" -> ServiceTypes
    [] fam = "boot" -> BootTypes
    [] fam = "audit" -> AuditTypes
    [] fam = "paths" -> PathTypes
    [] fam \in {"packages", "versions"} -> PackageTypes
    [] fam = "esxi" -> EsxiTypes \cup VmTypes

ConditionTypes ==
  {"package_installed", "sshd_installed", "cron_installed", "gdm_installed", "not_router", "ipv6_enabled", "path_exists"}
ConditionsOf(check) == IF "applies_if" \in DOMAIN check THEN check.applies_if ELSE <<>>
Sources ==
  {"audit_log_files", "audit_tools", "sshd_config_dropins", "sshd_include_dirs", "sshd_private_hostkeys",
   "sshd_public_hostkeys", "apt_keyring_files", "apt_signed_by_keys", "privileged_files"}
TypedCheck(fam, check) ==
  /\ check.type \in TypesOf(fam)
  /\ Len(ConditionsOf(check)) \in Nat
  /\ \A j \in 1 .. Len(ConditionsOf(check)) : ConditionsOf(check)[j].type \in ConditionTypes
  /\ check.type = "file_permissions" =>
       /\ Len(check.targets) \in Nat /\ DOMAIN check.targets = 1 .. Len(check.targets)
       /\ \A t \in ToSet(check.targets) : t.kind \in {"path", "glob", "find"} \/ (t.kind = "source" /\ t.at \in Sources)

------------------------------------------------------------------------------
(* The objects a check asks after by name; f is what root sees. *)
(* The log directory audit_log_group walks, and the paths of the watches. *)
AuditAsks(check, f) ==
  {"sudoers", "sudoers_d", "auditctl"} \cup
  (IF check.type = "audit_log_group" /\ ReadText(f, "auditd_conf") # Absent THEN {audit_log_directory(f)} ELSE {}) \cup
  (IF check.type = "audit_rules" THEN {watch_path(f, w) : w \in check.watches} ELSE {})
(* The keys of the server and of APT. *)
ServerKeys(f) ==
  IF sshd_primary(f) = Unavailable THEN {}
  ELSE ToSet(HostKeys(f)) \cup {f.val.public_key[k] : k \in ToSet(HostKeys(f))}
ArchiveKeys(f) == UNION {s.keys : s \in ToSet(archives(f))}
PathAsks(check, f) ==
  IF check.type # "file_permissions" THEN {"var_log"}
  ELSE {"sshd", "ip", "sources_list", "usr_keyrings", "apt_trusted"} \cup f.val.audit_tools \cup ServerKeys(f) \cup ArchiveKeys(f)
       \cup {t.at : t \in {s \in ToSet(check.targets) : s.kind \in {"path", "find"}}}
KernelNames == {"modprobe", "systemd_sysctl", "systemd_analyze", "systemd_etc", "systemd_lib", "rsyslog_conf"}
Asks(fam, check, f) ==
  CASE fam = "accounts" -> {"useradd"}
    [] fam = "access" -> {"sudoers", "sudoers_d", "journalctl"}
    [] fam = "kernel" -> KernelNames
    [] fam = "services" -> {"ufw", "sshd", "ip", "postconf", "exim", "sendmail_cf", sshd_banner(f)}
    [] fam = "boot" -> Hidden[fam]
    [] fam = "audit" -> AuditAsks(check, f)
    [] fam = "paths" -> PathAsks(check, f)
    [] fam \in {"packages", "versions"} -> {"apt_cache", "apt_config", "sources_list"}
    [] fam = "esxi" -> {"esxcli", "vimcmd", "chkconfig"}
ConditionAsks(check) ==
  {"sshd", "proc_ipv6"} \cup
  {ConditionsOf(check)[j].path : j \in {k \in 1 .. Len(ConditionsOf(check)) : ConditionsOf(check)[k].type = "path_exists"}}

------------------------------------------------------------------------------
(* What commands tell a user: what they tell root, or what the code reads as a refusal. *)
AnswersAll(f, commands) == \A c \in commands : Content(f, c) # Absent => Content(f, c)["user"] = Content(f, c)["root"]
JournalAnswers(f) ==
  LET answer == Content(f, "journalctl") IN
  answer # Absent /\ answer["user"].ok /\ answer["user"].out # {} => answer["root"].ok /\ answer["root"].out # {}
SshAnswers(f) ==
  /\ sshd_contexts(f) \in Seq(ToSet(sshd_contexts(f))) /\ Len(sshd_contexts(f)) > 0
  /\ LET answer == Content(f, "sshd") IN
     answer # Absent => \A c \in ToSet(sshd_contexts(f)) : ~answer["user"][c].ok \/ answer["user"][c] = answer["root"][c]
  /\ AnswersAll(f, {"ip"})
UfwAnswers(f) ==
  LET answer == Content(f, "ufw") IN
  answer # Absent => answer["user"].refused \/ ~answer["user"].ok \/ answer["user"] = answer["root"]
ApparmorAnswers(f) ==
  LET answer == Content(f, "aa_status") IN
  answer # Absent => answer["user"].error \/ answer["user"].code \in {3, 4} \/ answer["user"] = answer["root"]
Answers(fam, f) ==
  CASE fam = "accounts" -> AnswersAll(f, {"useradd"})
    [] fam = "access" -> JournalAnswers(f)
    [] fam = "kernel" -> AnswersAll(f, {"modprobe", "systemd_sysctl", "systemd_analyze"})
    [] fam = "services" -> SshAnswers(f) /\ UfwAnswers(f) /\ AnswersAll(f, {"postconf", "exim"})
    [] fam = "boot" -> ApparmorAnswers(f)
    [] fam = "audit" -> Content(f, "auditctl") # Absent => ~Content(f, "auditctl")["user"].ok
    [] fam = "paths" -> SshAnswers(f)
    [] fam \in {"packages", "versions"} -> AnswersAll(f, {"apt_cache", "apt_config"})
    [] fam = "esxi" -> AnswersAll(f, {"esxcli", "vimcmd", "chkconfig"})

AuditedHost(fam, h) ==
  /\ h = [i \in DOMAIN h |-> h[i]]
  /\ fam = "accounts" => Databases \subseteq DOMAIN h
  /\ Answers(fam, RootView(fam, h))
  /\ \A j \in DOMAIN Checks[fam] :
       (Asks(fam, Checks[fam][j], RootView(fam, h)) \cup ConditionAsks(Checks[fam][j])) \cap Hidden[fam] = {}

(* No object a check asks after by name lies below a closed directory, the user databases   *)
(* that name owners and the states of units are nobody's to refuse, and a command that does *)
(* not refuse answers a user what it answers root.                                          *)
ASSUME RefusalAssumption ==
  /\ Families \subseteq {"accounts", "access", "kernel", "services", "boot", "audit", "paths", "packages", "versions", "esxi"}
  /\ \A fam \in Families :
       /\ {"passwd", "group", "units"} \cap (Denied[fam] \cup Hidden[fam]) = {}
       /\ Len(Checks[fam]) \in Nat /\ DOMAIN Checks[fam] = 1 .. Len(Checks[fam])
       /\ \A j \in DOMAIN Checks[fam] : TypedCheck(fam, Checks[fam][j])
       /\ AuditedHost(fam, Base[fam])
       /\ \A j \in DOMAIN Alts[fam] : AuditedHost(fam, Altered(Base[fam], Alts[fam][j]))
=============================================================================
