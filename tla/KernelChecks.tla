---------------------------- MODULE KernelChecks ----------------------------
(***************************************************************************)
(* The providers of lsa/checks/kernel.py and the time, journal and rsyslog *)
(* providers of lsa/checks/logs.py. What they share is configuration in    *)
(* layers: directories in order of precedence, each a function from a file *)
(* name (a number, in sort order) to a file, where a file hides those of   *)
(* the same name in later directories. A tool lists the layers when it is  *)
(* there; otherwise the code walks the directories itself.                 *)
(***************************************************************************)
EXTENDS HostView, FiniteSetsExt

(* chosen: per name the file of the first directory that has it, in name order. *)
Chosen(e, dirs) ==
  LET layer == [j \in DOMAIN dirs |-> Glob(e, dirs[j])]
      names == UNION {DOMAIN layer[j] : j \in DOMAIN dirs}
      first(n) == CHOOSE j \in DOMAIN dirs : n \in DOMAIN layer[j] /\ \A k \in 1 .. j - 1 : n \notin DOMAIN layer[k]
  IN  IF \E j \in DOMAIN dirs : layer[j] = Unavailable THEN Unavailable
      ELSE [j \in 1 .. Cardinality(names) |-> layer[first(Nth(names, j))][Nth(names, j)]]

(* What the tool lists, or without it what the directories hold. *)
Listed(e, tool, dirs) == IF Exists(e, tool) /\ Run(e, tool).ok THEN Run(e, tool).out ELSE Chosen(e, dirs)

------------------------------------------------------------------------------
(* Kernel modules. A modprobe file has deny-listed modules and install commands. *)
ModprobeDirs == <<"modprobe_etc", "modprobe_lib">>

(* modprobe --showconfig prints the merged content; unreadable files fail the walk. *)
modprobe_config(e) ==
  LET files == Listed(e, "modprobe", ModprobeDirs) IN
  IF files = Unavailable \/ (~(Exists(e, "modprobe") /\ Run(e, "modprobe").ok) /\ Withheld(e, files)) THEN Unavailable
  ELSE [blacklist |-> UNION {f.blacklist : f \in ToSet(files)}, install |-> UNION {f.install : f \in ToSet(files)}]

Disabled(config, m) == \E c \in config.install : c.module = m /\ c.command \in {"/bin/false", "/bin/true"}
LoadedModules(e) == CollectOr(e, "proc_modules", {})

(* A directory of the module tree counts when it exists and is not empty. *)
module_locations(e) ==
  IF Glob(e, "module_tree") = Unavailable THEN Unavailable
  ELSE {d \in ToSet(Glob(e, "module_tree")) : d.isdir /\ ~d.empty}

kernel_module(e, m) ==
  IF module_locations(e) = Unavailable THEN "NOT_ASSESSED"
  ELSE IF module_locations(e) = {} THEN "PASS"
  ELSE Needs(<<modprobe_config(e), LoadedModules(e)>>,
             Verdict(\/ m \in LoadedModules(e)
                     \/ m \notin modprobe_config(e).blacklist
                     \/ ~Disabled(modprobe_config(e), m)))

(* modprobe -n -v replaces the configuration's answer with whatever it printed, its exit *)
(* code unread. Interfaces whose driver cannot be named leave the control undecided.      *)
wireless_interfaces(e) ==
  LET nics == Glob(e, "net_class")
      drivers == {n.driver : n \in {x \in ToSet(nics) : x.wireless}} \ {Absent}
      loadable(m) == IF Exists(e, "modprobe") THEN m \notin Run(e, "modprobe").dryrun
                     ELSE ~Disabled(modprobe_config(e), m)
  IN  IF nics = Unavailable THEN "NOT_ASSESSED"
      ELSE IF ~ \E x \in ToSet(nics) : x.wireless THEN "PASS"
      ELSE IF modprobe_config(e) = Unavailable \/ LoadedModules(e) = Unavailable \/ drivers = {} THEN "NOT_ASSESSED"
      ELSE Verdict(\E m \in drivers : loadable(m) \/ m \in LoadedModules(e) \/ m \notin modprobe_config(e).blacklist)

------------------------------------------------------------------------------
(* Kernel parameters. A sysctl file is the sequence of values it gives the parameter; real is *)
(* the path it leads to, that of another file for a link.                                     *)
SysctlDirs == <<"sysctl_etc", "sysctl_lib">>
sysctl_files(e) == Listed(e, "systemd_sysctl", SysctlDirs)

(* The file UFW applies: only while ENABLED=yes (the last one counts) and while it exists. *)
ufw_sysctl_file(e) ==
  LET conf == CollectOr(e, "ufw_conf", <<>>)
      default == CollectOr(e, "default_ufw", Absent)
  IN  IF conf = Unavailable THEN Unavailable
      ELSE IF conf = <<>> \/ Last(conf) # "yes" THEN <<>>
      ELSE IF default = Unavailable THEN Unavailable
      ELSE IF default = Absent \/ ~default.isfile THEN <<>> ELSE <<default>>

(* Bug: the layers in load order. *)
sysctl_order_forward(e) ==
  LET conf == ReadText(e, "sysctl_conf")
      main == IF conf = Absent THEN <<>> ELSE <<conf>>
  IN  ufw_sysctl_file(e) \o main \o sysctl_files(e)
(* ordered: UFW first, then /etc/sysctl.conf, then the layers from the last to the first. *)
sysctl_order(e) ==
  LET conf == ReadText(e, "sysctl_conf")
      main == IF conf = Absent THEN <<>> ELSE <<conf>>
  IN  ufw_sysctl_file(e) \o main \o Reverse(sysctl_files(e))

(* seen: a path that is no regular file (a link to /dev/null masks a file) is passed over, and *)
(* so is one that leads to a file met before.                                                  *)
Fresh(files, j) == files[j].isfile /\ \A k \in 1 .. j - 1 : files[k].isfile => files[k].real # files[j].real

(* The last line of the first file that sets the parameter; all the others are read too. *)
sysctl_configured(e) ==
  LET files == sysctl_order(e)
      read == {j \in DOMAIN files : Fresh(files, j)}
      entries == {j \in read : files[j].set # <<>>}
  IN  IF Unavailable \in {ufw_sysctl_file(e), sysctl_files(e), ReadText(e, "sysctl_conf")} THEN Unavailable
      ELSE IF ~e.root /\ \E j \in read : files[j].private THEN Unavailable
      ELSE IF entries = {} THEN Absent ELSE Last(files[Min(entries)].set)

(* Both the running kernel and the configuration must hold an expected value. *)
sysctl(e, expected) ==
  Needs(<<ReadText(e, "proc_sys"), sysctl_configured(e)>>,
        Verdict(ReadText(e, "proc_sys") \notin expected \/ sysctl_configured(e) \notin expected))

------------------------------------------------------------------------------
(* systemd options (lsa/checks/logs.py). A file has for each option the sequence of values it  *)
(* sets and the value it documents; the main file is the first of its directory list.          *)
SystemdDirs == <<"systemd_etc_d", "systemd_lib_d">>
SystemdMain == <<"systemd_etc", "systemd_lib">>

systemd_config_files(e) ==
  LET j == SelectInSeq(SystemdMain, LAMBDA f : Exists(e, f))
      dropins == Chosen(e, SystemdDirs)
  IN  IF Exists(e, "systemd_analyze") /\ Run(e, "systemd_analyze").ok THEN Run(e, "systemd_analyze").out
      ELSE IF dropins = Unavailable \/ (j # 0 /\ ReadText(e, SystemdMain[j]) = Unavailable) THEN Unavailable
      ELSE (IF j = 0 THEN <<>> ELSE <<Content(e, SystemdMain[j])>>) \o dropins

(* The last assignment of the last file; without one the base files are read up to the first *)
(* that documents the option.                                                                *)
systemd_option(e, option) ==
  LET files == systemd_config_files(e)
      j == SelectLastInSeq(files, LAMBDA f : f.set[option] # <<>>)
      base == SelectInSeq(SystemdMain, LAMBDA f : Closed(e, f) \/ (Content(e, f) # Absent /\ Content(e, f).documented[option] # Absent))
  IN  IF files = Unavailable \/ Withheld(e, files) THEN Unavailable
      ELSE IF j # 0 THEN [value |-> Last(files[j].set[option]), default |-> Absent]
      ELSE IF base = 0 THEN [value |-> Absent, default |-> Absent]
      ELSE IF Closed(e, SystemdMain[base]) THEN Unavailable
      ELSE [value |-> Absent, default |-> Content(e, SystemdMain[base]).documented[option]]

systemd_config(e, check) ==
  IF check.package # "" /\ Packages(e) = Unavailable THEN "NOT_ASSESSED"
  ELSE IF check.package # "" /\ ~Installed(e, check.package) THEN "PASS"
  ELSE Needs(<<systemd_option(e, check.option)>>,
             LET o == systemd_option(e, check.option)
                 default == IF o.default # Absent THEN o.default ELSE check.builtin
             IN  Verdict(IF o.value # Absent THEN o.value \notin check.expected ELSE default \notin check.expected))

journald_to_rsyslog(e) ==
  LET forward == systemd_option(e, "ForwardToSyslog") IN
  Needs(<<forward, Units(e)>>,
        Verdict(forward.value # "yes" \/ \E u \in {"rsyslog", "journald"} : ~Units(e)[u].active))

(* found: the servers of the options that set any. *)
timesyncd_servers(e, approved) ==
  LET ntp == systemd_option(e, "NTP")
      fallback == systemd_option(e, "FallbackNTP")
      found == {ntp.value, fallback.value} \ {Absent, ""}
  IN  Needs(<<ntp, fallback>>, Verdict(found = {} \/ (approved # {} /\ ~(found \subseteq approved))))

single_time_daemon(e) ==
  Needs(<<Units(e)>>, Verdict(InUse(Units(e)["timesyncd"]) = InUse(Units(e)["chrony"])))

------------------------------------------------------------------------------
(* rsyslog: the lines of rsyslog.conf and of rsyslog.d. *)
rsyslog_lines(e) ==
  LET main == IF Exists(e, "rsyslog_conf") THEN ReadText(e, "rsyslog_conf") ELSE <<>>
      below == Glob(e, "rsyslog_d")
  IN  IF main = Unavailable \/ below = Unavailable THEN Unavailable ELSE main \o below

Tagged(e, key) == SelectSeq(rsyslog_lines(e), LAMBDA x : x.key = key)

rsyslog_file_create_mode(e) ==
  Needs(<<rsyslog_lines(e)>>,
        Verdict(Tagged(e, "mode") = <<>> \/ \E x \in ToSet(Tagged(e, "mode")) : x.value # "0640"))
rsyslog_no_remote_input(e) == Needs(<<rsyslog_lines(e)>>, Verdict(Tagged(e, "input") # <<>>))
rsyslog_gtls(e) ==
  Needs(<<rsyslog_lines(e)>>,
        Verdict(Tagged(e, "driver") = <<>> \/ \E x \in ToSet(Tagged(e, "driver")) : x.value # "gtls"))

(* chrony.conf and the files of every confdir and sourcedir it names; a source is a host. *)
chrony_files(e) ==
  LET conf == CollectOr(e, "chrony_conf", [sources |-> {}, dirs |-> <<>>])
      more == [j \in DOMAIN conf.dirs |-> Glob(e, conf.dirs[j])]
  IN  IF conf = Unavailable THEN Unavailable
      ELSE IF \E j \in DOMAIN more : more[j] = Unavailable \/ Withheld(e, more[j]) THEN Unavailable
      ELSE conf.sources \cup UNION {f.sources : f \in ToSet(FlattenSeq(more))}

chrony_sources(e, approved) ==
  Needs(<<chrony_files(e)>>,
        Verdict(chrony_files(e) = {} \/ (approved # {} /\ ~(chrony_files(e) \subseteq approved))))

(* A process whose name may not be read is passed over like one that is not chronyd. *)
chrony_user(e) ==
  LET seen == SelectSeq(Glob(e, "proc"), LAMBDA p : e.root \/ ~p.hidepid)
      daemons == {p \in ToSet(seen) : p.comm = "chronyd"}
  IN  Needs(<<Glob(e, "proc")>>, Verdict(\E p \in daemons : UserName(e, p.uid) # "_chrony"))

KernelVerdict(check, e) ==
  CASE check.type = "kernel_module" -> kernel_module(e, check.module)
    [] check.type = "wireless_interfaces" -> wireless_interfaces(e)
    [] check.type = "sysctl" -> sysctl(e, check.expected)
    [] check.type = "systemd_config" -> systemd_config(e, check)
    [] check.type = "journald_to_rsyslog" -> journald_to_rsyslog(e)
    [] check.type = "timesyncd_servers" -> timesyncd_servers(e, check.approved)
    [] check.type = "single_time_daemon" -> single_time_daemon(e)
    [] check.type = "rsyslog_file_create_mode" -> rsyslog_file_create_mode(e)
    [] check.type = "rsyslog_no_remote_input" -> rsyslog_no_remote_input(e)
    [] check.type = "rsyslog_gtls" -> rsyslog_gtls(e)
    [] check.type = "chrony_sources" -> chrony_sources(e, check.approved)
    [] check.type = "chrony_user" -> chrony_user(e)
=============================================================================
