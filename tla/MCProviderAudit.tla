--------------------------- MODULE MCProviderAudit ---------------------------
(***************************************************************************)
(* Hosts for ProviderAudit: per family one that satisfies every check, and *)
(* alterations of it, each of which a check should notice, tolerate or be  *)
(* unable to see.                                                          *)
(***************************************************************************)
EXTENDS Refusals

Same(answer) == [root |-> answer, user |-> answer]
Only(answer, refusal) == [root |-> answer, user |-> refusal]
ToAll(keys, answer) == [k \in keys |-> answer]

Rw == {"ur", "uw"}
Rwx == {"ur", "uw", "ux"}
Octal(bits) == [kind |-> "octal", bits |-> bits, grants |-> FALSE]
User(n, u, g, h, s) == [name |-> n, pw |-> "x", uid |-> u, gid |-> g, home |-> h, shell |-> s]
Group(n, g, m) == [name |-> n, gid |-> g, members |-> m]
Shadow(n, s, m, i, l) == [name |-> n, status |-> s, hashed |-> s = "P", max |-> m, inactive |-> i, lastchg |-> l]
Mount(t, d, f, o) == [target |-> t, depth |-> d, fstype |-> f, options |-> o]
Dir(u, g, m) == [isdir |-> TRUE, isfile |-> FALSE, uid |-> u, gid |-> g, mode |-> m, path |-> {"/"}, tree |-> {}]
File(u, g, m) == [isdir |-> FALSE, isfile |-> TRUE, uid |-> u, gid |-> g, mode |-> m, path |-> {"/"}, tree |-> {}]

RootUser == User("root", 0, 0, "root home", "sh")
Daemon == User("daemon", 1, 1, "", "nologin")
Alice == User("alice", 1000, 1000, "home", "sh")
Groups == <<Group("root", 0, {}), Group("daemon", 1, {}), Group("adm", 4, {}), Group("shadow", 42, {}),
            Group("empty", 90, {}), Group("alice", 1000, {})>>
Nss == [user |-> ToAll({0, 1, 2, 1000, 1001, 65534}, "ldap user"), group |-> ToAll({0, 1, 4, 42, 90, 1000, 1001, 2000}, "ldap group")]
Common ==
  [passwd |-> <<RootUser, Daemon, Alice>>, group |-> Groups, nss |-> Nss, shells |-> {"sh", "bash"},
   mounts |-> <<Mount("/", 0, "ext4", {"nodev"})>>,
   login_defs |-> [aging |-> 90, encrypt |-> "yescrypt", umask |-> Octal(Mask027), uid_min |-> 1000]]

------------------------------------------------------------------------------
(* accounts *)
Entry(n, k, u, m) ==
  [path |-> n, above |-> {}, kind |-> k, name |-> n, dot |-> TRUE, samedev |-> TRUE, gone |-> FALSE,
   private |-> FALSE, mode |-> m, uid |-> u, gid |-> 1000]
Home(tree) == [Dir(1000, 1000, Rwx) EXCEPT !.tree = tree]
Tmout(v, r) == [mentions |-> TRUE, values |-> v, readonly |-> r, exported |-> TRUE]
GoodShadow == <<Shadow("root", "P", 90, 30, 10), Shadow("daemon", "L", Absent, Absent, Absent), Shadow("alice", "P", 90, 30, 10)>>
AccountsBase ==
  [shadow |-> GoodShadow, default_useradd |-> 30, useradd |-> Same([ok |-> TRUE, out |-> 30]),
   rootshell |-> Same([ok |-> TRUE, out |-> <<"bin">>]), bin |-> Dir(0, 0, Rwx),
   root_dot |-> <<Octal(Mask077)>>, profile |-> <<>>, profile_d |-> <<>>, tmout |-> <<Tmout({900}, TRUE)>>,
   cellar |-> Home({Entry(".netrc", "file", 1000, Rwx)})] @@
  ("root home" :> Dir(0, 0, Rwx)) @@ ("lost" :> Absent) @@ ("home" :> Home({Entry(".profile", "file", 1000, Rw), Entry(".config", "dir", 1000, Rwx)})) @@ Common

Min90 == [op |-> "range", min |-> 1, max |-> 90]
AccountsChecks == <<
  [type |-> "password_aging", rule |-> Min90], [type |-> "encrypt_method", allowed |-> {"yescrypt", "sha512"}],
  [type |-> "inactive_lock", rule |-> [op |-> "range", min |-> 0, max |-> 45]],
  [type |-> "password_change_past", today |-> 20], [type |-> "uid_zero"], [type |-> "gid_zero_users"],
  [type |-> "gid_zero_groups"], [type |-> "root_access"], [type |-> "root_path"], [type |-> "root_umask"],
  [type |-> "system_account_shells"], [type |-> "nologin_accounts_locked"], [type |-> "nologin_not_in_shells"],
  [type |-> "shell_timeout", max |-> 900], [type |-> "default_umask"], [type |-> "shadowed_passwords"],
  [type |-> "shadow_not_empty"], [type |-> "passwd_groups_exist"], [type |-> "shadow_group_empty"],
  [type |-> "duplicates", kind |-> "uid"], [type |-> "duplicates", kind |-> "gid"],
  [type |-> "duplicates", kind |-> "user"], [type |-> "duplicates", kind |-> "group"],
  [type |-> "home_directories"], [type |-> "dot_files"], [type |-> "dot_directories"]>>

Passwd(users) == "passwd" :> (<<RootUser, Daemon>> \o users)
ShadowOf(x) == "shadow" :> (SubSeq(GoodShadow, 1, 2) \o x)
AccountsAlts ==
  <<ShadowOf(<<Shadow("alice", "P", 99999, -1, 30)>>), ShadowOf(<<Shadow("alice", "NP", 90, 30, 10)>>),
   ShadowOf(<<Shadow("alice", "P", Junk, Absent, Junk)>>), "shadow" :> Tail(GoodShadow),
   "login_defs" :> [aging |-> 99999, encrypt |-> "md5", umask |-> Absent, uid_min |-> 1000],
   "login_defs" :> Absent, "useradd" :> Same([ok |-> FALSE, out |-> Absent]), "default_useradd" :> Absent,
   Passwd(<<User("toor", 0, 0, "home", "sh")>>), Passwd(<<User("alice", 1000, 1001, "home", "sh")>>),
   Passwd(<<User("alice", 1000, 42, "cellar", "sh")>>), "passwd" :> <<[RootUser EXCEPT !.shell = "nologin"], User("alice", 1000, 42, "cellar", "sh")>>,
   Passwd(<<User("alice", 1000, 1000, "lost", "nologin")>>),
   Passwd(<<Alice, User("alice", 65534, 1000, "home", "bash")>>), Passwd(<<[Alice EXCEPT !.pw = ""]>>),
   "group" :> Append(Groups, Group("wheel", 0, {})), "group" :> Append(Groups, Group("root", 2000, {})),
   "group" :> <<Group("shadow", 42, {"alice"})>>,
   Passwd(<<User("bob", 1000, 2000, "home", "bash")>>) @@ ("group" :> Append(Groups, Group("bob", 2000, {}))),
   "shells" :> {"sh", "nologin"}, "shells" :> {}, "shells" :> Absent,
   "rootshell" :> Same([ok |-> TRUE, out |-> <<"bin", "">>]), "rootshell" :> Same([ok |-> FALSE, out |-> <<>>]),
   "bin" :> Dir(1000, 0, Rwx \cup {"ow"}), "bin" :> Absent, "root_dot" :> <<[Octal({}) EXCEPT !.kind = "other", !.grants = TRUE]>>,
   "profile" :> <<Octal({"gw"})>>, "profile_d" :> <<[kind |-> "symbolic", bits |-> Rwx, grants |-> FALSE]>>,
   "tmout" :> <<Tmout({0}, TRUE)>>, "tmout" :> <<Tmout({600}, FALSE)>>, "tmout" :> <<>>,
   "home" :> Absent, "home" :> [Home({}) EXCEPT !.mode = AllBits], "home" :> Home({Entry(".rhosts", "file", 1000, Rw)}),
   "home" :> Home({Entry(".ssh", "dir", 1000, Rwx \cup {"gr"})}),
   "home" :> Home({[Entry(".cache", "dir", 1000, Rwx) EXCEPT !.private = TRUE, !.gone = g] : g \in BOOLEAN}),
   "home" :> Home({[Entry("net", "dir", 1000, Rwx) EXCEPT !.dot = FALSE, !.samedev = FALSE],
                   [Entry(".netrc", "file", 0, Rwx) EXCEPT !.above = {"net"}]}),
   ("mounts" :> <<Mount("/", 0, "ext4", {}), Mount("/home", 1, "nfs", {})>>) @@
     ("home" :> [Home({Entry(".netrc", "file", 0, AllBits)}) EXCEPT !.path = {"/", "/home"}])>>

------------------------------------------------------------------------------
(* access *)
Sudo(l) == [negpty |-> FALSE, pty |-> TRUE, log |-> l, timeout |-> Absent, tags |-> {}]
Arg(n, v) == [name |-> n, value |-> v]
Pam(t, c, m, a) == [type |-> t, control |-> c, module |-> m, args |-> a]
Faillock(a) == Pam("auth", "required", "pam_faillock.so", a)
Quality(a) == Pam("password", "requisite", "pam_pwquality.so", a)
History(a) == Pam("password", "required", "pam_pwhistory.so", a)
Unix(a) == Pam("password", "sufficient", "pam_unix.so", a)
AccessBase ==
  [sudoers |-> <<Sudo("/var/log/sudo.log")>>, sudoers_d |-> <<[Sudo(Absent) EXCEPT !.timeout = 15]>>,
   packages |-> [p \in {"sudo"} |-> <<"1">>], journalctl |-> Only([ok |-> TRUE, out |-> {"sudo"}], [ok |-> TRUE, out |-> {}]),
   auth_log |-> {"sudo", "sshd"}, pam_su |-> <<Pam("auth", "required", "pam_wheel.so", <<Arg("use_uid", ""), Arg("group", "empty")>>)>>,
   common_auth |-> <<Faillock(<<Arg("deny", 4)>>)>>, common_password |-> <<Quality(<<>>), History(<<Arg("remember", 24)>>), Unix(<<Arg("yescrypt", "")>>)>>,
   faillock |-> [deny |-> 3, root_unlock_time |-> 60], pwquality |-> [minlen |-> 14], pwquality_d |-> <<[minlen |-> 8], [dcredit |-> -1]>>,
   pwhistory |-> <<>>] @@ Common
AccessChecks1 == <<
  [type |-> "sudo_use_pty"], [type |-> "sudo_logfile"], [type |-> "sudo_forbidden", tag |-> "NOPASSWD"],
  [type |-> "sudo_timestamp_timeout", max |-> 15], [type |-> "su_restricted"],
  [type |-> "pam_module_enabled", requirements |-> <<
     [file |-> "common_auth", module |-> "pam_faillock.so", type |-> "auth", args |-> {}],
     [file |-> "common_password", module |-> "pam_unix.so", type |-> "", args |-> {Arg("yescrypt", "")}]>>],
  [type |-> "faillock_option", option |-> "deny", rule |-> [op |-> "range", min |-> 1, max |-> 5]],
  [type |-> "faillock_root", min |-> 60],
  [type |-> "pwquality_option", option |-> "minlen", flag |-> FALSE, required |-> TRUE, rule |-> [op |-> "min", value |-> 14]],
  [type |-> "pwquality_option", option |-> "dcredit", flag |-> TRUE, required |-> FALSE, rule |-> [op |-> "present"]],
  [type |-> "pwhistory_option", option |-> "remember", rule |-> [op |-> "min", value |-> 24]],
  [type |-> "pam_unix_args", files |-> <<"common_auth", "common_password">>, pam_type |-> "", forbid |-> "nullok"],
  [type |-> "pam_unix_args", files |-> <<"common_password">>, pam_type |-> "password", forbid |-> "", require_any |-> {"sha512", "yescrypt"}]>>
AccessAlts ==
  <<"sudoers" :> <<[Sudo(Absent) EXCEPT !.negpty = TRUE, !.tags = {"NOPASSWD"}]>>, "sudoers" :> Absent, "sudoers_d" :> Absent,
   "sudoers" :> <<[Sudo(Absent) EXCEPT !.timeout = -1]>>, "packages" :> [p \in {"sudo-rs"} |-> <<"1">>],
   ("sudoers" :> <<Sudo(Absent)>>) @@ ("journalctl" :> Absent), ("sudoers" :> <<Sudo(Absent)>>) @@ ("journalctl" :> Absent) @@ ("auth_log" :> {}),
   "pam_su" :> <<>>, "pam_su" :> <<Pam("auth", "required", "pam_wheel.so", <<Arg("use_uid", ""), Arg("group", "gone")>>)>>,
   "common_auth" :> Absent, "common_auth" :> <<Faillock(<<Arg("deny", 9), Arg("root_unlock_time", 30)>>), Unix(<<Arg("nullok", "")>>)>>,
   "common_password" :> <<Quality(<<Arg("minlen", 6)>>), History(<<Arg("remember", 5)>>), Unix(<<Arg("md5", "")>>)>>,
   "faillock" :> [deny |-> 0], "faillock" :> Absent, "pwquality" :> [minlen |-> 6], "pwquality" :> Absent, "pwquality_d" :> Absent,
   "pwhistory" :> [remember |-> 24], "group" :> Append(Groups, Group("empty", 91, {"alice"})),
   "group" :> <<Group("empty", 90, {"alice"})>>>>

------------------------------------------------------------------------------
(* kernel *)
Unit(f, a) == [file |-> f, active |-> a, exists |-> f # "missing"]
Modprobe(b, i) == [blacklist |-> b, install |-> i, private |-> FALSE]
False(m) == [module |-> m, command |-> "/bin/false"]
Sysctl(path, values) == [isfile |-> TRUE, private |-> FALSE, set |-> values, real |-> path]
Etc(files) == [n \in DOMAIN files |-> Sysctl(<<"etc", n>>, files[n])]
Lib(files) == [n \in DOMAIN files |-> Sysctl(<<"lib", n>>, files[n])]
Main(values) == Sysctl(<<"conf">>, values)
UfwSysctl(values) == Sysctl(<<"ufw">>, values)
Mask == [Sysctl(<<"null">>, <<>>) EXCEPT !.isfile = FALSE]
(* /etc/sysctl.d/99-sysctl.conf is a link to /etc/sysctl.conf; more is what else /etc/sysctl.d has. *)
Linked(values, more) == ("sysctl_conf" :> Main(values)) @@ ("sysctl_etc" :> (99 :> Main(values) @@ Etc(more)))
SystemdOptions == {"ForwardToSyslog", "NTP", "FallbackNTP"}
Conf(values, d) ==
  [set |-> [o \in SystemdOptions |-> IF o = "FallbackNTP" THEN <<>> ELSE values],
   documented |-> [o \in SystemdOptions |-> d], private |-> FALSE]
(* timesyncd.conf with the servers to fall back to. *)
Fallback(f, values) == [f EXCEPT !.set["FallbackNTP"] = values]
Nic(w, d) == [wireless |-> w, driver |-> d]
Denylisted == Modprobe({"cramfs", "iwl"}, {False("cramfs"), False("iwl")})
KernelBase ==
  [modprobe |-> Same([ok |-> TRUE, out |-> <<Denylisted>>, dryrun |-> {"iwl"}]), modprobe_etc |-> [n \in {5} |-> Denylisted],
   modprobe_lib |-> [n \in {5} |-> Modprobe({}, {})], module_tree |-> <<[isdir |-> TRUE, empty |-> FALSE]>>, proc_modules |-> {"ext4"},
   net_class |-> <<Nic(FALSE, "e1000"), Nic(TRUE, "iwl")>>,
   systemd_sysctl |-> Absent, sysctl_etc |-> Etc([n \in {10, 30} |-> IF n = 30 THEN <<1, 0>> ELSE <<1>>]),
   sysctl_lib |-> Lib([n \in {20, 30, 50} |-> IF n = 50 THEN <<0>> ELSE <<1>>]),
   ufw_conf |-> <<"yes">>, default_ufw |-> UfwSysctl(<<0>>), sysctl_conf |-> Main(<<>>), proc_sys |-> 0,
   packages |-> [p \in {"chrony"} |-> <<"1">>], systemd_analyze |-> Absent,
   systemd_etc |-> Conf(<<>>, "no"), systemd_lib |-> Conf(<<>>, "no"), systemd_etc_d |-> [n \in {10} |-> Conf(<<"yes">>, Absent)],
   systemd_lib_d |-> [n \in {5, 10} |-> Conf(<<"no">>, Absent)],
   units |-> [u \in {"rsyslog", "journald", "timesyncd", "chrony"} |-> IF u = "timesyncd" THEN Unit("disabled", FALSE) ELSE Unit("enabled", TRUE)],
   rsyslog_conf |-> <<[key |-> "mode", value |-> "0640"], [key |-> "driver", value |-> "gtls"]>>, rsyslog_d |-> <<>>,
   chrony_conf |-> [sources |-> {"ntp1"}, dirs |-> <<"chrony_d">>], chrony_d |-> <<[sources |-> {"ntp2"}, private |-> FALSE]>>,
   proc |-> <<[comm |-> "chronyd", uid |-> 2, hidepid |-> FALSE]>>,
   ipv6_disable |-> "0", proc_ipv6 |-> "dir", ipv6_all |-> "0", ipv6_default |-> "1", network_router |-> FALSE,
   passwd |-> Append(Common.passwd, User("_chrony", 2, 1, "", "nologin"))] @@ Common
KernelChecks1 == <<
  [type |-> "kernel_module", module |-> "cramfs"], [type |-> "wireless_interfaces"], [type |-> "sysctl", expected |-> {0}],
  [type |-> "systemd_config", package |-> "chrony", option |-> "ForwardToSyslog", expected |-> {"yes"}, builtin |-> "no"],
  [type |-> "systemd_config", package |-> "", option |-> "ForwardToSyslog", expected |-> {"yes"}, builtin |-> "yes"],
  [type |-> "journald_to_rsyslog"], [type |-> "timesyncd_servers", approved |-> {"yes"}], [type |-> "single_time_daemon"],
  [type |-> "rsyslog_file_create_mode"], [type |-> "rsyslog_no_remote_input"], [type |-> "rsyslog_gtls"],
  [type |-> "chrony_sources", approved |-> {"ntp1", "ntp2"}], [type |-> "chrony_user"],
  [type |-> "sysctl", expected |-> {0}, applies_if |-> <<[type |-> "not_router"], [type |-> "ipv6_enabled"]>>]>>
KernelAlts ==
  <<"network_router" :> TRUE, "ipv6_disable" :> "1", "ipv6_disable" :> Absent, "proc_ipv6" :> Absent, "ipv6_all" :> "1", "ipv6_all" :> Absent,
   "modprobe" :> Same([ok |-> TRUE, out |-> <<Denylisted>>, dryrun |-> {}]), "modprobe" :> Same([ok |-> FALSE, out |-> <<>>, dryrun |-> {}]),
   "modprobe" :> Absent, ("modprobe" :> Absent) @@ ("modprobe_etc" :> [n \in {5} |-> [Denylisted EXCEPT !.private = TRUE]]),
   ("modprobe" :> Absent) @@ ("modprobe_etc" :> Absent), ("modprobe" :> Absent) @@ ("modprobe_etc" :> [n \in {5} |-> Modprobe({"cramfs"}, {})]),
   "module_tree" :> Absent, "module_tree" :> <<[isdir |-> TRUE, empty |-> TRUE]>>, "proc_modules" :> {"cramfs", "iwl"},
   "net_class" :> <<>>, "net_class" :> <<Nic(TRUE, Absent)>>,
   "sysctl_etc" :> Etc(60 :> <<1>>), "ufw_conf" :> <<"yes", "no">>,
   ("ufw_conf" :> <<"no">>) @@ ("sysctl_etc" :> Etc(60 :> <<0, 1>>)),
   ("ufw_conf" :> <<>>) @@ ("sysctl_etc" :> (50 :> Mask)),
   ("ufw_conf" :> Absent) @@ ("sysctl_etc" :> (50 :> [Sysctl(<<"etc", 50>>, <<1>>) EXCEPT !.private = TRUE])),
   ("ufw_conf" :> Absent) @@ ("sysctl_conf" :> Main(<<1>>)), ("ufw_conf" :> Absent) @@ ("sysctl_conf" :> Absent) @@ ("sysctl_lib" :> Absent),
   ("ufw_conf" :> <<"no">>) @@ ("sysctl_etc" :> Absent) @@ ("sysctl_lib" :> Absent),
   ("ufw_conf" :> <<"no">>) @@ Linked(<<1, 0>>, 60 :> <<1>>), ("ufw_conf" :> <<"no">>) @@ Linked(<<1>>, 100 :> <<0>>),
   Linked(<<1>>, 100 :> <<1>>),
   ("ufw_conf" :> <<"no">>) @@ Linked(<<0>>, <<>>) @@
     ("systemd_sysctl" :> Same([ok |-> TRUE, out |-> <<Lib(20 :> <<1>>)[20], Lib(30 :> <<1>>)[30], Lib(50 :> <<0>>)[50], Main(<<0>>)>>])),
   ("ufw_conf" :> <<"no">>) @@ ("sysctl_etc" :> Etc(10 :> <<0>>)) @@ ("sysctl_lib" :> Lib(50 :> <<1>>)) @@
     ("systemd_sysctl" :> Same([ok |-> TRUE, out |-> <<Etc(10 :> <<0>>)[10], Lib(50 :> <<1>>)[50]>>])),
   "systemd_sysctl" :> Same([ok |-> FALSE, out |-> <<>>]),
   "default_ufw" :> Mask, "default_ufw" :> Absent, "proc_sys" :> 1, "proc_sys" :> Absent,
   "systemd_etc_d" :> (10 :> Fallback(Conf(<<"yes">>, Absent), <<"pool">>)),
   ("systemd_etc_d" :> (10 :> Fallback(Conf(<<>>, Absent), <<"yes">>))) @@ ("systemd_lib_d" :> Absent),
   "systemd_etc_d" :> Absent, "systemd_etc_d" :> [n \in {10} |-> Conf(<<>>, Absent)], ("systemd_etc_d" :> Absent) @@ ("systemd_lib_d" :> Absent) @@ ("systemd_etc" :> Absent),
   ("systemd_etc_d" :> Absent) @@ ("systemd_lib_d" :> Absent) @@ ("systemd_etc" :> Conf(<<>>, Absent)) @@ ("systemd_lib" :> Absent),
   "systemd_analyze" :> Same([ok |-> TRUE, out |-> <<Conf(<<"yes">>, Absent), Conf(<<"no", "yes">>, Absent)>>]),
   "packages" :> <<>>, "units" :> Absent, "units" :> [u \in {"rsyslog", "journald", "timesyncd", "chrony"} |-> Unit("enabled", u = "rsyslog")],
   "rsyslog_conf" :> Absent, "rsyslog_d" :> <<[key |-> "mode", value |-> "0644"], [key |-> "input", value |-> "imtcp"], [key |-> "driver", value |-> "ptcp"]>>,
   "chrony_conf" :> Absent, "chrony_d" :> <<[sources |-> {"ntp3"}, private |-> TRUE]>>,
   "proc" :> <<[comm |-> "chronyd", uid |-> 0, hidepid |-> TRUE]>>, "proc" :> <<[comm |-> "chronyd", uid |-> 0, hidepid |-> FALSE]>>>>

------------------------------------------------------------------------------
(* services *)
Include(d, m) == [dir |-> d, match |-> m]
SshFile(i, l) == [private |-> FALSE, includes |-> i, conf |-> TRUE, limits |-> l]
SshFiles == ("sshd_config" :> SshFile(<<Include("sshd_config.d", {"a", "b"})>>, {})) @@ ("a" :> SshFile(<<Include("extra", {"c", "b"}), Include("none", {"a"})>>, {3})) @@
            ("b" :> SshFile(<<>>, {})) @@ ("c" :> SshFile(<<Include("sshd_config.d", {"a"}), Include("extra", {"d"})>>, {})) @@ ("d" :> SshFile(<<>>, {}))
SshDirs == ("sshd_config.d" :> <<"a", "b">>) @@ ("extra" :> <<"c", "d">>)
Primary == [user |-> "root", addr |-> "10.0.0.1"]
Matched == [user |-> "git", addr |-> "10.0.0.2"]
SshOptions == [permitrootlogin |-> <<"no">>, ciphers |-> <<{"aes"}>>, maxstartups |-> <<(<<10, 30, 60>>)>>, allowgroups |-> <<"ssh">>, banner |-> <<"issue_net">>, hostkey |-> <<"key">>]
Sshd(primary, matched) == Only((Primary :> primary) @@ (Matched :> matched), ToAll({Primary, Matched}, [ok |-> FALSE, values |-> <<>>]))
Answer(options) == [ok |-> TRUE, values |-> options]
Ufw(s, i, r) == Only([refused |-> FALSE, ok |-> TRUE, status |-> s, policies |-> [incoming |-> i, routed |-> r]], [refused |-> TRUE, ok |-> TRUE, status |-> "", policies |-> <<>>])
Socket(p, a) == [port |-> p, addr |-> a]
ServicesBase ==
  [packages |-> [p \in {"ufw"} |-> <<"1">>], units |-> [u \in {"ufw"} |-> Unit("enabled", TRUE)], ufw |-> Ufw("active", "deny", "disabled"),
   default_ufw_policy |-> [routed |-> "deny"], tcp |-> {Socket(22, "any"), Socket(25, "v4 loopback")}, tcp6 |-> {Socket(25, "mapped")},
   postconf |-> Same([out |-> {"loopback-only"}]), exim |-> Absent, sendmail_cf |-> Absent, ip |-> Same([out |-> <<"10.0.0.1">>]),
   sshd_match_contexts |-> <<Matched>>, sshd |-> Sshd(Answer(SshOptions), Answer(SshOptions)), ssh_files |-> SshFiles, ssh_dirs |-> SshDirs, ssh_closed |-> {},
   public_key |-> [k \in {"key"} |-> "key.pub"], issue_net |-> [discloses |-> FALSE], key |-> File(0, 0, Rw)] @@ Common
ServicesChecks == <<
  [type |-> "ufw_service"], [type |-> "ufw_default", direction |-> "incoming", allowed |-> {"deny", "reject"}],
  [type |-> "ufw_default", direction |-> "routed", allowed |-> {"deny", "reject"}], [type |-> "mta_local_only", ports |-> {25, 465}],
  [type |-> "sshd_option", file_max |-> Absent, settings |-> {[option |-> "permitrootlogin", rule |-> [op |-> "equals", value |-> "no"]]}],
  [type |-> "sshd_option", file_max |-> Absent, settings |-> {[option |-> "ciphers", rule |-> [op |-> "no_weak", weak |-> {"3des"}]]}],
  [type |-> "sshd_option", file_max |-> 4, settings |-> {[option |-> "maxstartups", rule |-> [op |-> "maxstartups", limits |-> <<10, 30, 60>>]]}],
  [type |-> "sshd_access"], [type |-> "sshd_banner_configured"]>>
ServicesAlts ==
  <<"packages" :> <<>>, "units" :> [u \in {"ufw"} |-> Unit("disabled", TRUE)], "ufw" :> Ufw("inactive", "deny", "deny"), "ufw" :> Ufw("active", "allow", "disabled"),
   "default_ufw_policy" :> [routed |-> "accept"], "default_ufw_policy" :> Absent, "tcp6" :> {Socket(25, "any")}, ("tcp" :> Absent) @@ ("tcp6" :> Absent),
   "postconf" :> Same([out |-> {}]), "postconf" :> Same([out |-> {"all"}]), ("postconf" :> Absent) @@ ("exim" :> Same([out |-> {"v4 loopback", "any"}])),
   ("postconf" :> Absent) @@ ("sendmail_cf" :> {"v6 loopback"}),
   "sshd" :> Sshd(Answer(SshOptions), Answer([SshOptions EXCEPT !.permitrootlogin = <<"yes">>, !.ciphers = <<{"3des"}>>])),
   "sshd" :> Sshd(Answer([SshOptions EXCEPT !.maxstartups = <<(<<10, 30, 90>>)>>, !.allowgroups = <<>>, !.banner = <<"none">>]), Answer(SshOptions)),
   "sshd" :> Sshd(Answer(SshOptions), [ok |-> FALSE, values |-> <<>>]), "sshd" :> Absent, "issue_net" :> [discloses |-> TRUE], "issue_net" :> Absent,
   "ssh_files" :> [SshFiles EXCEPT !["c"].limits = {10}], "ssh_files" :> [SshFiles EXCEPT !["b"].private = TRUE], "ssh_dirs" :> <<>>, "ssh_closed" :> {"extra"},
   "ssh_dirs" :> (("sshd_config.d" :> <<"b">>) @@ ("extra" :> <<"c", "gone">>)),
   "ssh_files" :> [SshFiles EXCEPT !["sshd_config"].includes = <<Include("extra", {"d"}), Include("sshd_config.d", {"b", "a"})>>]>>

------------------------------------------------------------------------------
(* boot *)
PamFile(s, l) == [service |-> s, private |-> FALSE, lines |-> l]
Motd(session, comment, path) == [session |-> session, comment |-> comment, motd |-> path]
Text(f) == [isfile |-> TRUE, found |-> f]
Grub(p, x) == [private |-> p, entries |-> x]
Aa(l, f) == Only([error |-> FALSE, code |-> 0, loaded |-> l, enforce |-> f, lenient |-> l - f, unconfined |-> 0],
                 [error |-> FALSE, code |-> 4, loaded |-> 0, enforce |-> 0, lenient |-> 0, unconfined |-> 0])
Key(w, v) == [writable_ok |-> TRUE, value_ok |-> TRUE, writable |-> w, value |-> v]
BootBase ==
  [pam_d |-> <<PamFile("login", <<Motd(TRUE, FALSE, "motd")>>), PamFile("cron", <<Motd(FALSE, FALSE, "other motd")>>)>>,
   usr_pam_d |-> <<PamFile("login", <<>>), PamFile("sshd", <<Motd(TRUE, TRUE, "lost motd")>>)>>, motd |-> Text({}), issue |-> Text({}), boot |-> <<Grub(FALSE, <<{"audit=1"}>>), Grub(FALSE, <<>>)>>,
   grub_cfg |-> [superusers |-> TRUE, pbkdf2 |-> TRUE], kernel_cmdline |-> Absent, limits_conf |-> <<0>>, limits_d |-> <<[private |-> FALSE, limits |-> <<0>>]>>,
   packages |-> [p \in {"apport"} |-> <<"1">>], default_apport |-> FALSE, units |-> [u \in {"apport", "apparmor"} |-> Unit("enabled", u = "apparmor")],
   gsettings |-> Same([k \in {"lock"} |-> Key(FALSE, 900)]), gdm3_custom |-> {"xdmcp=false"}, gdm3_daemon |-> Absent, gdm_custom |-> Absent, gdm_daemon |-> Absent,
   aa_status |-> Aa(2, 2), grub_apparmor |-> {}] @@ ("other motd" :> Text({})) @@ ("lost motd" :> Absent) @@ Common
BootChecks1 == <<
  [type |-> "banner_content", paths |-> {"issue"}, pam |-> "", require_configured |-> TRUE], [type |-> "banner_content", paths |-> {}, pam |-> "login", require_configured |-> FALSE],
  [type |-> "banner_content", paths |-> {}, pam |-> "all", require_configured |-> TRUE], [type |-> "bootloader_password"],
  [type |-> "grub_cmdline", require |-> "audit=1", forbid |-> ""], [type |-> "grub_cmdline", require |-> "", forbid |-> "selinux=0"],
  [type |-> "core_dump_limit"], [type |-> "apport_disabled"],
  [type |-> "gsettings", keys |-> {[key |-> "lock", locked |-> TRUE, rule |-> [op |-> "range", min |-> 1, max |-> 900]]}],
  [type |-> "gdm_config", setting |-> "xdmcp=true", expect |-> "absent"], [type |-> "gdm_config", setting |-> "xdmcp=false", expect |-> "present"],
  [type |-> "apparmor_enabled"], [type |-> "apparmor_enforcing"]>>
BootAlts ==
  <<"issue" :> Text({"os"}), "issue" :> Absent, "motd" :> Text({"escape"}), "motd" :> [isfile |-> FALSE, found |-> {}], "other motd" :> Text({"os"}), "pam_d" :> Absent,
   "pam_d" :> <<[PamFile("su", <<Motd(TRUE, FALSE, "motd")>>) EXCEPT !.private = TRUE]>>, "boot" :> <<Grub(TRUE, <<{"audit=1", "apparmor=0"}, {"selinux=0"}>>)>>,
   "boot" :> <<Grub(FALSE, <<>>)>>, ("boot" :> <<>>) @@ ("kernel_cmdline" :> {"audit=1"}), "boot" :> Absent, "grub_cfg" :> Absent, "grub_cfg" :> [superusers |-> TRUE, pbkdf2 |-> FALSE],
   "limits_conf" :> <<0, 1>>, ("limits_conf" :> Absent) @@ ("limits_d" :> <<>>), "limits_d" :> <<[private |-> TRUE, limits |-> <<1>>]>>,
   "packages" :> <<>>, "default_apport" :> TRUE, "default_apport" :> Absent, "units" :> [u \in {"apport", "apparmor"} |-> Unit("disabled", u = "apport")],
   "gsettings" :> Only([k \in {"lock"} |-> Key(FALSE, 900)], [k \in {"lock"} |-> Key(TRUE, 0)]), "gsettings" :> Same([k \in {"lock"} |-> [Key(FALSE, 900) EXCEPT !.writable_ok = FALSE]]),
   "gdm3_daemon" :> {"xdmcp=true"}, "gdm3_custom" :> Absent, "aa_status" :> Aa(2, 1), "aa_status" :> Aa(0, 0), "aa_status" :> Absent, "grub_apparmor" :> {"apparmor=0"}>>

------------------------------------------------------------------------------
(* audit *)
Tok(f, v) == [flag |-> f, value |-> v]
Val(t, n) == [text |-> t, num |-> n]
Field(n, op, v) == [name |-> n, op |-> op, value |-> v]
Exit == Tok("-a", {"always", "exit"})
Arch(a) == Tok("-F", [name |-> "arch", value |-> a])
F(n, op, v) == Tok("-F", Field(n, op, v))
FromUsers == Field("auid", ">=", Val("UID_MIN", Junk))
NotUnset == Field("auid", "!=", Val("unset", Junk))
Failed == Field("exit", "=", Val("-EACCES", 13))
ExecRule(a, more) == <<Exit, Arch(a), Tok("-S", {"execve"}), F("auid", ">=", Val("1000", 1000)), F("auid", "!=", Val("-1", -1))>> \o more
OpenRule(a, exit) == <<Exit, Arch(a), Tok("-S", {"open", "creat"}), F("auid", ">=", Val("500", 500)), F("auid", "!=", Val("unset", Junk)), F("exit", "=", exit)>>
Watch == <<Tok("-w", "/etc/passwd"), Tok("-p", {"w", "a"})>>
PathRule == <<Exit, F("path", "=", "/etc/passwd"), Tok("-S", {"all"}), Tok("-F", [name |-> "perm", value |-> {"w", "a"}])>>
ActingRule(a, x, y) == <<Exit, Arch(a), Tok("-S", {"execve"}), Tok("-C", Field(x, "!=", Val(y, Junk))), F("auid", "!=", Val("unset", Junk))>>
Program(p) == <<Exit, F("path", "=", p), F("auid", ">=", Val("1000", 1000))>>
ClockRule(a, zero) == <<Exit, Arch(a), Tok("-S", {"clock_settime"}), F("a0", "=", Val(zero, 0))>>
Execution(p, id) == <<Exit, F("path", "=", p), Tok("-F", [name |-> "perm", value |-> {"x"}]), F("auid", ">=", id), F("auid", "!=", Val("unset", Junk))>>
Lock == <<Tok("-e", ""), Tok("2", "")>>
GoodRules == <<ExecRule("b64", <<>>), ExecRule("b32", <<Tok("-k", "exec")>>), OpenRule("b64", Val("13", 13)), OpenRule("b32", Val("-EACCES", 13)), Watch, Execution("su", Val("1000", 1000)), Lock, ActingRule("b64", "euid", "uid"), ActingRule("b32", "uid", "euid"),
  ClockRule("b64", "0"), ClockRule("b32", "0x0"), <<Tok("-w", "/run/utmp"), Tok("-p", {"w", "a"})>>>>
Swapped(j, r) == [GoodRules EXCEPT ![j] = r]
Disk(rules) == "audit_rules_d" :> <<[private |-> FALSE, rules |-> rules]>>
Loaded(rules) == "auditctl" :> Only([ok |-> TRUE, out |-> rules], [ok |-> FALSE, out |-> <<>>])
Rules(rules) == Disk(rules) @@ Loaded(rules)
Aide(options) == Only(ToAll({"augenrules", "ausearch"}, options), ToAll({"augenrules", "ausearch"}, {}))
AuditdConf == [log_file |-> "var_log_audit", log_group |-> "adm", max_log_file |-> 8, space_left_action |-> "email"]
AuditBase ==
  [auditd_conf |-> AuditdConf, var_log_audit |-> <<"audit.log">>, etc_audit |-> <<"rules">>, audit_tools |-> {"augenrules", "ausearch"}, augenrules |-> File(0, 0, Rwx),
   ausearch |-> File(0, 0, Rwx), machine |-> "x86_64", scan |-> [mounts |-> {"/"}, privileged |-> <<"su">>], aide |-> Aide({"p", "sha512"}), aide_conf |-> File(0, 0, Rw),
   sudoers |-> <<Sudo("/etc/passwd")>>, sudoers_d |-> <<>>] @@ Rules(GoodRules) @@ ("audit.log" :> File(0, 4, Rw)) @@ ("/etc/passwd" :> File(0, 0, Rw)) @@ ("gone" :> Absent) @@ Common
Watched(p, i) == [path |-> p, perms |-> {"w", "a"}, fields |-> {}, if_exists |-> i]
Executed(p) == [path |-> p, perms |-> {"x"}, fields |-> {FromUsers, NotUnset}, if_exists |-> FALSE]
Requires(w, s) == [type |-> "audit_rules", watches |-> w, syscalls |-> s]
AuditChecks1 == <<
  [type |-> "auditd_conf", settings |-> {[key |-> "max_log_file", numeric |-> TRUE, allowed |-> {}], [key |-> "space_left_action", numeric |-> FALSE, allowed |-> {"email", "halt"}]}],
  [type |-> "audit_log_group"], Requires({Watched("/etc/passwd", FALSE), Watched("gone", TRUE)}, {}), Requires({Watched("@sudo_logfile", FALSE)}, {}),
  Requires({}, {[names |-> {"execve"}, fields |-> {FromUsers, NotUnset}]}), Requires({}, {[names |-> {"open", "creat"}, fields |-> {FromUsers, NotUnset, Failed}]}),
  Requires({}, {[names |-> {"execve"}, fields |-> {Field("euid", "!=", Val("uid", Junk)), NotUnset}]}),
  Requires({}, {[names |-> {"clock_settime"}, fields |-> {Field("a0", "=", Val("0x0", 0))}]}), Requires({Watched("/var/run/utmp", FALSE), Executed("su")}, {}),
  [type |-> "audit_privileged_commands"], [type |-> "audit_rules_directive", directive |-> <<"-e", "2">>], [type |-> "aide_audit_tools", required |-> {"p", "sha512"}]>>
AuditAlts ==
  <<"auditd_conf" :> [AuditdConf EXCEPT !.log_group = "users", !.max_log_file = Junk], "auditd_conf" :> [max_log_file |-> 8], "auditd_conf" :> Absent,
   "audit.log" :> File(0, 1000, Rw), "sudoers" :> Absent, "sudoers" :> <<Sudo("gone")>>, "login_defs" :> Absent,
   Disk(<<>>), "audit_rules_d" :> Absent, Loaded(SubSeq(GoodRules, 1, 4)), "auditctl" :> Absent, Rules(Tail(GoodRules)), Rules(Swapped(2, ExecRule("b64", <<>>))),
   Rules(Swapped(1, ExecRule("b64", <<F("pid", "=", Val("1", 1))>>))), Rules(Swapped(1, [ExecRule("b64", <<>>) EXCEPT ![1] = Tok("-a", {"never", "exit"})])),
   Rules(Swapped(1, [ExecRule("b64", <<>>) EXCEPT ![2] = Tok("-k", "x")])), Rules(Swapped(1, [ExecRule("b64", <<>>) EXCEPT ![4] = F("auid", ">=", Val("2000", 2000))])),
   Rules(Swapped(1, [ExecRule("b64", <<>>) EXCEPT ![5] = F("auid", "=", Val("unset", Junk))])), Rules(Swapped(1, ExecRule("b64", <<F("path", "=", "/bin/sh")>>))),
   Rules(Swapped(1, [ExecRule("b64", <<>>) EXCEPT ![3] = Tok("-S", {"all"})])), Rules(Swapped(3, OpenRule("b64", Val("1", 1)))),
   Rules(Swapped(5, PathRule)), Rules(Swapped(8, ActingRule("b64", "uid", "gid"))),  Rules(Swapped(5, <<Tok("-w", "/etc/passwd"), Tok("-p", {"r"})>>)), "machine" :> "aarch64", "machine" :> "i686",
   Rules(Swapped(1, [ExecRule("b64", <<>>) EXCEPT ![4] = F("auid", ">=", Val("-1", -1))])), Rules(Swapped(6, Execution("su", Val("4294967295", Unset)))),
   Rules(Swapped(6, Execution("su", Val("UID_MIN", Junk)))), Rules(Swapped(10, ClockRule("b64", "1"))), Rules(Swapped(10, [ClockRule("b64", "") EXCEPT ![4] = F("a0", "=", Val("0x1", 1))])),
   "scan" :> [mounts |-> {}, privileged |-> <<>>], "scan" :> [mounts |-> {"/"}, privileged |-> <<"su", "passwd">>], "scan" :> [mounts |-> {"/"}, privileged |-> <<"passwd", "su">>],
   "aide" :> Aide({"p"}), "aide" :> Absent, ("augenrules" :> Absent) @@ ("ausearch" :> Absent)>>

------------------------------------------------------------------------------
(* paths *)
Target(k, a, m, o, w) == [kind |-> k, at |-> a, mask |-> m, owners |-> o, groups |-> {}, missing |-> w]
Permissions(p, ts, f, r) == [type |-> "file_permissions", prerequisite |-> p, targets |-> ts, file_type |-> f, require_targets |-> r]
Log(n, u, g, m) == [name |-> n] @@ File(u, g, m)
PathsBase ==
  [units |-> [u \in {"ufw", "tmp.mount"} |-> Unit("static", TRUE)], var_log |-> <<"syslog", "wtmp">>, syslog |-> Log("other", 0, 4, Rw \cup {"gr"}), wtmp |-> Log("wtmp", 0, 0, Rw),
   usr_keyrings |-> <<"ring">>, apt_trusted |-> Absent, ring |-> File(0, 0, Rw), sources_list |-> Absent, sources_list_d |-> <<[private |-> FALSE, entries |-> {}, keys |-> {"key", "gone"}]>>,
   a |-> File(0, 0, Rw), b |-> File(0, 0, Rw), c |-> File(0, 0, Rw), d |-> File(0, 0, Rw), extra |-> Dir(0, 0, Rwx)] @@
  ("sshd_config.d" :> Dir(0, 0, Rwx)) @@ ("key.pub" :> File(0, 0, Rw)) @@ ("sshd_config" :> File(0, 0, Rw)) @@ ("crontab" :> File(0, 0, Rw)) @@ ("etc" :> <<"ring", "key">>) @@ ServicesBase @@ AuditBase
PathsChecks1 == <<
  Permissions("", <<Target("path", "sshd_config", Mask177, {"root"}, "fail"), Target("source", "sshd_config_dropins", Mask177, {"root"}, "pass"), Target("source", "sshd_include_dirs", Mask022, {}, "pass")>>, "", TRUE),
  Permissions("auditd_conf", <<Target("source", "audit_log_files", Mask133, {"root"}, "pass")>>, "", TRUE),
  Permissions("", <<Target("source", "audit_tools", Mask022, {"root"}, "pass")>>, "", FALSE),
  Permissions("", <<Target("source", "sshd_private_hostkeys", Mask177, {"root"}, "pass"), Target("source", "sshd_public_hostkeys", Mask133, {}, "pass")>>, "", TRUE),
  Permissions("", <<Target("source", "apt_keyring_files", Mask022, {"root"}, "pass"), Target("source", "apt_signed_by_keys", Mask022, {}, "pass"), Target("find", "apt_trusted", Mask022, {}, "pass")>>, "", TRUE),
  Permissions("", <<Target("path", "crontab", Mask177, {"root"}, "unassessed"), Target("glob", "etc", Mask022, {"root"}, "pass")>>, "", TRUE),
  Permissions("", <<Target("path", "extra", Mask022, {"root"}, "pass")>>, "dir", TRUE),
  [type |-> "mount_exists", path |-> "/", unit |-> "tmp.mount"], [type |-> "mount_option", path |-> "/", option |-> "nodev"], [type |-> "log_files_access"]>>
PathsAlts ==
  <<"sshd_config" :> File(1000, 0, Rw), "sshd_config" :> Absent, "c" :> File(0, 0, Rwx), "extra" :> File(0, 0, Rw), "extra" :> Absent, "sshd" :> Absent,
   "auditd_conf" :> Absent, "audit.log" :> File(0, 0, AllBits), "var_log_audit" :> Absent, "audit_tools" :> {}, "ausearch" :> File(1000, 0, Rwx), "key" :> File(0, 0, AllBits),
   "key" :> Absent, "usr_keyrings" :> <<>>, "ring" :> File(0, 0, AllBits), "crontab" :> Absent, "etc" :> Absent, "passwd" :> <<>>,
   "units" :> [u \in {"ufw", "tmp.mount"} |-> Unit("masked", FALSE)], "units" :> Absent, "mounts" :> <<>>, "mounts" :> Absent,
   "mounts" :> <<Mount("/", 0, "ext4", {"nodev"}), Mount("/", 0, "ext4", {})>>, "syslog" :> Log("other", 1000, 4, Rw), "syslog" :> Log("other", 1, 4, Rw), "syslog" :> Log("apt", 0, 0, AllBits),
   "wtmp" :> Log("wtmp", 0, 4, Rw), "shells" :> Absent, "var_log" :> Absent,
   "sources_list_d" :> <<[private |-> TRUE, entries |-> {}, keys |-> {}]>>, "ssh_closed" :> {"sshd_config.d"},
   "sources_list" :> [private |-> FALSE, entries |-> {}, keys |-> {"key"}], ("sources_list" :> [private |-> FALSE, entries |-> {}, keys |-> {"key"}]) @@ ("sources_list_d" :> Absent)>>

------------------------------------------------------------------------------
(* packages and versions *)
PackagesBase ==
  [packages |-> ToAll({"aide", "nis", "cron"}, <<"1">>), sshd |-> "program", apt_cache |-> Same([ok |-> TRUE, candidate |-> [p \in {"aide"} |-> <<"1">>]]), apt_lists |-> <<"index">>,
   units |-> [u \in {"cron", "crond", "nis"} |-> Unit(CASE u = "cron" -> "enabled" [] u = "nis" -> "disabled" [] OTHER -> "missing", u = "cron")],
   apt_config |-> Same([ok |-> TRUE, values |-> [AllowInsecure |-> "false"]]), sources_list |-> Absent,
   sources_list_d |-> <<[private |-> FALSE, entries |-> {[http |-> TRUE, enabled |-> FALSE]}, keys |-> {}]>>] @@ Common
Spec1(n) == [name |-> n, states |-> {"enabled"}, active |-> TRUE]
PackagesChecks == <<
  [type |-> "package_installed", any_of |-> {{"aide"}, {"tripwire", "nis"}}], [type |-> "package_absent", names |-> {"telnet"}], [type |-> "package_current", package |-> "aide"],
  [type |-> "unit_state", units |-> {Spec1("cron"), Spec1("crond")}, any_existing |-> TRUE], [type |-> "unit_state", units |-> {Spec1("cron")}, any_existing |-> FALSE],
  [type |-> "units_not_in_use", names |-> {"nis", "crond"}], [type |-> "service_not_in_use", groups |-> {[packages |-> {"nis"}, units |-> {"nis"}], [packages |-> {"cups"}, units |-> {"cron"}]}],
  [type |-> "apt_config", settings |-> {[key |-> "AllowInsecure", value |-> FALSE]}], [type |-> "apt_sources_https", scope |-> "sources.list"], [type |-> "apt_sources_https", scope |-> "sources.list.d"],
  [type |-> "unit_state", units |-> {Spec1("cron")}, any_existing |-> FALSE, applies_if |-> <<[type |-> "sshd_installed"], [type |-> "path_exists", path |-> "sshd"]>>],
  [type |-> "units_not_in_use", names |-> {"nis"}, applies_if |-> <<[type |-> "package_installed", packages |-> {"nis", "ypbind"}]>>],
  [type |-> "unit_state", units |-> {Spec1("cron")}, any_existing |-> FALSE, applies_if |-> <<[type |-> "cron_installed"]>>],
  [type |-> "units_not_in_use", names |-> {"nis"}, applies_if |-> <<[type |-> "gdm_installed"]>>]>>
PackagesAlts ==
  <<"packages" :> Absent, "packages" :> <<>>, "sshd" :> Absent, ("sshd" :> Absent) @@ ("packages" :> ToAll({"openssh-server", "gdm3"}, <<"1">>)),
   "packages" :> ToAll({"nis", "telnet", "tripwire", "cups"}, <<"1">>), "apt_cache" :> Absent, "apt_lists" :> <<>>, "apt_lists" :> Absent,
   "apt_cache" :> Same([ok |-> TRUE, candidate |-> [p \in {"aide"} |-> Absent]]), "apt_cache" :> Same([ok |-> TRUE, candidate |-> [p \in {"aide"} |-> <<"2">>]]), "units" :> Absent,
   "units" :> ToAll({"cron", "crond", "nis"}, Unit("missing", FALSE)), "units" :> ToAll({"cron", "crond", "nis"}, Unit("enabled-runtime", FALSE)),
   "apt_config" :> Same([ok |-> TRUE, values |-> <<>>]), "apt_config" :> Same([ok |-> TRUE, values |-> [AllowInsecure |-> "true"]]), "apt_config" :> Absent,
   "sources_list" :> [private |-> FALSE, entries |-> {[http |-> TRUE, enabled |-> TRUE]}, keys |-> {}], "sources_list_d" :> Absent,
   "sources_list_d" :> <<[private |-> TRUE, entries |-> {[http |-> TRUE, enabled |-> TRUE]}, keys |-> {}]>>>>

(* Every two versions of one and two characters, and of some longer ones. *)
Chars == <<"0", "1", "a", "~">>
Versions ==
  [j \in 1 .. 4 |-> <<Chars[j]>>] \o [j \in 1 .. 16 |-> <<Chars[((j - 1) \div 4) + 1], Chars[((j - 1) % 4) + 1]>>] \o
  [j \in 1 .. 16 |-> <<"1", Chars[((j - 1) \div 4) + 1], Chars[((j - 1) % 4) + 1]>>] \o
  << <<"1", ":", "0">>, <<"0", ":", "1">>, <<"a", ":", "1">>, <<"1", "-", "1">>, <<"1", "-", "0">>, <<"1", "-", "~">>, <<"1", "-">>, <<"1", "+", "b">>,
    <<"0", "9">>, <<"9">>, <<"A">>, <<"1", ".", "0", "1">>, <<"1", ".", "1", "0">>, <<"1", "-", "1", "-", "2">>, <<"1", "a", "0", "0", "2">>, <<"1", "a", "1", "0">> >>
VersionsAlts ==
  [j \in 1 .. Len(Versions) * Len(Versions) |->
     LET installed == Versions[((j - 1) \div Len(Versions)) + 1]
         candidate == Versions[((j - 1) % Len(Versions)) + 1]
     IN  ("packages" :> [p \in {"aide"} |-> installed]) @@ ("apt_cache" :> Same([ok |-> TRUE, candidate |-> [p \in {"aide"} |-> candidate]]))]

------------------------------------------------------------------------------
(* esxi *)
Vm(n, x) == [name |-> n, vmx |-> x]
Vmx(s, d, m) == [settings |-> s, devices |-> d, diskmodes |-> m]
Vim == [level |-> 3, enableMob |-> "false", services |-> [k \in {"ntpd", "TSM"} |-> [running |-> k = "ntpd", policy |-> IF k = "ntpd" THEN "on" ELSE "off"]],
        lockdown |-> "lockdownNormal", dcui |-> TRUE, proxy |-> {"ui"}, ntp |-> {"ntp1"}, getallvms |-> <<Vm("web", "web.vmx"), Vm("db", "db.vmx")>>]
Esx == [level |-> 3, enableMob |-> Absent, acceptance |-> "PartnerSupported", vibs |-> <<"VMwareCertified">>, coredump |-> <<[enabled |-> TRUE, server |-> TRUE]>>,
        accounts |-> <<"root">>, permissions |-> <<[role |-> "admin", group |-> FALSE, principal |-> "ops"]>>, vswitches |-> <<"vs0">>, portgroups |-> <<[name |-> "vm net", vlan |-> 10]>>,
        policies |-> ToAll({"vs0", "vm net", "trunk", "native"}, [forged |-> "false"]), adapters |-> <<[uni |-> "required", mutual |-> "required"]>>]
VimSays(k, v) == "vimcmd" :> Same([Vim EXCEPT ![k] = v])
EsxSays(k, v) == "esxcli" :> Same([Esx EXCEPT ![k] = v])
GoodVmx == Vmx([copy |-> "true", nic |-> "x"], {[kind |-> "floppy", present |-> FALSE, cdrom |-> FALSE], [kind |-> "ide", present |-> TRUE, cdrom |-> FALSE]}, {"persistent"})
BadVmx == Vmx([copy |-> "false"], {[kind |-> "floppy", present |-> TRUE, cdrom |-> FALSE], [kind |-> "ide", present |-> TRUE, cdrom |-> TRUE]}, {"nonpersistent"})
EsxiBase ==
  [vimcmd |-> Same(Vim), esxcli |-> Same(Esx), init_scripts |-> [k \in {"ntpd"} |-> TRUE], chkconfig |-> Same([k \in {"ntpd"} |-> "on"]), ntp_conf |-> {"ntp2"},
   native_vlan |-> 1, vgt_portgroups |-> {"trunk"}, excluded_vms |-> {"test"}] @@ ("web.vmx" :> GoodVmx) @@ ("db.vmx" :> GoodVmx)
EsxiChecks1 == <<
  [type |-> "esxi_advanced", settings |-> {[key |-> "level", rule |-> [op |-> "min", value |-> 2]]}], [type |-> "esxi_mob_disabled"], [type |-> "esxi_acceptance"],
  [type |-> "esxi_ntp", approved |-> {"ntp1", "ntp2"}], [type |-> "esxi_service_disabled", service |-> "TSM"], [type |-> "esxi_lockdown", allowed |-> {"lockdownNormal", "lockdownStrict"}],
  [type |-> "esxi_coredump_network"], [type |-> "esxi_nonroot_admin"], [type |-> "esxi_vswitch_security", policy |-> "forged"],
  [type |-> "esxi_portgroup_vlan", forbid |-> {4095}, native_vlan |-> TRUE], [type |-> "esxi_iscsi_chap"],
  [type |-> "vmx_setting", key |-> "copy", expected |-> "true", missing_ok |-> FALSE], [type |-> "vmx_device_absent", kinds |-> {"floppy"}, cdrom_only |-> FALSE],
  [type |-> "vmx_device_absent", kinds |-> {"ide"}, cdrom_only |-> TRUE], [type |-> "vmx_disk_mode", modes |-> {"nonpersistent"}]>>
EsxiAlts ==
  <<VimSays("level", Absent), VimSays("level", Junk), VimSays("level", Unclear), VimSays("level", Unclear) @@ EsxSays("level", 1), VimSays("enableMob", Absent), VimSays("enableMob", "true"),
   VimSays("enableMob", Unclear) @@ EsxSays("enableMob", Unavailable), EsxSays("acceptance", "CommunitySupported"), EsxSays("vibs", <<"CommunitySupported">>), EsxSays("vibs", Unavailable),
   VimSays("ntp", {}), VimSays("ntp", Unclear), VimSays("ntp", {"rogue"}), VimSays("services", Unavailable), VimSays("services", <<>>) @@ ("init_scripts" :> <<>>),
   VimSays("services", [k \in {"ntpd", "TSM"} |-> [running |-> FALSE, policy |-> "on"]]), VimSays("lockdown", Unclear), VimSays("lockdown", "lockdownDisabled"),
   "vimcmd" :> Same([Vim EXCEPT !.lockdown = Unavailable, !.dcui = FALSE]), "vimcmd" :> Same([Vim EXCEPT !.enableMob = Absent, !.proxy = {"mob"}]), "vimcmd" :> Absent, "esxcli" :> Absent,
   EsxSays("coredump", <<>>), EsxSays("coredump", <<[enabled |-> TRUE, server |-> FALSE]>>), EsxSays("permissions", <<[role |-> "admin", group |-> TRUE, principal |-> "ops"]>>),
   EsxSays("vswitches", <<>>), EsxSays("policies", ToAll({"vs0", "vm net", "trunk", "native"}, [forged |-> Absent])), EsxSays("policies", ToAll({"vs0", "vm net", "trunk", "native"}, [forged |-> "maybe"])),
   EsxSays("portgroups", <<[name |-> "trunk", vlan |-> 4095], [name |-> "native", vlan |-> 1]>>), EsxSays("adapters", <<>>), EsxSays("adapters", <<[uni |-> "required", mutual |-> "prohibited"]>>),
   "web.vmx" :> BadVmx, "web.vmx" :> Absent, ("web.vmx" :> Absent) @@ ("db.vmx" :> Absent), VimSays("getallvms", <<Vm("test", "web.vmx")>>), VimSays("getallvms", Unavailable)>>

------------------------------------------------------------------------------
AllFamilies == {"accounts", "access", "kernel", "services", "boot", "audit", "paths", "packages", "versions", "esxi"}
PathFamily == {"paths"}
PerFamily(s) ==
  [accounts |-> s[1], access |-> s[2], kernel |-> s[3], services |-> s[4], boot |-> s[5],
   audit |-> s[6], paths |-> s[7], packages |-> s[8], versions |-> s[9], esxi |-> s[10]]
MCChecks == PerFamily(<<AccountsChecks, AccessChecks1, KernelChecks1, ServicesChecks, BootChecks1, AuditChecks1, PathsChecks1, PackagesChecks, <<PackagesChecks[3]>>, EsxiChecks1>>)
MCBase == PerFamily(<<AccountsBase, AccessBase, KernelBase, ServicesBase, BootBase, AuditBase, PathsBase, PackagesBase, PackagesBase, EsxiBase>>)
MCAlts == PerFamily(<<AccountsAlts, AccessAlts, KernelAlts, ServicesAlts, BootAlts, AuditAlts, PathsAlts, PackagesAlts, VersionsAlts, EsxiAlts>>)
MCDenied == PerFamily(<<{"shadow", "root home"}, {"sudoers", "sudoers_d"}, {}, {}, {"grub_cfg"}, {"sudoers", "sudoers_d", "var_log_audit"}, {"var_log_audit", "sources_list"}, {"sources_list"}, {}, {}>>)
MCHidden == PerFamily(<<{"root_dot", "cellar"}, {}, {}, {}, {}, {"auditd_conf", "audit_rules_d", "etc_audit", "audit.log"}, {"auditd_conf", "audit.log"}, {}, {}, {}>>)
=============================================================================
