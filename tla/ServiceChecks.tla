---------------------------- MODULE ServiceChecks ----------------------------
(***************************************************************************)
(* The providers of lsa/checks/network.py and lsa/checks/ssh.py: UFW,      *)
(* listening mail ports and the OpenSSH server. An address is the name of  *)
(* its kind: "mapped" is an IPv6 address that maps an IPv4 loopback one.   *)
(* ssh_files is a function from path to file, ssh_dirs one from directory  *)
(* to its entries, ssh_closed those only root may list; an Include is a    *)
(* directory and the paths its pattern matches.                            *)
(***************************************************************************)
EXTENDS HostView

ssh_main == "sshd_config"
Default(f, x, d) == IF x \in DOMAIN f THEN f[x] ELSE d

------------------------------------------------------------------------------
(* UFW *)
ufw_config_policies(e) == CollectOr(e, "default_ufw_policy", <<>>)

(* The status needs root, whatever the exit code says. *)
ufw_status(e) ==
  IF ~Exists(e, "ufw") \/ Run(e, "ufw").refused \/ ~Run(e, "ufw").ok THEN Unavailable
  ELSE [status |-> Run(e, "ufw").status, policies |-> Run(e, "ufw").policies]

InstalledUfw(e, outcome) ==
  Needs(<<Packages(e)>>,
        IF ~Installed(e, "ufw") THEN "FAIL" ELSE outcome)

ufw_service(e) ==
  InstalledUfw(e, Needs(<<Units(e), ufw_status(e)>>,
    LET unit == Units(e)["ufw"]
    IN  Verdict(~Enabled(unit) \/ ~unit.active \/ ufw_status(e).status # "active")))

(* While the kernel does not forward, the routed policy is what the file configures. *)
ufw_default(e, direction, allowed) ==
  InstalledUfw(e, Needs(<<ufw_status(e), ufw_config_policies(e)>>,
    LET reported == Default(ufw_status(e).policies, direction, "")
        policy == IF direction = "routed" /\ reported = "disabled"
                  THEN Default(ufw_config_policies(e), "routed", "") ELSE reported
    IN  Verdict(ufw_status(e).status # "active" \/ policy \notin allowed)))

------------------------------------------------------------------------------
(* Listeners *)
listening_sockets(e) ==
  IF Unavailable \in {ReadText(e, "tcp"), ReadText(e, "tcp6")} THEN Unavailable
  ELSE UNION {CollectOr(e, i, {}) : i \in {"tcp", "tcp6"}}

is_loopback(address) == address \in {"v4 loopback", "v6 loopback", "mapped"}
interfaces_loopback_only(tokens) ==
  tokens # {} /\ \A t \in tokens : t = "loopback-only" \/ is_loopback(t)

(* What the mail agent says it binds; the exit codes of postconf and exim are not read. *)
mta_interfaces(e) ==
  IF Exists(e, "postconf") THEN Run(e, "postconf").out
  ELSE IF Exists(e, "exim") THEN Run(e, "exim").out
  ELSE IF Exists(e, "sendmail_cf") THEN ReadText(e, "sendmail_cf")
  ELSE Absent

mta_local_only(e, ports) ==
  Needs(<<listening_sockets(e), mta_interfaces(e)>>,
        LET bound == mta_interfaces(e) IN
        Verdict(\/ \E s \in listening_sockets(e) : s.port \in ports /\ ~is_loopback(s.addr)
                \/ bound \notin {Absent, {}} /\ ("all" \in bound \/ ~interfaces_loopback_only(bound))))

------------------------------------------------------------------------------
(* OpenSSH *)
(* The address of the primary context: the first global one ip reports. *)
primary_address(e) ==
  IF Exists(e, "ip") /\ Run(e, "ip").out # <<>> THEN Head(Run(e, "ip").out) ELSE "127.0.0.1"
sshd_contexts(e) == <<[user |-> "root", addr |-> primary_address(e)]>> \o e.val.sshd_match_contexts

(* sshd -T answers one effective configuration per context: option -> values. *)
sshd_config(e, context) ==
  IF ~Exists(e, "sshd") \/ ~Run(e, "sshd")[context].ok THEN Unavailable ELSE Run(e, "sshd")[context].values
sshd_primary(e) == sshd_config(e, sshd_contexts(e)[1])

(* What the paths contain is val. *)
IsFile(val, path) == path \in DOMAIN val.ssh_files
(* glob: of the entries of a directory, in order, the files that match. A wildcard in the   *)
(* directory part is not expanded: it is the name of a directory that does not exist.       *)
Globbed(val, include) ==
  LET entries == Default(val.ssh_dirs, include.dir, <<>>)
      hits == {j \in DOMAIN entries : entries[j] \in include.match /\ IsFile(val, entries[j])}
  IN  [n \in 1 .. Cardinality(hits) |-> entries[Nth(hits, n)]]
(* Bug: only the main file's Include lines are followed. *)
TopIncludes(val, path) == IF path = ssh_main THEN val.ssh_files[path].includes ELSE <<>>
Includes(val, path) == val.ssh_files[path].includes
Included(val, path) == FlattenSeq([j \in DOMAIN Includes(val, path) |-> Globbed(val, Includes(val, path)[j])])

(* visit: depth first, each file once, in the order of the Include lines. w holds the paths *)
(* still to visit and the files found.                                                      *)
visited(val) ==
  LET Paths == {ssh_main} \cup DOMAIN val.ssh_files
      visit[w \in Seq(Paths) \X Seq(Paths)] ==
        LET pending == w[1]
            files == w[2]
            path == Head(pending)
        IN  IF pending = <<>> THEN files
            ELSE IF Contains(files, path) \/ ~IsFile(val, path) THEN visit[<<Tail(pending), files>>]
            ELSE visit[<<Included(val, path) \o Tail(pending), Append(files, path)>>]
  IN  visit[<< <<ssh_main>>, <<>> >>]
IncludeDirs(val, files) == UNION {{i.dir : i \in ToSet(Includes(val, p))} : p \in ToSet(files)}
(* The walk raises at the first file that may not be read or directory that may not be listed. *)
Barred(e, dirs) == ~e.root /\ dirs \cap e.val.ssh_closed # {}
Opened(e, files) ==
  IF Withheld(e, [j \in DOMAIN files |-> e.val.ssh_files[files[j]]]) \/ Barred(e, IncludeDirs(e.val, files))
  THEN Unavailable ELSE files
sshd_config_files(e) == Opened(e, visited(e.val))

include_directories(e) == {"sshd_config.d"} \cup IncludeDirs(e.val, sshd_config_files(e))

(* The sources of the permission checks. *)
sshd_config_dropins(e) ==
  IF sshd_config_files(e) = Unavailable \/ Barred(e, include_directories(e)) THEN Unavailable
  ELSE (ToSet(sshd_config_files(e)) \ {ssh_main})
       \cup UNION {{p \in ToSet(Default(e.val.ssh_dirs, d, <<>>)) : IsFile(e.val, p) /\ e.val.ssh_files[p].conf} :
                     d \in include_directories(e)}
sshd_include_dirs(e) ==
  IF sshd_config_files(e) = Unavailable THEN Unavailable
  ELSE include_directories(e) \cap DOMAIN e.val.ssh_dirs
HostKeys(e) == Default(sshd_primary(e), "hostkey", <<>>)
sshd_private_hostkeys(e) ==
  IF sshd_primary(e) = Unavailable THEN Unavailable ELSE {k \in ToSet(HostKeys(e)) : Exists(e, k)}
sshd_public_hostkeys(e) ==
  IF sshd_primary(e) = Unavailable THEN Unavailable
  ELSE {e.val.public_key[k] : k \in {h \in ToSet(HostKeys(e)) : Exists(e, e.val.public_key[h])}}

(* The first value of a directive counts, except for "present". no_weak is met by an *)
(* option that is not set; maxstartups compares its parts with the limits one by one. *)
evaluate(values, rule) ==
  LET current == IF values = <<>> THEN Absent ELSE values[1] IN
  CASE rule.op = "no_weak" -> current = Absent \/ current \cap rule.weak = {}
    [] rule.op = "maxstartups" ->
         /\ current # Absent /\ current[1] # Junk
         /\ \A j \in DOMAIN current \cap DOMAIN rule.limits : current[j] = Junk \/ current[j] <= rule.limits[j]
    [] rule.op = "present" -> values # <<>>
    [] OTHER -> RuleOk(current, rule)

(* Every setting in every context, and below the limit wherever a file sets the keyword. *)
sshd_option(e, check) ==
  LET contexts == sshd_contexts(e)
      configs == [j \in DOMAIN contexts |-> sshd_config(e, contexts[j])]
      files == IF check.file_max = Absent THEN <<>> ELSE sshd_config_files(e)
  IN  Needs(Append(configs, files),
        Verdict(\/ \E c \in ToSet(configs) : \E s \in check.settings : ~evaluate(Default(c, s.option, <<>>), s.rule)
                \/ \E p \in ToSet(files) : \E n \in e.val.ssh_files[p].limits : n > check.file_max))

sshd_access(e) ==
  Needs(<<sshd_primary(e)>>,
        Verdict(\A k \in {"allowusers", "allowgroups", "denyusers", "denygroups"} : Default(sshd_primary(e), k, <<>>) = <<>>))

sshd_banner(e) == IF sshd_primary(e) = Unavailable THEN Unavailable ELSE Default(sshd_primary(e), "banner", <<"none">>)[1]
sshd_banner_configured(e) ==
  LET banner == sshd_banner(e) IN
  IF banner = Unavailable THEN "NOT_ASSESSED"
  ELSE IF banner = "none" \/ ~Exists(e, banner) THEN "FAIL"
  ELSE Needs(<<ReadText(e, banner)>>, Verdict(ReadText(e, banner).discloses))

ServiceVerdict(check, e) ==
  CASE check.type = "ufw_service" -> ufw_service(e)
    [] check.type = "ufw_default" -> ufw_default(e, check.direction, check.allowed)
    [] check.type = "mta_local_only" -> mta_local_only(e, check.ports)
    [] check.type = "sshd_option" -> sshd_option(e, check)
    [] check.type = "sshd_access" -> sshd_access(e)
    [] check.type = "sshd_banner_configured" -> sshd_banner_configured(e)
=============================================================================
