---------------------------- MODULE AccessChecks ----------------------------
(***************************************************************************)
(* The providers of lsa/checks/access.py: sudo, su and PAM. A sudoers line *)
(* is a record of what the patterns find on it; a PAM line has a type, a   *)
(* control, a module and a sequence of name=value arguments; a settings    *)
(* file is a function from option to value.                                *)
(***************************************************************************)
EXTENDS HostView

(* /etc/sudoers when it exists, then every file below /etc/sudoers.d. *)
sudoers_lines(e) ==
  LET main == IF Exists(e, "sudoers") THEN ReadText(e, "sudoers") ELSE <<>>
      below == WalkFiles(e, "sudoers_d")
  IN  IF main = Unavailable \/ below = Unavailable THEN Unavailable ELSE main \o below

Sudoers(e) == ToSet(sudoers_lines(e))

(* A single negation outweighs every use_pty. *)
sudo_use_pty(e) ==
  Needs(<<sudoers_lines(e)>>,
        Verdict((\E x \in Sudoers(e) : x.negpty) \/ ~ \E x \in Sudoers(e) : x.pty))

(* Never a failure: without a log file, a journal entry or an auth.log entry it is not known. *)
sudo_logfile(e) ==
  IF Packages(e) = Unavailable \/ sudoers_lines(e) = Unavailable THEN "NOT_ASSESSED"
  ELSE IF \/ ~Installed(e, "sudo-rs") /\ \E x \in Sudoers(e) : x.log # Absent
          \/ Exists(e, "journalctl") /\ Run(e, "journalctl").ok /\ Run(e, "journalctl").out # {}
       THEN "PASS"
  ELSE IF CollectOr(e, "auth_log", {}) = Unavailable THEN "NOT_ASSESSED"
  ELSE IF "sudo" \in CollectOr(e, "auth_log", {}) THEN "PASS" ELSE "NOT_ASSESSED"

sudo_forbidden(e, tag) ==
  Needs(<<sudoers_lines(e)>>, Verdict(\E x \in Sudoers(e) : tag \in x.tags))

(* Every timeout must be in range, and there must be one. *)
sudo_timestamp_timeout(e, max) ==
  Needs(<<sudoers_lines(e)>>,
        LET set == {x.timeout : x \in Sudoers(e)} \ {Absent}
        IN  Verdict(set = {} \/ \E t \in set : t < 0 \/ t > max))

------------------------------------------------------------------------------
pam_lines(e, file) == CollectOr(e, file, <<>>)
Readable(e, files) == [j \in DOMAIN files |-> pam_lines(e, files[j])]

(* Lines of a module in the files, in order; an empty type matches every line. *)
module_lines(e, files, module, type) ==
  SelectSeq(FlattenSeq(Readable(e, files)), LAMBDA x : x.module = module /\ (type = "" \/ x.type = type))

(* The last occurrence of an argument decides. *)
module_args(lines) ==
  LET all == FlattenSeq([j \in DOMAIN lines |-> lines[j].args])
  IN  [n \in {a.name : a \in ToSet(all)} |-> all[SelectLastInSeq(all, LAMBDA a : a.name = n)].value]

HasArg(line, name) == \E a \in ToSet(line.args) : a.name = name
conf_values(e, file) == CollectOr(e, file, <<>>)
At(f, x) == IF x \in DOMAIN f THEN f[x] ELSE Absent

(* The first line that requires pam_wheel with use_uid and a group names the group, which *)
(* must exist and be empty. The group database is read only then.                          *)
su_restricted(e) ==
  LET lines == pam_lines(e, "pam_su")
      j == SelectInSeq(lines, LAMBDA x : /\ x.type = "auth" /\ x.control \in {"required", "requisite"}
                                         /\ x.module = "pam_wheel.so"
                                         /\ HasArg(x, "use_uid") /\ HasArg(x, "group"))
      args == lines[j].args
      name == args[SelectInSeq(args, LAMBDA a : a.name = "group")].value
  IN  IF lines = Unavailable THEN "NOT_ASSESSED"
      ELSE IF j = 0 THEN "FAIL"
      ELSE Needs(<<Collect(e, "group")>>,
             LET g == SelectInSeq(Collect(e, "group"), LAMBDA x : x.name = name)
             IN  Verdict(g = 0 \/ Collect(e, "group")[g].members # {}))

(* Each requirement: a line of the module in its file that carries every wanted argument. *)
pam_module_enabled(e, requirements) ==
  Needs(Readable(e, [j \in DOMAIN requirements |-> requirements[j].file]),
        Verdict(\E r \in ToSet(requirements) :
                  ~ \E x \in ToSet(module_lines(e, <<r.file>>, r.module, r.type)) : r.args \subseteq ToSet(x.args)))

faillock_args(e) == module_args(module_lines(e, <<"common_auth">>, "pam_faillock.so", "auth"))

(* The file must set the option, and an argument of the module may not break the rule. *)
faillock_option(e, option, rule) ==
  Needs(<<conf_values(e, "faillock"), pam_lines(e, "common_auth")>>,
        Verdict(\/ option \notin DOMAIN conf_values(e, "faillock")
                \/ ~RuleOk(conf_values(e, "faillock")[option], rule)
                \/ option \in DOMAIN faillock_args(e) /\ ~RuleOk(faillock_args(e)[option], rule)))

faillock_root(e, min) ==
  Needs(<<conf_values(e, "faillock"), pam_lines(e, "common_auth")>>,
        LET conf == conf_values(e, "faillock")
            times == {At(conf, "root_unlock_time"), At(faillock_args(e), "root_unlock_time")} \ {Absent}
        IN  Verdict(\/ {"even_deny_root", "root_unlock_time"} \cap DOMAIN conf = {}
                    \/ \E t \in times : ~RuleOk(t, [op |-> "min", value |-> min])))

(* Drop-ins in name order, each over the one before; pwquality.conf over them all. *)
pwquality_conf(e) ==
  LET dropins == Glob(e, "pwquality_d")
      files == dropins \o <<conf_values(e, "pwquality")>>
  IN  IF dropins = Unavailable \/ conf_values(e, "pwquality") = Unavailable THEN Unavailable
      ELSE [o \in UNION {DOMAIN f : f \in ToSet(files)} |->
              files[SelectLastInSeq(files, LAMBDA f : o \in DOMAIN f)][o]]

pwquality_option(e, check) ==
  LET args == module_args(module_lines(e, <<"common_password">>, "pam_pwquality.so", "password")) IN
  Needs(<<pwquality_conf(e), pam_lines(e, "common_password")>>,
        LET set == At(pwquality_conf(e), check.option) IN
        IF check.flag THEN Verdict(set = Absent /\ check.option \notin DOMAIN args)
        ELSE Verdict(\/ set = Absent /\ check.required
                     \/ set # Absent /\ ~RuleOk(set, check.rule)
                     \/ check.option \in DOMAIN args /\ ~RuleOk(args[check.option], check.rule)))

(* Exactly one place may set the option. *)
pwhistory_option(e, option, rule) ==
  LET conf == conf_values(e, "pwhistory")
      args == module_args(module_lines(e, <<"common_password">>, "pam_pwhistory.so", "password"))
  IN  Needs(<<conf, pam_lines(e, "common_password")>>,
        Verdict(\/ (option \in DOMAIN conf) = (option \in DOMAIN args)
                \/ ~RuleOk(IF option \in DOMAIN conf THEN conf[option] ELSE args[option], rule)))

(* Either no pam_unix line carries a forbidden argument, or every one carries a wanted one. *)
pam_unix_args(e, check) ==
  LET lines == ToSet(module_lines(e, check.files, "pam_unix.so", check.pam_type)) IN
  Needs(Readable(e, check.files),
        IF check.forbid # "" THEN Verdict(\E x \in lines : HasArg(x, check.forbid))
        ELSE Verdict(lines = {} \/ \E x \in lines : ~ \E w \in check.require_any : HasArg(x, w)))

AccessVerdict(check, e) ==
  CASE check.type = "sudo_use_pty" -> sudo_use_pty(e)
    [] check.type = "sudo_logfile" -> sudo_logfile(e)
    [] check.type = "sudo_forbidden" -> sudo_forbidden(e, check.tag)
    [] check.type = "sudo_timestamp_timeout" -> sudo_timestamp_timeout(e, check.max)
    [] check.type = "su_restricted" -> su_restricted(e)
    [] check.type = "pam_module_enabled" -> pam_module_enabled(e, check.requirements)
    [] check.type = "faillock_option" -> faillock_option(e, check.option, check.rule)
    [] check.type = "faillock_root" -> faillock_root(e, check.min)
    [] check.type = "pwquality_option" -> pwquality_option(e, check)
    [] check.type = "pwhistory_option" -> pwhistory_option(e, check.option, check.rule)
    [] check.type = "pam_unix_args" -> pam_unix_args(e, check)
=============================================================================
