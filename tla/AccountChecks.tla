--------------------------- MODULE AccountChecks ---------------------------
(***************************************************************************)
(* The providers of lsa/checks/accounts.py: password policy, root and      *)
(* system accounts, login shells, homes. Each is an operator of a view     *)
(* (HostView) that answers a verdict. Collections are sequences of entries *)
(* in file order. Permission bits are names: "gw" is write for the group.  *)
(***************************************************************************)
EXTENDS HostView

Mask022 == {"gw", "ow"}
Mask027 == {"gw", "or", "ow", "ox"}
Mask077 == {"gr", "gw", "gx", "or", "ow", "ox"}
Mask133 == {"ux", "gw", "gx", "ow", "ox"}
Mask177 == {"ux", "gr", "gw", "gx", "or", "ow", "ox"}
AllBits == Mask177 \cup {"ur", "uw"}

RemoteFs == {"nfs", "cifs"}
Exempt == {"root", "sync"}   \* SYSTEM_ACCOUNT_EXCEPTIONS

Names(s) == {x.name : x \in ToSet(s)}
Having(s, Test(_)) == {x \in ToSet(s) : Test(x)}
FirstNamed(s, n) ==
  LET j == SelectInSeq(s, LAMBDA x : x.name = n) IN IF j = 0 THEN Absent ELSE s[j]

LoginDefs(e) == CollectOr(e, "login_defs", [aging |-> Absent, encrypt |-> Absent, umask |-> Absent, uid_min |-> 1000])
ValidShells(e) ==
  LET listed == CollectOr(e, "shells", {}) IN IF listed = Unavailable THEN Unavailable ELSE listed \ {"nologin"}
UidMin(e) == LoginDefs(e).uid_min
Hashed(e) == Having(Collect(e, "shadow"), LAMBDA x : x.hashed)

------------------------------------------------------------------------------
(* Password policy *)
password_aging(e, rule) ==
  Needs(<<LoginDefs(e), Collect(e, "shadow")>>,
        Verdict(\/ ~RuleOk(LoginDefs(e).aging, rule)
                \/ \E x \in Hashed(e) : ~RuleOk(x.max, rule)))

encrypt_method(e, allowed) ==
  Needs(<<LoginDefs(e)>>, Verdict(LoginDefs(e).encrypt \notin allowed))

(* useradd -D when it runs and answers, else the first INACTIVE line of the file, else -1. *)
useradd_inactive(e) ==
  LET file == CollectOr(e, "default_useradd", -1) IN
  IF Exists(e, "useradd") /\ Run(e, "useradd").ok /\ Run(e, "useradd").out # Absent
  THEN Run(e, "useradd").out ELSE file

inactive_lock(e, rule) ==
  Needs(<<useradd_inactive(e), Collect(e, "shadow")>>,
        Verdict(\/ ~RuleOk(useradd_inactive(e), rule)
                \/ \E x \in Hashed(e) : ~RuleOk(x.inactive, rule)))

(* A last-change field that is no number is skipped. *)
password_change_past(e, today) ==
  Needs(<<Collect(e, "shadow")>>,
        Verdict(\E x \in Hashed(e) : x.lastchg \notin {Absent, Junk} /\ x.lastchg > today))

------------------------------------------------------------------------------
(* Root and the system accounts *)
uid_zero(e) ==
  Needs(<<Collect(e, "passwd")>>,
        Verdict(LET names == SelectSeq(Collect(e, "passwd"), LAMBDA x : x.uid = 0)
                IN  Len(names) # 1 \/ names[1].name # "root"))

gid_zero_users(e) ==
  Needs(<<Collect(e, "passwd")>>,
        Verdict(LET root == FirstNamed(Collect(e, "passwd"), "root") IN
                \/ \E x \in ToSet(Collect(e, "passwd")) : x.gid = 0 /\ x.name \notin {"sync", "root"}
                \/ root = Absent
                \/ root.gid # 0))

gid_zero_groups(e) ==
  Needs(<<Collect(e, "group")>>, Verdict(\E x \in ToSet(Collect(e, "group")) : x.gid = 0 /\ x.name # "root"))

root_access(e) ==
  Needs(<<Collect(e, "shadow")>>,
        Verdict(LET root == FirstNamed(Collect(e, "shadow"), "root")
                IN  root = Absent \/ root.status \notin {"P", "L"}))

(* The PATH a login shell of root prints; a shell that fails and prints nothing is no answer. *)
root_login_path(e) ==
  LET printed == Run(e, "rootshell") IN
  IF \/ RequireRoot(e) = Unavailable
     \/ Collect(e, "passwd") = Unavailable
     \/ LoginDefs(e) = Unavailable
     \/ ~printed.ok /\ printed.out = <<>>
  THEN Unavailable ELSE printed.out

root_path(e) ==
  LET path == root_login_path(e)
      dirs == {d \in ToSet(path) : d \notin {"", "."}} IN
  IF path = Unavailable \/ \E d \in dirs : Meta(e, d) = Unavailable
  THEN "NOT_ASSESSED"
  ELSE Verdict(\/ Contains(path, "") \/ Contains(path, ".")
               \/ \E d \in dirs : LET m == Meta(e, d) IN
                    \/ m = Absent
                    \/ ~m.isdir
                    \/ UserName(e, m.uid) # "root"
                    \/ m.mode \cap Mask022 # {})

(* umask_value: octal digits name the masked bits, u=,g=,o= the bits left; u-w, g+w are no value. *)
umask_value(arg) ==
  CASE arg.kind = "octal" -> arg.bits
    [] arg.kind = "symbolic" -> AllBits \ arg.bits
    [] OTHER -> Absent

Strict(arg) == umask_value(arg) # Absent /\ Mask027 \subseteq umask_value(arg)
(* _umask_findings: an argument without a value is a violation when it grants g, o or a, *)
(* and is otherwise passed over.                                                          *)
Loose(arg) == IF umask_value(arg) = Absent THEN arg.grants ELSE ~Strict(arg)

root_umask(e) ==
  Needs(<<ReadText(e, "root_dot")>>,
        Verdict(\E a \in ToSet(CollectOr(e, "root_dot", <<>>)) : Loose(a)))

default_umask(e) ==
  Needs(<<Glob(e, "profile_d"), ReadText(e, "profile"), LoginDefs(e)>>,
        LET found == ToSet(CollectOr(e, "profile", <<>>)) \cup ToSet(Glob(e, "profile_d"))
            set == LoginDefs(e).umask
        IN  Verdict(\/ \E a \in found : Loose(a)
                    \/ set # Absent /\ ~Strict(set)
                    \/ set = Absent /\ ~ \E a \in found : Strict(a)))

system_account_shells(e) ==
  Needs(<<ValidShells(e), LoginDefs(e), Collect(e, "passwd")>>,
        Verdict(\E x \in ToSet(Collect(e, "passwd")) :
                  /\ x.name \notin Exempt
                  /\ x.uid < UidMin(e) \/ x.uid = 65534
                  /\ x.shell \in ValidShells(e)))

(* A later shadow line of the same name overrides an earlier one. *)
ShadowStatus(e, n) ==
  LET s == Collect(e, "shadow")
      j == SelectLastInSeq(s, LAMBDA x : x.name = n)
  IN  IF j = 0 THEN Absent ELSE s[j].status

nologin_accounts_locked(e) ==
  Needs(<<ValidShells(e), Collect(e, "shadow"), Collect(e, "passwd")>>,
        Verdict(\E x \in ToSet(Collect(e, "passwd")) :
                  x.name # "root" /\ x.shell \notin ValidShells(e) /\ ShadowStatus(e, x.name) # "L"))

(* Reads /etc/shells again, past the cached valid_shells. *)
nologin_not_in_shells(e) ==
  Needs(<<ReadNow(e, "shells")>>, Verdict(ReadNow(e, "shells") # Absent /\ "nologin" \in ReadNow(e, "shells")))

(* TMOUT of each startup file: the values set, whether readonly, whether exported. *)
shell_timeout(e, max) ==
  Needs(<<Glob(e, "tmout")>>,
        LET files == {f \in ToSet(Glob(e, "tmout")) : f.mentions} IN
        Verdict(\/ files = {}
                \/ \E f \in files : \/ f.values = {}
                                    \/ \E v \in f.values : v <= 0 \/ v > max
                                    \/ ~f.readonly
                                    \/ ~f.exported))

------------------------------------------------------------------------------
(* Consistency of the databases *)
shadowed_passwords(e) ==
  Needs(<<Collect(e, "passwd")>>, Verdict(\E x \in ToSet(Collect(e, "passwd")) : x.pw # "x"))

shadow_not_empty(e) ==
  Needs(<<Collect(e, "shadow")>>, Verdict(\E x \in ToSet(Collect(e, "shadow")) : x.status = "NP"))

passwd_groups_exist(e) ==
  Needs(<<Collect(e, "group"), Collect(e, "passwd")>>,
        Verdict(\E x \in ToSet(Collect(e, "passwd")) : x.gid \notin {g.gid : g \in ToSet(Collect(e, "group"))}))

(* Without a shadow group the check passes before it reads passwd. *)
shadow_group_empty(e) ==
  LET shadow == FirstNamed(Collect(e, "group"), "shadow") IN
  IF Collect(e, "group") = Unavailable THEN "NOT_ASSESSED"
  ELSE IF shadow = Absent THEN "PASS"
  ELSE Needs(<<Collect(e, "passwd")>>,
             Verdict(shadow.members # {} \/ \E x \in ToSet(Collect(e, "passwd")) : x.gid = shadow.gid))

Repeats(s, Key(_)) == \E i, j \in DOMAIN s : i # j /\ Key(s[i]) = Key(s[j])
duplicates(e, kind) ==
  LET db == Collect(e, IF kind \in {"uid", "user"} THEN "passwd" ELSE "group") IN
  Needs(<<db>>, Verdict(CASE kind = "uid" -> Repeats(db, LAMBDA x : x.uid)
                          [] kind = "gid" -> Repeats(db, LAMBDA x : x.gid)
                          [] OTHER -> Repeats(db, LAMBDA x : x.name)))

------------------------------------------------------------------------------
(* Homes of interactive users *)
interactive_users(e) == Having(Collect(e, "passwd"), LAMBDA x : x.shell \in ValidShells(e) /\ x.home # "")

home_directories(e) ==
  LET users == interactive_users(e) IN
  IF ValidShells(e) = Unavailable \/ Collect(e, "passwd") = Unavailable THEN "NOT_ASSESSED"
  ELSE IF \E u \in users : Meta(e, u.home) = Unavailable THEN "NOT_ASSESSED"
  ELSE Verdict(\E u \in users : LET m == Meta(e, u.home) IN
                 m = Absent \/ ~m.isdir \/ UserName(e, m.uid) # u.name \/ m.mode \cap Mask027 # {})

(* The mount with the longest target above the home; of equal ones the last. *)
home_fstype(e, home) ==
  LET ms == Collect(e, "mounts")
      over == {j \in DOMAIN ms : ms[j].target \in Content(e, home).path}
  IN  IF over = {} THEN ""
      ELSE ms[CHOOSE j \in over : \A k \in over :
                ms[k].depth < ms[j].depth \/ (ms[k].depth = ms[j].depth /\ k <= j)].fstype

(* _walk_dot_entries: a tree entry is reached through its ancestors on the device of the *)
(* home; an entry that cannot be examined and a directory that vanished are skipped, a    *)
(* directory that may not be listed raises.                                               *)
Walked(e, home) ==
  {t \in Content(e, home).tree : /\ t.samedev /\ ~t.gone
                            /\ \A a \in Content(e, home).tree : a.path \in t.above => a.samedev /\ ~a.gone}
walk_dot_entries(e, home, kind) ==
  IF Closed(e, home) \/ (~e.root /\ \E t \in Walked(e, home) : t.kind = "dir" /\ t.private) THEN Unavailable
  ELSE {t \in Walked(e, home) : t.dot /\ t.kind = kind}

(* dot_files and dot_directories: remote homes and homes that are no directory are skipped. *)
LocalHomes(e) ==
  {u \in interactive_users(e) : /\ Exists(e, u.home)
                               /\ Content(e, u.home).isdir
                               /\ home_fstype(e, u.home) \notin RemoteFs}

DotProblem(e, u, t, mask) ==
  t.mode \cap mask # {} \/ UserName(e, t.uid) # u.name \/ GroupName(e, t.gid) # GroupName(e, u.gid)

DotVerdict(e, kind, Bad(_, _)) ==
  IF ValidShells(e) = Unavailable \/ Collect(e, "passwd") = Unavailable THEN "NOT_ASSESSED"
  ELSE IF interactive_users(e) # {} /\ Collect(e, "mounts") = Unavailable THEN "NOT_ASSESSED"
  ELSE IF \E u \in LocalHomes(e) : walk_dot_entries(e, u.home, kind) = Unavailable THEN "NOT_ASSESSED"
  ELSE Verdict(\E u \in LocalHomes(e) : \E t \in walk_dot_entries(e, u.home, kind) : Bad(u, t))

dot_files(e) ==
  DotVerdict(e, "file", LAMBDA u, t :
    \/ t.name \in {".forward", ".rhosts"}
    \/ DotProblem(e, u, t, IF t.name \in {".netrc", ".bash_history"} THEN Mask177 ELSE Mask133))

dot_directories(e) ==
  DotVerdict(e, "dir", LAMBDA u, t : DotProblem(e, u, t, IF t.name = ".ssh" THEN Mask077 ELSE Mask027))

------------------------------------------------------------------------------
(* The registered provider of a check *)
AccountVerdict(check, e) ==
  CASE check.type = "password_aging" -> password_aging(e, check.rule)
    [] check.type = "encrypt_method" -> encrypt_method(e, check.allowed)
    [] check.type = "inactive_lock" -> inactive_lock(e, check.rule)
    [] check.type = "password_change_past" -> password_change_past(e, check.today)
    [] check.type = "uid_zero" -> uid_zero(e)
    [] check.type = "gid_zero_users" -> gid_zero_users(e)
    [] check.type = "gid_zero_groups" -> gid_zero_groups(e)
    [] check.type = "root_access" -> root_access(e)
    [] check.type = "root_path" -> root_path(e)
    [] check.type = "root_umask" -> root_umask(e)
    [] check.type = "default_umask" -> default_umask(e)
    [] check.type = "system_account_shells" -> system_account_shells(e)
    [] check.type = "nologin_accounts_locked" -> nologin_accounts_locked(e)
    [] check.type = "nologin_not_in_shells" -> nologin_not_in_shells(e)
    [] check.type = "shell_timeout" -> shell_timeout(e, check.max)
    [] check.type = "shadowed_passwords" -> shadowed_passwords(e)
    [] check.type = "shadow_not_empty" -> shadow_not_empty(e)
    [] check.type = "passwd_groups_exist" -> passwd_groups_exist(e)
    [] check.type = "shadow_group_empty" -> shadow_group_empty(e)
    [] check.type = "duplicates" -> duplicates(e, check.kind)
    [] check.type = "home_directories" -> home_directories(e)
    [] check.type = "dot_files" -> dot_files(e)
    [] check.type = "dot_directories" -> dot_directories(e)
=============================================================================
