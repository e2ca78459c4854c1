------------------------------ MODULE HostView ------------------------------
(***************************************************************************)
(* What a check sees of the host (lsa/system.py, lsa/checks/common.py).    *)
(* A view is a record                                                      *)
(*   root    whether the audit runs as root                                *)
(*   val     object -> content, Absent when the path does not exist;       *)
(*           of a collection read before, the content it had then          *)
(*   now     object -> content at this moment                              *)
(*   denied  objects only root may open or list                            *)
(*   hidden  objects below a directory only root may search                *)
(* A read answers the content, Absent (None in the code), or Unavailable   *)
(* when the code raises EvidenceUnavailable. The questions exists, is_file *)
(* and is_dir never raise: of a hidden object they answer FALSE.           *)
(***************************************************************************)
EXTENDS Integers, Sequences, SequencesExt

CONSTANTS
  Absent,       \* the path does not exist; None
  Unavailable,  \* EvidenceUnavailable was raised
  Junk          \* a configured value that is not a number

(* An exception is none of the values a read can answer. *)
ASSUME DistinctAnswers ==
  /\ Absent # Unavailable /\ Absent # Junk /\ Junk # Unavailable
  /\ Unavailable \notin BOOLEAN /\ Unavailable # <<>>

(* sorted: the j-th of a set of numbers. *)
Nth(names, j) == CHOOSE n \in names : Cardinality({m \in names : m <= n}) = j

(* A path of which the host says nothing does not exist. *)
Content(e, i) == IF i \in DOMAIN e.val THEN e.val[i] ELSE Absent

Closed(e, i) == ~e.root /\ (i \in e.hidden \/ (i \in e.denied /\ Content(e, i) # Absent))
Unseen(e, i) == ~e.root /\ i \in e.hidden

(* System.read_text and System.lines: refused, missing, or the content. *)
ReadText(e, i) == IF Closed(e, i) THEN Unavailable ELSE Content(e, i)

(* A read past the cache, of a file whose content was collected before. *)
ReadNow(e, i) == IF Closed(e, i) THEN Unavailable ELSE e.now[i]

(* System.meta needs no permission on the object itself, only on the way to it. *)
Meta(e, i) == IF Unseen(e, i) THEN Unavailable ELSE Content(e, i)

(* System.exists, is_dir, is_file and which. *)
Exists(e, i) == ~Unseen(e, i) /\ Content(e, i) # Absent

(* Bug: a directory that may not be listed has no entries. *)
GlobSwallows(e, d) == IF Closed(e, d) \/ Content(e, d) = Absent THEN <<>> ELSE Content(e, d)
(* System.listdir and glob: a missing directory has no entries, an unreadable one raises. *)
Glob(e, d) == IF Closed(e, d) THEN Unavailable ELSE IF Content(e, d) = Absent THEN <<>> ELSE Content(e, d)

(* System.walk_files: a base that is no directory, or cannot be seen to be one, has no files. *)
WalkFiles(e, d) == IF ~Exists(e, d) THEN <<>> ELSE Glob(e, d)

(* The first n of a list, fewer when it is shorter. *)
Upto(s, n) == IF n < Len(s) THEN SubSeq(s, 1, n) ELSE s

(* passwd, group, shadow, packages and mounts: a source that is missing raises. *)
Collect(e, i) == IF Closed(e, i) \/ Content(e, i) = Absent THEN Unavailable ELSE Content(e, i)

(* package_installed, package_matching and the states of units. A package has a version; *)
(* a unit has the states of its file and of the unit and whether it exists.              *)
Packages(e) == Collect(e, "packages")
Installed(e, name) == name \in DOMAIN Packages(e)
Units(e) == Collect(e, "units")
Enabled(u) == u.file \in {"enabled", "enabled-runtime"}
InUse(u) == Enabled(u) \/ u.active

(* login_defs, valid_shells, loaded_modules: a source that is missing is empty. *)
CollectOr(e, i, empty) ==
  IF Closed(e, i) THEN Unavailable ELSE IF Content(e, i) = Absent THEN empty ELSE Content(e, i)

(* Several files read one after the other: the first that only root may read raises. *)
Withheld(e, files) == ~e.root /\ \E f \in ToSet(files) : f.private

(* System.run: what a command answers may depend on who asks. *)
Run(e, c) == Content(e, c)[IF e.root THEN "root" ELSE "user"]

(* System.user_name and group_name: the first matching entry of a database that can be *)
(* read, else what the C library answers.                                             *)
UserName(e, uid) ==
  LET db == Collect(e, "passwd")
      j == IF db = Unavailable THEN 0 ELSE SelectInSeq(db, LAMBDA x : x.uid = uid)
  IN  IF j = 0 THEN Content(e, "nss").user[uid] ELSE db[j].name
GroupName(e, gid) ==
  LET db == Collect(e, "group")
      j == IF db = Unavailable THEN 0 ELSE SelectInSeq(db, LAMBDA x : x.gid = gid)
  IN  IF j = 0 THEN Content(e, "nss").group[gid] ELSE db[j].name

(* common.require_root *)
RequireRoot(e) == IF e.root THEN TRUE ELSE Unavailable

------------------------------------------------------------------------------
(* Outcomes of a provider. *)
Verdict(problem) == IF problem THEN "FAIL" ELSE "PASS"

(* Engine.evaluate answers NOT_ASSESSED when a read the verdict rests on raises. *)
Needs(reads, outcome) ==
  IF \E j \in DOMAIN reads : reads[j] = Unavailable THEN "NOT_ASSESSED" ELSE outcome

(* Engine.evaluate: a condition that cannot be told, one that fails, the provider. *)
If(condition, outcome) ==
  IF condition = Unavailable THEN "NOT_ASSESSED" ELSE IF condition THEN outcome ELSE "NOT_APPLICABLE"

(* common.as_bool: a word of TRUE_WORDS or FALSE_WORDS, else None. *)
as_bool(v) == IF v \in {"yes", "true"} THEN TRUE ELSE IF v \in {"no", "false"} THEN FALSE ELSE Absent

(* common.rule_ok: a value that is missing or no number satisfies no rule on numbers but *)
(* not_equal.                                                                            *)
RuleOk(v, rule) ==
  CASE rule.op = "not_equal" -> v = Absent \/ v = Junk \/ v # rule.value
    [] rule.op = "present" -> v # Absent
    [] rule.op = "equals" -> v # Absent /\ v = rule.value
    [] rule.op = "in" -> v # Absent /\ v \in rule.values
    [] rule.op = "bool" -> as_bool(v) = rule.value
    [] rule.op \in {"min", "max", "range", "positive", "zero_or_min"} ->
         v # Absent /\ v # Junk /\ CASE rule.op = "min" -> v >= rule.value
                                     [] rule.op = "max" -> v <= rule.value
                                     [] rule.op = "range" -> v \in rule.min .. rule.max
                                     [] rule.op = "positive" -> v > 0
                                     [] rule.op = "zero_or_min" -> v = 0 \/ v >= rule.value

(* common.permission_problems: bits of the mask, or an owner or group outside the list. *)
PermissionProblem(e, meta, mask, owners, groups) ==
  \/ meta.mode \cap mask # {}
  \/ owners # {} /\ UserName(e, meta.uid) \notin owners
  \/ groups # {} /\ GroupName(e, meta.gid) \notin groups

(* common.resolve_targets: fixed paths split into existing and missing, globs and walks added. *)
Targets(e, paths, globs, walks) ==
  [existing |-> {p \in paths : Exists(e, p)},
   missing  |-> {p \in paths : ~Exists(e, p)},
   globbed  |-> [d \in globs |-> Glob(e, d)],
   walked   |-> [d \in walks |-> WalkFiles(e, d)]]
=============================================================================
