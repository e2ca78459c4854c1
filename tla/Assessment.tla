------------------------------ MODULE Assessment ------------------------------
(***************************************************************************)
(* An assessment from the host to the document (main of lsa/cli.py): what  *)
(* runs on the host (lsa/platform.py), which benchmark definition covers   *)
(* it, whether the definition is sound and which of its profiles to assess *)
(* (lsa/engine.py), one result per recommendation, and the coverage, the   *)
(* summary and the findings of the document. How a control comes to its    *)
(* status is Engine's business: here any status is possible. A version is  *)
(* the sequence of its parts, a profile a level and a kind of host ("" in  *)
(* the ESXi benchmarks).                                                   *)
(***************************************************************************)
EXTENDS Integers, Sequences, SequencesExt, FiniteSetsExt

CONSTANTS
  Hosts,      \* hosts the tool may run on
  Options,    \* command lines
  Catalogs,   \* sequences of benchmark entries, in catalog order
  Absent      \* None; a tool that is not there, a file that cannot be read

VARIABLES
  stage,      \* what is done next, or how it ended
  host,       \* the host
  options,    \* the command line
  catalog,    \* the installed benchmarks
  info,       \* PlatformInfo, Absent before detection
  entry,      \* the benchmark selected, Absent before
  warned,     \* whether the selection was recorded as a mismatch
  profile,    \* the profile named in the reports
  allowed,    \* the profiles assessed
  results,    \* one status per recommendation so far
  document    \* coverage, summary and findings, Absent before
vars == <<stage, host, options, catalog, info, entry, warned, profile, allowed, results, document>>

Statuses == {"PASS", "FAIL", "WARNING", "NOT_APPLICABLE", "NOT_ASSESSED", "ERROR"}
Severities == <<"Critical", "High", "Medium">>
DisplayManagers == {"gdm3", "lightdm"}
Kinds == {"Server", "Workstation"}

------------------------------------------------------------------------------
(* Detection *)
is_esxi(h) == h.vmkernel \/ ("esx.conf" \in h.files /\ h.files \cap {"vmware", "esxcli"} # {})

(* vmware -v, then esxcli, then the kernel release, which only a VMkernel has. *)
esxi_version(h) ==
  IF h.vmware # Absent THEN h.vmware ELSE IF h.esxcli # Absent THEN h.esxcli ELSE h.release

(* Packages that cannot be read leave the default target to decide. *)
platform_type(h) ==
  IF (h.packages # Absent /\ h.packages \cap DisplayManagers # {}) \/ h.graphical THEN "Workstation" ELSE "Server"

proxmox(h) == (h.packages # Absent /\ h.packages \cap {"pve-manager", "proxmox-ve"} # {}) \/ h.pve

detect_platform(h) ==
  IF is_esxi(h)
  THEN [kind |-> "esxi", os_id |-> "esxi", version |-> esxi_version(h), family |-> {"esxi"}, type |-> "Hypervisor", tags |-> {}]
  ELSE IF h.os_release = Absent
  THEN [kind |-> "unknown", os_id |-> "", version |-> <<>>, family |-> {}, type |-> "Server", tags |-> {}]
  ELSE [kind |-> "linux", os_id |-> h.os_release.id, version |-> h.os_release.version,
        family |-> {h.os_release.id} \cup h.os_release.like, type |-> platform_type(h),
        tags |-> IF proxmox(h) THEN {"proxmox"} ELSE {}]

------------------------------------------------------------------------------
(* Selection *)
(* Tuples as Python orders them: at the first difference, else the shorter first. *)
TupleLess(v, w) ==
  \/ Len(v) < Len(w) /\ \A j \in 1 .. Len(v) : v[j] = w[j]
  \/ \E j \in 1 .. Len(v) : /\ j <= Len(w) /\ v[j] < w[j]
                            /\ \A i \in 1 .. j - 1 : v[i] = w[i]

Major(version) == IF version = <<>> THEN <<>> ELSE <<version[1]>>
compatible(e, os_id, version) ==
  e.os_id = os_id /\ (e.version_ids = {} \/ version \in e.version_ids \/ Major(version) \in e.version_ids)

Majors(e) == {v[1] : v \in e.version_ids}
Abs(n) == IF n < 0 THEN -n ELSE n
Least(S) == CHOOSE x \in S : \A y \in S : x <= y
Newest(S) == CHOOSE x \in S : \A y \in S : x >= y

(* The distance between the operating systems, then the newest system, then the newest *)
(* version, as one tuple: larger parts are negated to come first.                       *)
distance(e, version) ==
  IF version = <<>> THEN 0 ELSE IF Majors(e) = {} THEN 99 ELSE Least({Abs(m - version[1]) : m \in Majors(e)})
closeness(e, version) ==
  LET newest == IF Majors(e) = {} THEN 0 ELSE -Newest(Majors(e))
  IN  <<distance(e, version), newest>> \o [j \in DOMAIN e.version |-> -e.version[j]]

(* Python's min and max: the first place among those no other one beats. *)
FirstBest(places, Beats(_, _)) == Least({j \in places : \A k \in places : ~Beats(k, j)})

(* Bug: of a Linux host, any definition will do. *)
family_any(entries, i) ==
  IF i.kind = "unknown" THEN {} ELSE {j \in DOMAIN entries : entries[j].os_id \in i.family \/ i.kind = "linux"}
(* The places of the definitions considered when none is compatible. *)
family(entries, i) ==
  LET related == {j \in DOMAIN entries : entries[j].os_id \in i.family}
  IN  CASE i.kind = "esxi" -> {j \in DOMAIN entries : entries[j].os_id = "esxi"}
        [] i.kind = "linux" -> IF related # {} THEN related ELSE {j \in DOMAIN entries : entries[j].os_id # "esxi"}
        [] OTHER -> {}

exact(entries, i) == {j \in DOMAIN entries : compatible(entries[j], i.os_id, i.version)}

(* The entry select_benchmark returns, Absent when it raises. *)
select_benchmark(entries, i, path) ==
  IF path # Absent THEN path
  ELSE IF exact(entries, i) # {}
  THEN entries[FirstBest(exact(entries, i), LAMBDA j, k : TupleLess(entries[k].version, entries[j].version))]
  ELSE IF family(entries, i) = {} THEN Absent
  ELSE entries[FirstBest(family(entries, i),
                         LAMBDA j, k : TupleLess(closeness(entries[j], i.version), closeness(entries[k], i.version)))]

------------------------------------------------------------------------------
(* Definitions and profiles *)
(* load_definition: fields, and of the automated controls the declared count and unique numbers. *)
load_definition(e) ==
  /\ e.readable
  /\ e.declared = Len(e.controls)
  /\ \A m \in ToSet(e.manuals) : m.complete
  /\ \A c \in ToSet(e.controls) :
       /\ c.complete /\ c.automated /\ c.severity \in ToSet(Severities)
       /\ c.profiles # {} /\ c.profiles \subseteq e.profiles
  /\ \A j, k \in DOMAIN e.controls :
       j # k => e.controls[j].id # e.controls[k].id /\ e.controls[j].cis_id # e.controls[k].cis_id

(* Automatic is Level 2 of the kind of the host. A name of PROFILE_CHOICES is taken as it   *)
(* is by a benchmark with kinds of hosts; in one with levels only it stands for its level.  *)
Named(requested, type) ==
  [level |-> requested.level,
   kind |-> IF requested.kind # "" THEN requested.kind ELSE IF type = "Workstation" THEN "Workstation" ELSE "Server"]

(* Bug: Level 2 stands for itself alone. *)
resolve_profile_apart(requested, type, profiles) ==
  IF \E p \in profiles : p.kind \in Kinds
  THEN [name |-> Named(requested, type), allowed |-> {Named(requested, type)}]
  ELSE [name |-> requested, allowed |-> {p \in profiles : p.level = requested.level}]
resolve_profile(requested, type, profiles) ==
  IF \E p \in profiles : p.kind \in Kinds
  THEN [name |-> Named(requested, type),
        allowed |-> {[level |-> l, kind |-> Named(requested, type).kind] : l \in 1 .. requested.level}]
  ELSE LET upto == {p \in profiles : p.level <= requested.level}
       IN  [name |-> IF \E p \in profiles : p.level = requested.level
                     THEN CHOOSE p \in profiles : p.level = requested.level
                     ELSE CHOOSE p \in profiles : \A q \in profiles : q.level <= p.level,
            allowed |-> IF upto # {} THEN upto ELSE profiles]

(* A benchmark has profiles, and they all name a kind of host, as those of the Debian *)
(* benchmarks, or none does, as in the ESXi ones.                                      *)
Profiles == [level : Nat \ {0}, kind : Kinds \cup {""}]
Uniform(profiles) ==
  /\ IsFiniteSet(profiles) /\ profiles # {}
  /\ \/ profiles \subseteq [level : Nat \ {0}, kind : Kinds]
     \/ profiles \subseteq [level : Nat \ {0}, kind : {""}]
(* What hosts and catalogs are made of: no Linux distribution is called esxi, a definition *)
(* names its system, and the parts of a version are numbers (_version_key reads a word as  *)
(* 0).                                                                                      *)
Definition(e) ==
  /\ e # Absent /\ e.os_id # ""
  /\ e.version \in Seq(Nat)
  /\ IsFiniteSet(e.version_ids) /\ e.version_ids \subseteq Seq(Nat) \ {<<>>}
ASSUME SelectionAssumption ==
  /\ \A h \in Hosts : LET i == detect_platform(h) IN
       /\ i.version \in Seq(Nat)
       /\ "esxi" \in i.family <=> i.kind = "esxi"
  /\ \A c \in Catalogs : c \in Seq({e \in ToSet(c) : Definition(e)})
ASSUME ProfilesAssumption ==
  /\ \A h \in Hosts, o \in Options, c \in Catalogs :
       LET e == select_benchmark(c, detect_platform(h), o.path) IN e = Absent \/ Uniform(e.profiles)
  /\ \A o \in Options : o.profile = Absent \/ o.profile \in Profiles
(* A definition has two lists, and a recommendation of the second is one that is not automated. *)
ASSUME DefinitionAssumption ==
  \A h \in Hosts, o \in Options, c \in Catalogs :
    LET e == select_benchmark(c, detect_platform(h), o.path)
    IN  \/ e = Absent
        \/ /\ e.controls \in Seq(ToSet(e.controls))
           /\ e.manuals \in Seq({m \in ToSet(e.manuals) : ~m.automated})

------------------------------------------------------------------------------
(* The document *)
Items == entry.controls \o (IF options.manual THEN entry.manuals ELSE <<>>)
Selected(item) ==
  /\ item.automated => options.section \in {"", item.section}
  /\ item.profiles \cap allowed # {}

Of(section) == {j \in DOMAIN results : Items[j].section = section}
With(statuses) == {j \in DOMAIN results : results[j] \in statuses}
Assessed == {"PASS", "FAIL", "WARNING"}
Unevaluated == {"NOT_ASSESSED", "ERROR"}

AreaStatus(section) ==
  LET open == Of(section) \cap With(Unevaluated)
      done == Of(section) \cap With(Assessed)
  IN  IF open \cup done = {} THEN "NOT_ASSESSED"
      ELSE IF open = {} THEN "ASSESSED"
      ELSE IF done # {} THEN "PARTIAL"
      ELSE IF open \subseteq With({"ERROR"}) THEN "ERROR" ELSE "NOT_ASSESSED"

(* Bug: the sections of the manual recommendations are left out. *)
coverage_sections_automated == {c.section : c \in ToSet(entry.controls)}
coverage_sections == {c.section : c \in ToSet(Items)}
build_coverage ==
  [s \in coverage_sections |->
     [status |-> AreaStatus(s),
      assessed |-> Cardinality(Of(s) \cap With(Assessed)),
      applicable |-> Cardinality(Of(s) \cap With(Assessed \cup Unevaluated)),
      affected |-> {Items[j].id : j \in Of(s) \cap With(Unevaluated)}]]

summary ==
  [total |-> Len(results),
   count |-> [s \in Statuses |-> Cardinality(With({s}))],
   severity |-> [v \in ToSet(Severities) |-> Cardinality({j \in With({"FAIL", "WARNING"}) : Items[j].severity = v})]]

(* sorted(): by severity, then by the place of the ID, that of the last result to bear it. *)
Rank(j) == SelectInSeq(Severities, LAMBDA v : v = Items[j].severity)
Place(j) == SelectLastInSeq(Items, LAMBDA x : x.id = Items[j].id)
Before(j, k) == TupleLess(<<Rank(j), Place(j)>>, <<Rank(k), Place(k)>>)
findings ==
  LET bad == With({"FAIL", "WARNING"})
  IN  CHOOSE order \in [1 .. Cardinality(bad) -> bad] : \A j, k \in DOMAIN order : j < k => Before(order[j], order[k])
scope == {Items[j].section : j \in With(Statuses \ {"NOT_APPLICABLE"})}

------------------------------------------------------------------------------
Init ==
  /\ stage = "detect"
  /\ host \in Hosts /\ options \in Options /\ catalog \in Catalogs
  /\ info = Absent /\ entry = Absent /\ profile = Absent /\ document = Absent
  /\ warned = FALSE
  /\ allowed = {}
  /\ results = <<>>

Detect ==
  /\ stage = "detect"
  /\ info' = detect_platform(host)
  /\ stage' = "select"
  /\ UNCHANGED <<host, options, catalog, entry, warned, profile, allowed, results, document>>

(* ValueError or FileNotFoundError: exit code 2. *)
Refuse ==
  /\ stage' = "refused"
  /\ UNCHANGED <<host, options, catalog, info, entry, warned, profile, allowed, results, document>>

Select ==
  /\ stage = "select"
  /\ LET chosen == select_benchmark(catalog, info, options.path) IN
     IF chosen = Absent THEN Refuse
     ELSE /\ entry' = chosen
          /\ warned' = ~compatible(chosen, info.os_id, info.version)
          /\ stage' = "load"
          /\ UNCHANGED <<host, options, catalog, info, profile, allowed, results, document>>

(* load_definition, then resolve_profile, which knows the names of profiles. *)
Load ==
  /\ stage = "load"
  /\ IF ~load_definition(entry) \/ options.profile = Absent THEN Refuse
     ELSE /\ profile' = resolve_profile(options.profile, info.type, entry.profiles).name
          /\ allowed' = resolve_profile(options.profile, info.type, entry.profiles).allowed
          /\ stage' = IF options.list THEN "listed" ELSE "confirm"
          /\ UNCHANGED <<host, options, catalog, info, entry, warned, results, document>>

(* Without root somebody at a terminal is asked, unless --yes was given; then the client *)
(* and the folder must have names.                                                       *)
Confirm ==
  /\ stage = "confirm"
  /\ \/ stage' = IF options.named THEN "judge" ELSE "refused"
     \/ ~host.root /\ options.asks /\ stage' = "cancelled"
  /\ UNCHANGED <<host, options, catalog, info, entry, warned, profile, allowed, results, document>>

(* Engine.evaluate and Engine._manual_result of the next recommendation. *)
Judge ==
  /\ stage = "judge"
  /\ Len(results) < Len(Items)
  /\ LET item == Items[Len(results) + 1] IN
     \E status \in IF ~Selected(item) THEN {"NOT_APPLICABLE"}
                   ELSE IF item.automated THEN Statuses ELSE {"NOT_ASSESSED"} :
       results' = Append(results, status)
  /\ UNCHANGED <<stage, host, options, catalog, info, entry, warned, profile, allowed, document>>

(* Bug: the document is built and nothing says so. *)
DocumentAgain ==
  /\ stage = "judge" /\ Len(results) = Len(Items)
  /\ document' = [coverage |-> build_coverage, summary |-> summary, findings |-> findings, scope |-> scope]
  /\ UNCHANGED <<stage, host, options, catalog, info, entry, warned, profile, allowed, results>>
(* build_document *)
Document ==
  /\ stage = "judge"
  /\ Len(results) = Len(Items)
  /\ document' = [coverage |-> build_coverage, summary |-> summary, findings |-> findings, scope |-> scope]
  /\ stage' = "documented"
  /\ UNCHANGED <<host, options, catalog, info, entry, warned, profile, allowed, results>>

Next == Detect \/ Select \/ Load \/ Confirm \/ Judge \/ Document
Spec == Init /\ [][Next]_vars

------------------------------------------------------------------------------
(* Types, and what is known at which stage. *)
Stages == {"detect", "select", "load", "confirm", "judge", "documented", "listed", "refused", "cancelled"}
TypeOK ==
  /\ stage \in Stages
  /\ host \in Hosts /\ options \in Options /\ catalog \in Catalogs
  /\ warned \in BOOLEAN
  /\ results \in Seq(Statuses)
  /\ info = IF stage = "detect" THEN Absent ELSE detect_platform(host)
  /\ stage \in {"confirm", "judge", "documented", "listed", "cancelled"} => entry # Absent /\ profile \in Profiles
  /\ stage # "documented" => document = Absent
  /\ stage = "documented" => DOMAIN document = {"coverage", "summary", "findings", "scope"}

(* Newer, as a reader of version numbers has it: parts that are missing count as 0. *)
Part(v, j) == IF j \in DOMAIN v THEN v[j] ELSE 0
Newer(v, w) ==
  \E j \in DOMAIN v \cup DOMAIN w : Part(v, j) > Part(w, j) /\ \A i \in 1 .. j - 1 : Part(v, i) = Part(w, i)
Distance(e) == IF info.version = <<>> THEN 0 ELSE Least({Abs(m - info.version[1]) : m \in Majors(e)} \cup {99})
Chosen == entry # Absent /\ options.path = Absent

(* The benchmark the tool picks by itself covers the host, in its newest version, when one  *)
(* that is installed does; when none does the mismatch is recorded and it is one for the    *)
(* same family of systems, at no greater distance from the host than the others of that     *)
(* family, and never one of ESXi for Linux or the other way round.                          *)
RightBenchmark ==
  Chosen =>
    LET fits == {e \in ToSet(catalog) : compatible(e, info.os_id, info.version)}
        kin(e) == e.os_id \in info.family
        others == {e \in ToSet(catalog) : (kin(e) <=> kin(entry)) /\ (e.os_id = "esxi" <=> info.kind = "esxi")}
    IN  /\ entry \in ToSet(catalog)
        /\ warned <=> fits = {}
        /\ ~warned => entry \in fits /\ \A e \in fits : ~Newer(e.version, entry.version)
        /\ entry.os_id = "esxi" <=> info.kind = "esxi"
        /\ (\E e \in ToSet(catalog) : kin(e)) => kin(entry)
        /\ warned => \A e \in others : Distance(entry) <= Distance(e)

(* _closeness: when the host version is unknown the newest definition wins: that of the     *)
(* newest system, in its newest version.                                                    *)
NewestWins ==
  (Chosen /\ warned /\ info.version = <<>>) =>
    \A e \in ToSet(catalog) :
      (e.os_id = entry.os_id /\ Majors(e) = Majors(entry)) => ~Newer(e.version, entry.version)

(* Unless a profile is asked for by its full name, what is assessed fits the host that was  *)
(* detected: always the Level 1 its benchmark has for this kind of host, never a profile    *)
(* meant for the other kind, and a recommendation for the other kind only does not apply.   *)
HostKind == IF info.type = "Workstation" THEN "Workstation" ELSE "Server"
ProfileFitsHost ==
  (stage \in {"judge", "documented"} /\ options.profile.kind = "") =>
    /\ \A p \in entry.profiles : (p.level = 1 /\ p.kind \in {"", HostKind}) => p \in allowed
    /\ \A p \in allowed : p.kind \in {"", HostKind}
    /\ \A j \in DOMAIN results :
         (\A p \in Items[j].profiles : p.kind \notin {"", HostKind}) => results[j] = "NOT_APPLICABLE"

(* The document adds up: each result is counted in one area and once in the summary, an     *)
(* area is complete only when nothing in it was left open, everything left open is named,   *)
(* and the findings are the failures and warnings, each once, the most severe first, and in *)
(* the order of the results as long as no manual recommendation repeats the ID of one:      *)
(* load_definition does not compare those.                                                  *)
Sum(f) == MapThenSumSet(LAMBDA x : f[x], DOMAIN f)
CoverageAddsUp ==
  document # Absent =>
    LET areas == document.coverage
        counts == document.summary.count
        open == {j \in DOMAIN results : results[j] \in {"NOT_ASSESSED", "ERROR"}}
        bad == {j \in DOMAIN results : results[j] \in {"FAIL", "WARNING"}}
    IN  /\ Sum(counts) = document.summary.total
        /\ Sum([s \in DOMAIN areas |-> areas[s].assessed]) = counts["PASS"] + counts["FAIL"] + counts["WARNING"]
        /\ Sum([s \in DOMAIN areas |-> areas[s].applicable]) = document.summary.total - counts["NOT_APPLICABLE"]
        /\ UNION {areas[s].affected : s \in DOMAIN areas} = {Items[j].id : j \in open}
        /\ \A s \in DOMAIN areas : areas[s].status = "ASSESSED" <=> (areas[s].assessed = areas[s].applicable /\ areas[s].applicable > 0)
        /\ \A s \in DOMAIN areas : s \notin document.scope <=> areas[s].applicable = 0
        /\ Sum(document.summary.severity) = Cardinality(bad)
        /\ ToSet(document.findings) = bad /\ IsInjective(document.findings)
        /\ \A j, k \in DOMAIN document.findings :
             j < k => \/ Rank(document.findings[j]) < Rank(document.findings[k])
                      \/ /\ Rank(document.findings[j]) = Rank(document.findings[k])
                         /\ \/ document.findings[j] < document.findings[k]
                            \/ Items[document.findings[k]].id \in {m.id : m \in ToSet(entry.manuals)}
=============================================================================
