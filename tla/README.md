# Verification of linux-server-audit

TLA+ models, TLC runs and TLAPS proofs for the audit tool in `src/`: a
read-only, sequential Python program that collects evidence from one host
(Debian, Proxmox VE or ESXi), judges it against a CIS benchmark definition and
writes reports. Line numbers refer to the files under `src/`, and
`PROJECT.json` maps every definition of the models to the lines it translates.

What is hard in such a program is not parallelism inside it - it has one thread -
but that everything around it moves and fails: the host changes while it is
read, commands and files fail for one control and not for the next, every
exception must cost exactly one verdict, and several processes share one
reports directory and one benchmarks directory without locks. And the 95
comparisons the checks make rest on configuration in layers, includes and
spellings, read without being allowed to see all of it. The models are about
these.

## 1. Inventory

| Component | State it keeps | Operations | What makes it correct |
| --- | --- | --- | --- |
| Evidence cache (`lsa/system.py`, `System.cached`) | `_cache`, collector tallies, the tracking window | `cached`, `use`, `note_error`, `begin_tracking`, `end_tracking`, `collectors` | one answer per key for all controls; exact tallies; unavailability charged to the control and collector it concerns |
| Unit states (`System.units`, `checks/conditions.py`) | `_units`, the "no systemd" mark in `_cache` | `units`, unit prefetch, `time_daemon`, `logging_method` | one state per unit for the whole run; conditions of one family agree |
| Engine (`lsa/engine.py`) | results so far, `collectors_used` per control | `run`, `evaluate`, `_result`, `_manual_result`, `_prefetch_units` | a verdict for every item, once, in order; blame reaches the report |
| Platform and selection (`lsa/platform.py`) | none (pure over the host) | `detect_platform`, `select_benchmark` | an exact match always wins; otherwise the closest definition of the family |
| Definition and profiles (`engine.py:78-155`) | none (pure) | `load_definition`, `resolve_profile` | what is assessed fits the kind of host |
| Coverage, summary, document (`engine.py:331-445`, `model.py`) | none (pure) | `build_coverage`, `build_document`, `AssessmentSummary` | three counts of the same results agree; nothing left open is called complete |
| Catalog (`platform.py:263-292`, `tools/build_benchmark_definition.py`) | the files in `benchmarks/` | `load_catalog`, builder `main`, `write_catalog` | what is selected, hashed, reported and evaluated is one content |
| Report run (`lsa/cli.py`, `lsa/reporting/`) | the report folder and its files, umask, exit code | `main`, `report_from`, `generate_reports`, `atomic_report_path`, `_chown_to_invoker` | no half-written or mixed-up report, an exit code that tells the truth |
| Filesystem scan (`checks/filesystem.py:180-333`) | stack, visited inodes, buckets | one walk for three checks | complete outside exclusions, silent inside them, never twice |
| Host reads (`lsa/system.py:360-560`) | none | `read_text`, `meta`, `exists`, `glob`, `walk_files`, `run` | a refused read is told apart from a missing file |
| Checks (`lsa/checks/*.py`) | none; read through `System` | 95 providers, 14 conditions, the path sources | no verdict from evidence that was not read; the same answer as the kernel, sshd, auditd and dpkg would give |
| Report layouts (`lsa/reporting/*.py`) | none | formatting of one immutable document | not modelled |

Interaction: `main` detects the platform, selects an entry of the catalog, loads
its definition and resolves the profile; `Engine.run` prefetches unit states and
evaluates one control after the other; `evaluate` opens a tracking window, asks
conditions and then the provider, and both read the host through `System`,
directly or through `cached`. Builders given to `cached` call `cached` again for
other keys. The exceptions are the protocol between them: `EvidenceUnavailable`
is cached and ends a control as `NOT_ASSESSED`, anything else is not cached and
ends it as `ERROR`. The results become one document, which each writer stores
under a temporary name and renames.

Hard behaviours, all listed with their lines under "hazards" in `PROJECT.json`:
nested builders unwinding through frames of the cache; evidence that fails
once and then succeeds; the host changing between two reads; a failure met
first by another control; a prefetch that fails and is swallowed; two runs in
the same second and a clock set back; a crash between the write and the rename;
one report format failing of several; builders of definitions racing each other
and an audit; bind mounts and prunes in one walk; reads that are refused to an
unprivileged run; layered configuration where the last or the first one wins;
includes that nest; audit rules that mean the same in other words; versions that
do not compare as tuples.

## 2. The models

| Module | Models | Composes |
| --- | --- | --- |
| `EvidenceCache` | `System.cached` and everything around it | - |
| `Verdicts` | what `Engine.run` promises, abstractly | - |
| `Engine` | `Engine.run` as the client of the cache | extends `EvidenceCache`, implements `Verdicts` |
| `UnitStates` | `System.units`, prefetch, unit conditions, unit providers | - |
| `ReportRun` | several `main` and `--report-from` processes over one output root | - |
| `FilesystemScan` | `filesystem_scan` and its verdict | - |
| `Catalog` | builders and audits over one benchmarks directory | - |
| `Assessment` | `main` from detection to the document | - |
| `HostView` | what a read answers: content, missing, or refused; helpers of `common.py` | - |
| `AccountChecks` | `accounts.py` | `HostView` |
| `AccessChecks` | `access.py` | `HostView` |
| `AuditChecks` | `auditd.py` | `AccessChecks` (the sudo log) |
| `KernelChecks` | `kernel.py`, `logs.py` | `HostView` |
| `ServiceChecks` | `ssh.py`, `network.py` | `HostView` |
| `PackageChecks`, `DebianVersion` | `packages.py` | `HostView` |
| `BootChecks` | `content.py`, `security.py` | `HostView` |
| `EsxiChecks` | `esxi.py` | `HostView` |
| `PathChecks` | the path, mount and log providers of `filesystem.py` | `AuditChecks`, `ServiceChecks`, `PackageChecks` (path sources) |
| `Conditions` | the conditions of `conditions.py` that do not ask for units | `HostView` |
| `ProviderAudit` | an audit by one family of these, while the host changes | all check modules |
| `Refusals` | the audits `RefusalOnlyWithholds` is proved of: types of checks, what they ask after by name, what commands tell a user | `ProviderAudit` |
| `MC*` | the instances TLC checks | |
| `*Proofs` | theorems of the module of that name | |

**EvidenceCache.** `cache` is `_cache`: per key a value, a reason
(`EvidenceUnavailable`) or nothing. `stack` holds the keys whose builders are
running, `raised` the exception in flight and `raisedBy` the key it came from.
One `cached` call is split at the only point where other code runs in between,
the builder: `Hit` and `Miss` are the code before it, `Succeed`, `Fail` and `Blow`
the three ways out after it. What a builder does is not determined: it may ask
for any key the constant `Asks` allows, read a file (`ReadHost`, which answers
afresh every time), run a command (`RunCommand`, where a timeout is noted for the collector and
the caller goes on), raise, and, in a tolerant builder (`advanced_option` falls
back to a second source), go on after a failure (`Tolerate`). `told` is a history
of what each key has answered its callers.

**Engine.** The phases are those of `run`: unit prefetch (`Probe` and then cache steps,
with `Handle` as the `except Exception` that swallows whatever happened),
controls, manual recommendations, done. `evaluate` is one action per way out of it -
`FilterOut`, `Begin`, the conditions, `Verdict`, `Unavailable`, `Defect` - with
every early return and the `finally` that files `collectors_used` in `Close`. A
provider and a condition are arbitrary clients of the cache. Coverage looks the collectors of a result
up by its ID (`UsedBy`), so a manual recommendation that repeats a control's is charged with that control's.

**UnitStates.** `units()` is a second cache with other rules: known states stay
for ever, "systemd is not running" stays for ever, every other failure is
forgotten, so that the next control asks again. `Remembered`, `Shown` and
`Refused` are its ways out. `Decide` and `DecideBlindly` are the conditions, with the
`except EvidenceUnavailable` that answers a default in the second.

**ReportRun.** Each process steps through `main` or `report_from`: names from
the clock, `mkdir`, the assessment (one step: `Engine` is about it), and per
format open, write, publish, with a failure or a kill possible at each. A kill is that of a
process: the writers do not sync before the rename (`reporting/common.py:48-51`), so what a power cut
leaves is not covered. The folder
and the reports are named by the second, as client and host are the same for all.
Permissions are modelled by owner, since the code makes private folders.

**FilesystemScan.** The walk over a tree of paths with inodes and devices;
`scandir` yields entries in any order. An entry is a step. Mounts arrive already
classified, each with its `general` and `privileged` flag. `Up` leads from a path to the
directory it lies in, which is all the proofs need of trees; `Arrives` says
what a walk can come to at all, from a mount down its device outside the
prunes.

**Catalog.** A content is a revision that is whole or torn, valid or not; a hash
is as good as the content. A file write is two steps (truncate, fill) because
`write_text` is not atomic; the readers' two reads of one file are two steps
because they are in the code.

**Assessment.** One action per stage of `main` - `Detect`, `Select`, `Load`,
`Confirm` - with every exit code 2 as `Refuse`, then a status per recommendation
(`Judge`, any status a control may have), then `Document`. The functions keep
their names: `closeness` is the tuple the code compares, with Python's order of
tuples (`TupleLess`), and `FirstBest` is the place at which Python's `min` and
`max` stop: one that nothing beats, and the first of such; `findings` sorts by the dictionary of places, in which of
two results with one ID the later one counts. A version is the sequence of its
numbers and a profile a level and a kind of host, as that is what is compared.

**The check modules.** A host is a function from objects - files, directories,
commands, databases - to their contents; a `view` adds who asks and what only
root may open (`denied`) or reach (`hidden`). `HostView` has the reads: each
answers the content, `Absent` for what the code gets as `None`, or `Unavailable`
where it raises `EvidenceUnavailable`; `exists` and its kin answer FALSE for a
hidden object, as in the code. A provider is an operator of its own name over a
view, in the order in which the code reads, so that a refusal behind an early
return withholds nothing. Lines are records of the fields the code compares,
modes are sets of bits; an audit rule is parsed from its tokens, as later tokens
override earlier ones, and a Debian version is compared character by character.

**ProviderAudit.** The controls of one family in order (`Assess`), each with its
conditions and then its provider, on a host that may change in between (`Edit`).
`cache` holds the user databases as they were when a control first collected
them; `Reads` says which control collects which: none when a condition does not hold or is
refused, else those of the provider in its order up to the first that is refused. Everything else is
read afresh, as `read_text` remembers nothing.

## 3. The runs

`tlc -workers 2 -config X.cfg MCX` in this directory. Deadlock checking is off
where the program ends (all but `EvidenceCache`, which is a service).

| Run | Instance | Shows |
| --- | --- | --- |
| `evidence_cache` | an outer key that falls back from one inner key to another, two collectors, two values, two reasons, one crash | `SameAnswer`, `TallyMatchesCache`, `FailureIsAttributed`, `NoReentry` |
| `engine` | three controls (one conditioned, one filtered out) and two manual recommendations over a tolerant outer key and an inner one | `BlameReachesReport`, `SameEvidenceSameFate`, `WindowPerControl`; refinement of `Verdicts` with its liveness (`KeepsPromise`) |
| `unit_states` | six controls over three units, two changes of the host, every outcome of every query | `OneStatePerUnit`, `PrefetchAligns`, `OnlyGuessesDisagree`, `RefusalIsCounted` |
| `report_run` | two assessments, one regeneration, two seconds, two formats | `PublishedIsWhole`, `OneRunPerFolder`, `TempsHaveWriters`, `ExitMatchesReports`, `ReportsAreKept` |
| `filesystem_scan` | `/a/d/f` and `/b/d/f`, where `/b` is a device of its own, a bind mount of `/a`, or a part of the device of `/` that has no other name; every flag, prune and trouble | `EverythingJudged`, `EverythingInventoried`, `PrunedIsNotJudged`, `EachDirOnce` |
| `catalog` | two definitions, a builder for each, one audit | `QuietAuditIsConsistent`, `HashIsOfThisAudit`, `OnlyDefinitionsFailAnAudit` |
| `assessment` | Debian, Proxmox, ESXi and foreign hosts, catalogs with exact, near, wordless and no entries, every profile, every status | `RightBenchmark`, `ProfileFitsHost`, `CoverageAddsUp` |
| `provider_audit` | per family a host that passes every control and alterations of it, with and without root; 2704 pairs of versions | see below |

What `provider_audit` shows. `RefusalOnlyWithholds`: for each of the 95
providers but two (the filesystem scan has its own module), on every host of the
instance and with any one object more refused, an unprivileged run is told what root
is told or nothing; the exceptions are named in `RefusalDecides` and discussed
in section 4. `OneSnapshot`: an edit of `/etc/passwd`, `shadow`, `group`,
`shells` or `login.defs` between two controls is seen by all later ones or by
none, which holds because all go through `cached`, except the one that
reads `/etc/shells` again. `BootAppliesIt`, in two parts: the backward search of
`sysctl_configured` finds what applying the files forward in the order of its docstring leaves - those of
systemd-sysctl, `/etc/sysctl.conf`, UFW's -; and it finds what a boot leaves, which applies
`/etc/sysctl.conf` only where the link `99-sysctl.conf` stands among the names, on every host but those where
`sysctl.conf` is outranked by a later name or has no link (`MainOutranked`, a disagreement of section 4).
Hosts with and without systemd-sysctl, with the link, without it and with files behind it are all audited.
`IncludesFollowed`: the include walk ends and reads what sshd reads, once.
`PassMeansAudited`: a pass on audit rules means that every event of the
requirement - each call, user, error and argument it asks for, and each
access to a file it wants watched - is one that a rule loaded on the host
records, checked event by event and against rules as they are written to
narrow it: for the other machine type, the other sign, a negative
`auid`, a path that is a link. `CurrentMeansNoNewer`:
`debian_version_compare` agrees with the order of the Debian policy, stated
independently (`Older`).

Bounds. Two inner keys are the least in which one failure is tolerated and
another propagates, and an outer and an inner key fail for different reasons;
`MaxErrors` bounds unexpected exceptions because they are counted and change
nothing else. In `engine`, two evaluated controls are the least in which one meets
a failure first and the other later, and one reason suffices, as a retry would
show as a value; one of the manual recommendations repeats the ID of a control. `MaxChanges = 2` lets a unit change and change back
between two queries. Two seconds are the least in which runs collide or do
not, and the third process regenerates from either; a third format repeats the
second. The tree has every relation the walk distinguishes - above, below, on
and beside a mount or a prune - to depth three, below which the flag is
handed on unchanged; `filesystem_scan_bind` needs only the two layouts in which
no mount lies within the walk of another. Two builders are the least that race, and a third adds
no new pair. In `assessment` a catalog has up to five entries, among them a best one,
a second best and a tie, and a definition two controls in two sections and a manual
recommendation that repeats an ID. In `provider_audit` the alterations are those a
provider tells apart: each branch of each provider is reached by one; one edit
per run, because every database is collected at most once; `LIST_LIMIT = 1`.
Versions are all pairs of 52, among them all of up to two characters of the four
classes the comparison knows.

Each property has a mutant: a definition of the module (`FailForgets`,
`PublishUnwritten`, `GlobSwallows`, ...) with a plausible bug, under which TLC
finds the property violated.

### Fairness

Only `engine` checks liveness. Weak fairness on every way out of `evaluate` and on
the exits of builders: they are straight-line Python that returns. Strong
fairness on successful returns of builders, the probe and providers: a loop
over a finite list may ask any number of times before it comes to its end, and
it does come to its end, since its commands run with a timeout
(`System.run`). Nothing is made to fail: fairness only says that an exception
once raised goes on unwinding.

## 4. Disagreements between code and documents

Runs that end in a violation, because a document says otherwise:

| Run | Document | Code |
| --- | --- | --- |
| `unit_states_guess` | `docs/benchmark-definitions.md:76-77`: a condition that cannot be evaluated does not guess | `conditions.py:88,118` do |
| `filesystem_scan_bind` | `filesystem.py:183-186`: the checks cover local filesystems outside the prune paths | a directory met first below a prune is marked visited and skipped under its other name |
| `less_privilege` | `README.md:51-53`: without root, never a failure for want of privileges | the prerequisite of the audit permission checks is asked for with `exists`, which answers FALSE below a directory only root may search: FAIL |
| `newest_definition` | `platform.py:320-321`: when the host version is unknown the newest definition wins | of versions 1.4 and 1.4.1 the negated tuples rank 1.4 first |

Seen while modelling and not run, as the models agree with the code:

- `_manual_result` ignores `--section`, although `README.md:95` says that other
  controls become NOT_APPLICABLE outside it.
- Under umask 077 a missing output root becomes root's and 0700, so that the user
  the folder is handed to (`README.md:65-66`) cannot enter it; a failed
  assessment returns before the folder is handed over (`cli.py:293`); and
  `--report-from` makes its folder under the caller's umask (`README.md:150` says 0700).
- Unreadable directories are noted by the filesystem scan and leave PASS
  (`docs/benchmark-definitions.md:72-73`: evidence that cannot be read becomes
  NOT_ASSESSED); so do a VM whose `.vmx` cannot be read while another can
  (`esxi.py:283`), processes whose name may not be read (`logs.py:278`), and a home
  below a directory the user may not search, for which `is_dir` is FALSE (`accounts.py:483,525`).
- "Effective boot-time value" says the docstring of `sysctl_configured` (`kernel.py:158`), which puts
  `/etc/sysctl.conf` above all files of systemd-sysctl (`kernel.py:169`). systemd-sysctl reads it only through the
  link `/etc/sysctl.d/99-sysctl.conf`, at the place of that name: where the link is missing, or where a file with a later name
  (`zz.conf`) sets the parameter too, the boot leaves another value in force than the one named. `BootAppliesIt`
  sets these hosts aside by name (`MainOutranked`); on all others the two agree.
- An `Include` with a wildcard in its directory part is expanded by sshd, while the code takes that part for the name of a
  directory (`ssh.py:82`), which no host has, and misses the files. The models have no such `Include`.
- A unit whose state cannot be read is not held against a mount
  (`filesystem.py`, `mount_exists`); `gsettings` answers for the session of
  whoever asks; the exit codes of `aide` (`auditd.py:429`), `modprobe -n` (`kernel.py:242`) and `postconf`
  (`network.py:149`) are not read, so that one that fails only for the user counts as one that answers
  nothing. No property covers that: `RefusalOnlyWithholds` is about commands that answer the user as they answer root or visibly
  refuse, and exempts the `aide` check.
- An audit rule with a further field, which narrows it, meets a requirement; an
  earlier `never` rule and the sign of an errno are ignored (`auditd.py:232-258`).
  So does `auid>=-1`, since -1 is below every threshold, while the kernel reads it as 4294967295 and
  records nothing (`auditd.py:234-240`). `PassMeansAudited` sets rules so narrowed
  aside (`Narrowed`).
- A mount that shares the device of the walk that reaches it is entered there,
  with the flag of the upper mount, and is then skipped as visited when its own
  turn comes; where a prune lies in between, it is walked from its own top, or, being
  pruned itself, not at all (`filesystem.py:247-307`). The theorems speak
  of what a walk arrives at for this reason.
- `load_catalog` is silent about a missing catalog
  (`docs/benchmark-definitions.md:62-64` says it warns); `write_catalog` reads
  each file twice, so an entry may combine the metadata of one content with the
  hash of another.
- `cached` forgets unexpected exceptions (`system.py:336`: "the same value or
  error"); `read_text` and `run` remember nothing (`system.py:3-4`: "read once
  per assessment"), so `nologin_not_in_shells` may see another `/etc/shells`
  than the other account checks.

## 5. The proofs

`tlapm M.tla`. The theorems hold for every value of the constants that satisfies
the module's assumption, which TLC evaluates in the runs.

**EvidenceCacheProofs.** `SameAnswer`, `TallyMatchesCache` and `NoReentry` need
each other: an answer is written at the end of a build, so that it overwrites
nothing rests on the key being on the stack only once, and that on the call
graph of builders being acyclic - `AcyclicAssumption` states it by
giving each key a rank. The inductive invariant is the type invariant, the
stack discipline (each frame was asked for by the one below it) and the tallies
as cardinalities of the settled keys. `FailureIsAttributed` adds that an
exception in flight came from a settled key whose collector was used in the
window that is open.

**EngineProofs.** `EngineImplementsCache` shows every engine step to be a cache step
or a stutter, so the cache's theorems transfer. `BlameReachesReport` and
`SameEvidenceSameFate` then need only what the engine itself does: the reason
that ended a control is the one its key holds, and keys never change
once settled. `KeepsPromiseSafetyHolds` is the refinement: initial states map to
initial states, `Close` and the two filters map to `Decide` of the next item, all
else stutters.

**UnitStatesProofs.** The invariant says that each method found in use is
either a guess, or what the states known then and now imply: known states never
change, so two answers of a family agree (`OnlyGuessesDisagreeHolds`), and after a
successful prefetch nothing is missing, so nothing can be refused
(`PrefetchAlignsHolds`).

**ReportRunProofs.** What a process relies on (`Sound`) is stable under the steps
of all others because a folder that is there keeps its maker (`FoldersStay`) and
a report is only replaced by a complete one of the assessment that made its
folder (`FilesStep`). `OneRunPerFolder` is part of the induction: a regeneration
takes its second and its document from a report it reads back, so they belong
together only if they did on disk. `ReportsAreKept` follows: a rename over a
report brings the same assessment. `ExitMatchesReports` needs a second
invariant on top: the formats behind a process are on disk or on record as failed
(`Reported`), which steps of others preserve because reports are kept; and nothing
on disk or in a regeneration is of an assessment that published nothing itself
(`AllSeeded`), which is why an exit code 1 cannot be belied by a regeneration that
is still at work. No assumption is made on how many processes
read the same second, nor on what is killed.

**FilesystemScanProofs.** `EachDirOnce` and `PrunedIsNotJudged` come from one
invariant (`Inv`): the inodes on the stack are visited, unopened and different
(`Waiting`), and what is on the stack or being read lies on a way the walk may take from its
mount, with the flag that the prunes on that way make (`Positions`). `EverythingJudged` and
`EverythingInventoried` are the converse and need a second part (`Progress`): for a mount
that no other walk arrives at, each directory its walk reaches is still to be
met, on the stack, or read, and each entry of a directory that was read is looked at, or
still among those left. At the end nothing is left. Of the tree
`ScanAssumption` asks that each path has one parent and lies not above itself, and that mount
points are sorted behind those above them, as the code sorts them; what is above a path is
the least set closed under parents (`Up`), so that no proof needs an induction over depth.

**CatalogProofs.** `HashIsOfThisAudit` from the order of an audit's steps: what is on
disk while it runs is on record (`Witnessed`), and each entry behind it carries a hash from
that record (`Vouched`). `QuietAuditIsConsistent` adds that metadata and hash of an
entry are of one content as long as no two builds overlapped (`Orderly`).
`OnlyDefinitionsFailAnAudit` needs what builders leave behind wherever they are killed:
a definition that was listed or catalogued stays (`Grounded`), and one that
came later was seen torn before it was whole (`Blamed`). Any number of
definitions, builders and audits.

**AssessmentProofs.** `ProfileFitsHost` from `ProfilesAssumption`: the profiles of a
benchmark all name a kind of host or none does. The invariant says which stage
has settled what: the platform after detection, a uniform set of profiles after
the selection, `allowed` as `resolve_profile` answers it until the end, and
every result outside the selection NOT_APPLICABLE. `RightBenchmark` from
`SelectionAssumption` (versions are sequences of naturals; a catalog is a finite sequence):
`TupleLess` is a strict order, and a finite set with a strict order has an element that
nothing is less than (`Unbeaten`), the one with the
least below it, by the well-foundedness of the subsets of a finite set and without an induction over the catalog. `FirstBest` therefore exists and
the selected entry is exact if any is, and closest if none is.
`CoverageAddsUp` takes sums and orders over finite sets of any size. The sum of the
community modules is a recursive function chosen by its equation; that one exists is read
off the sizes of sets (`SumUnfolds`), and sums of the sizes of parts that do not overlap add
up to that of the whole (`SumOfParts`), in both cases for a smallest set that would be an
exception. In the same way every finite set can be put in a strict total order
(`OrderExists`), so that the findings are that order of the failures (`FindingsInOrder`).
The invariant (`DocumentInv`) is what the document presupposes: a definition that
was checked, an answer for each of its items, and no failure of a manual
recommendation, whose ID may repeat that of a control - which is what makes the order
of the failures total. `DefinitionAssumption` says that a definition is a finite list of controls and
one of manual recommendations.

**ProviderAuditProofs.** `PassMeansAudited`, for any
requirements and any rules within `AuditAssumption`: a requirement makes
one of the kinds of demands the benchmarks contain (`Demand`), a rule's field has a value as reading its
text gives one (`Written`), and `auditctl` answers only root. The code compares fields one by one and never
looks at an event, so the argument is by fields: if a field of a rule
matches the field demanded of it, it holds of every event the demand holds of
(`MatchHolds`, on thresholds, unset users and errors `ThresholdHolds`, `UnsetHolds`,
`NumberHolds`); a rule that is accepted and not `Narrowed` has no other field, so it
records every such event (`AcceptedRecords`); and `audit_rules` passes only if it found
a rule for each call and each watched file (`CallsAreRecorded`, `FilesAreWatched`). The
invariant carries this to the state: a control of this family was judged on
the host as it then was, a refusal to read the rules withholds the verdict, and a
PASS to an unprivileged run is the one root would get (`PassIsRoots`).

`OneSnapshot` rests on locality. Two hosts are `Alike` but for a set of databases when
the same reader finds every other object the same; each read answers the same of them
(`ReadsAlike`), and so, one lemma per group of checks, does each check whose
databases (`Reads`) are outside the set (`AccountAlike`), its conditions
(`ConditionsAlike`, `MetAlike`), and the list of those databases itself (`CollectedStay`, `ReadsStay`), which
depends on what was read: it ends at the first refusal, and for
the dot files and the group shadow it goes by what the databases say. A check that collects only part of its databases was
refused one of them, and so judges nothing (`RefusedWithholds`). The
invariant (`AccountInv`) says that what is collected was on the host before the edit or is there
now, and that each verdict given is the one of the audit's view as it stands, which holds
because all it reads is in the cache (`ToldNow`). An edit then changes only what no
verdict has read, a further control only adds to the cache, and the cache is
the snapshot. `AccountsAssumption` asks that homes, the directories of root's PATH and
the paths of `path_exists` are no user databases - the view caches those under
the same name a walk would use - and that a control of this family has only conditions that
read no unit state, as in the benchmarks. It says nothing of the contents or the
order of the controls. `nologin_not_in_shells` is left out, as in the property: it does
read past the cache, and the lemma fails for it alone.

`RefusalOnlyWithholds` compares two views of one host: the user's, with any
further object closed to it, and root's (`AsUser`). A read of the first is
`Unavailable` or that of the second, unless the code asks with `exists` and its kin,
which answer FALSE below a closed directory. The lemmas on `HostView` say this
of each kind of read, then there is one lemma per provider, source and condition: what it computes for
the user is `Unavailable` or what it computes for root. That is where the order of
reads counts, as a provider may return before it comes to the refused one. A verdict
adds the conditions, where a refusal ends the check and an answer is root's
(`VerdictWithholds`). The invariant (`RefusalInv`) is that the host is an audited one,
before the edit and after, and that the cache holds what one of the two contains.

`RefusalAssumption` is what the code takes for granted. No object that a check asks after
by name lies below a directory closed to the user (`Asks`: commands, main
configuration files, and the paths a check or another file names); where one does, the tool fails for want of root, which
is the run `less_privilege`. Who owns what is
asked of the C library, so `passwd` and `group` stay open. And commands answer a user what they answer root or visibly refuse
(`Answers`). The contents of files, the order and number of checks, and which
other objects are closed are free. The exemptions are those of `RefusalDecides`, listed in
section 4. The proof added the last of them: a home below a closed
directory is passed over as if it did not exist.

`BootAppliesIt` is an induction over data, done by hand: over the numbers, as the least number of which
something does not hold (`LeastNumber`, `Reached`). A flattened sequence of layers ends as the last layer that sets
anything does (`FlattenedLast`), for which the recursive function that flattens is shown to
exist first. `Nth` enumerates a finite set of names in their order, each once (`Sorted`), so
the files of the two directories, or those `systemd-sysctl` lists, are the ones the boot applies, in its order (`ChosenIs`, `LayersAre`).
A file that is passed over because another path led to it before sets nothing that one does not, so the first file
that sets the parameter is one that is read (`FreshIsFirst`), and it is UFW's, else `sysctl.conf`, else
the last of the layers that sets anything (`SearchEnds`); what stays in force of the layers with one or two files on top
is decided in the same order (`OnTop`), the other way round, and where the link to `sysctl.conf` is the last layer that sets
anything it does not matter whether the file is applied again (`BootFollows`). The invariant (`BootInv`) is that the host's
files stay well formed. `SysctlAssumption` says what
that is: directories of finitely many files, in which a mask sets nothing and two paths that lead to one file
show one content; how many there are, what they set and which hide
or lead to which is free.

`IncludesFollowed` is a proof about a recursion whose calls take sequences. A function that calls itself last exists even where its
calls would not end (`TailRecursion`: its value is an end of a chain of calls, if there is one), and `visit` is of that form
(`VisitExists`). That the walk ends, and what it answers, is one induction (`VisitedIs`): at a call each file is found
once and what a found file includes is found or pending (`Underway`), the answer is all of that and what it leads to and nothing else
(`Complete`), and a call either drops a pending path or finds one more of finitely many files (`VisitCompletes`). From
the start that is the least set that holds the main file and what its files include. The invariant (`SshInv`)
adds that the last verdict is that of its provider on this host. `SshAssumption` asks for finitely
many files and for limits that are numbers; a file that includes itself, a cycle, a directory that
does not exist and a main file that is missing are all allowed.

`CurrentMeansNoNewer` compares two recursions over versions of any length: `verrevcmp`, which takes both
parts a round at a time and stops at the first difference, and the weights of the policy, which are found for
each part alone and compared as if both went on with zeros. That both functions exist is `TailRecursion` again
(`VerrevcmpIs`, `WeighIs`). The weights of a part are those of its first round and then those of what is left
(`WeightsIs`), so that a round of `verrevcmp` can be set against them: up to the place where the parts part
their weights are equal (`HeadWeights`), a character that differs there is sorted as the policy ranks it, the end of
a part among letters and tildes included (`OrderIs`, `PlaceDecides`), and of two runs of digits without leading zeros the longer,
else the one with the greater first digit that differs, is the larger number (`ShorterIsLess`, `FirstDecides`,
`ZerosDrop`). So a round that decides does so as the weights do, and one that does not leaves
weights that compare as those of what remains (`RoundSorts`); the rest is an
induction over the length of both parts (`VerrevcmpSorts`). Epoch, part and revision then follow from how `split` takes a version apart
(`CompareIsPolicy`). The invariant (`VersionInv`, on top of `RefusalInv`) says that
these audits collect nothing and that the last verdict is that of its check on this host.
`VersionsAssumption` says that versions are of the characters the model knows - the digits, three
letters and the signs a version may have - and that `apt-cache` names a candidate, or none, for each package
asked after.

Only model-checked: `KeepsPromise`, as the prover knows neither fairness nor ENABLED. Every invariant of a passing
run is proved.

## 6. Not modelled

Report layouts and the XLSX writer (formatting of an immutable document), the
PDF parser of the builder and the specification tables (data), argument parsing,
prompts and the listing modes of the command line, the contents of the log, the
wording of observations and reasons, a loss of power, and the parsing of single lines into
fields: a model that spelt these out would repeat the code and tell
nothing apart. `systemctl show`, the clock, the filesystem, the kernel's mount
table and the answers of commands appear as what the code can see of them.

## 7. Plan

Done, in this order: the cache, the engine and its refinement of `Verdicts`,
unit states, report runs, the walk and the catalog; then the assessment from
detection to document, the view of a host, the check modules one file of the source at a
time, and the audit that composes them while the host changes; and the proofs of
section 5.

Left, in order of what it would add:

1. The hand-over of a folder after a failed assessment (`cli.py:293`), which needs
   a second invocation by the other user to be told apart from success.
2. The host section of the report (addresses, virtualization) and the reasons
   `build_coverage` words, once a property asks for more than their wording.
