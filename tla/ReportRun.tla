----------------------------- MODULE ReportRun ------------------------------
(***************************************************************************)
(* The life of one command line: main() of lsa/cli.py from the report      *)
(* folder to the exit code, report_from(), and the writers' shared         *)
(* atomic_report_path, for several processes over one output root.         *)
(*                                                                         *)
(* A run's folder and files carry its client, host and the second it       *)
(* started, so runs of one host collide when they read the same second.    *)
(* The wall clock may jump.  Any process can fail at any step, or be       *)
(* killed; both leave behind what was done until then.                     *)
(***************************************************************************)
EXTENDS Naturals, Sequences

CONSTANTS
  Mains,       \* assessments
  Regens,      \* --report-from processes
  Seconds,     \* readings of the clock that runs put into their names
  Elsewhere,   \* a folder named by --output of a --report-from
  Formats,     \* the report formats, in the order they are written
  Absent

Procs == Mains \cup Regens
Dirs == Seconds \cup {Elsewhere}      \* a run's folder is named by its second
FormatSet == {Formats[i] : i \in DOMAIN Formats}
Names == Dirs \X Seconds \X FormatSet \* folder, stem and suffix of a report
Owners == {"root", "user"}
Folders == [owner: Owners, maker: Procs]
Files == [doc: Mains, whole: BOOLEAN, owner: Owners]
Supported == {"json", "html", "csv", "xlsx", "consolidated"}

ASSUME ReportRunAssumption ==
  /\ Mains \cap Regens = {} /\ Elsewhere \notin Seconds
  /\ Formats \in Seq(Supported) /\ FormatSet # {}
  /\ \A i, j \in DOMAIN Formats : Formats[i] = Formats[j] => i = j
  /\ Absent \notin Procs \cup Dirs \cup Owners \cup {"open"} /\ Absent \notin {0, 1, 2}
  /\ Absent \notin Folders \cup Files

VARIABLES
  clock,     \* the second datetime.now() reads
  sudo,      \* processes started with sudo by the same user
  root,      \* the output root: Absent, "open" (existing), or 0700 of an owner
  folder,    \* report folders: owner, and the process that made it
  file,      \* reports under their final names: document, whole or not, owner
  temps,     \* temporary files: the writing process, its folder, whole or not
  pc,
  stamp,     \* the second in the names a process writes
  into,      \* the folder it writes to
  doc,       \* the assessment it reports: the main run that produced it
  at,        \* the format it is at
  failed,    \* main: formats that could not be written
  exit       \* exit code, or Absent

fsVars == <<root, folder, file, temps>>
procVars == <<pc, stamp, into, doc, at, failed, exit>>
vars == <<clock, sudo, fsVars, procVars>>

TypeOK ==
  /\ clock \in Seconds /\ sudo \in [Procs -> BOOLEAN]
  /\ root \in Owners \cup {Absent, "open"}
  /\ folder \in [Dirs -> Folders \cup {Absent}]
  /\ file \in [Names -> Files \cup {Absent}]
  /\ temps \subseteq [by: Procs, dir: Dirs, whole: BOOLEAN]
  /\ pc \in [Procs -> {"start", "mkdir", "assess", "write", "writing", "written", "done", "killed"}]
  /\ stamp \in [Procs -> Seconds \cup {Absent}] /\ into \in [Procs -> Dirs \cup {Absent}]
  /\ doc \in [Procs -> Mains \cup {Absent}]
  /\ at \in [Procs -> 1 .. Len(Formats) + 1]
  /\ failed \in [Procs -> SUBSET FormatSet]
  /\ exit \in [Procs -> {0, 1, 2, Absent}]

Init ==
  /\ clock \in Seconds /\ sudo \in [Procs -> BOOLEAN]
  /\ root \in {Absent, "open"}
  /\ folder = [d \in Dirs |-> Absent]
  /\ file = [n \in Names |-> Absent]
  /\ temps = {}
  /\ pc = [p \in Procs |-> "start"]
  /\ stamp = [p \in Procs |-> Absent] /\ into = [p \in Procs |-> Absent]
  /\ doc = [p \in Procs |-> Absent]
  /\ at = [p \in Procs |-> 1]
  /\ failed = [p \in Procs |-> {}]
  /\ exit = [p \in Procs |-> Absent]

(* Time passes, or the clock is set back, by hand or for winter time.      *)
Tick(s) == s # clock /\ clock' = s /\ UNCHANGED <<sudo, fsVars, procVars>>

-----------------------------------------------------------------------------
Owner(p) == IF sudo[p] THEN "root" ELSE "user"

(* Permission of p for what `owner' keeps to itself.                       *)
May(p, owner) == sudo[p] \/ owner = "user"

Goto(p, label) == pc' = [pc EXCEPT ![p] = label]

Quit(p, code) ==
  /\ Goto(p, "done") /\ exit' = [exit EXCEPT ![p] = code]
  /\ UNCHANGED <<clock, sudo, stamp, into, doc, at>>

(* main: the names are settled.                                            *)
Start(p) ==
  /\ p \in Mains /\ pc[p] = "start"
  /\ stamp' = [stamp EXCEPT ![p] = clock]
  /\ into' = [into EXCEPT ![p] = clock]
  /\ Goto(p, "mkdir")
  /\ UNCHANGED <<clock, sudo, fsVars, doc, at, failed, exit>>

(* main, under umask 077: missing parents are made 0700 as well.           *)
Mkdir(p) ==
  /\ p \in Mains /\ pc[p] = "mkdir"
  /\ May(p, root) \/ root \in {Absent, "open"}
  /\ root' = IF root = Absent THEN Owner(p) ELSE root
  /\ folder' = [folder EXCEPT ![into[p]] = [owner |-> Owner(p), maker |-> p]]
  /\ Goto(p, "assess")
  /\ UNCHANGED <<clock, sudo, file, temps, stamp, into, doc, at, failed, exit>>

(* Bug: exist_ok=True.                                                     *)
MakeFolderAnyway(p) == Mkdir(p)

MakeFolder(p) == pc[p] = "mkdir" /\ folder[into[p]] = Absent /\ Mkdir(p)

(* main: the folder exists or cannot be made, the log cannot be opened, or *)
(* the assessment raises.                                                  *)
AssessmentFails(p) ==
  /\ p \in Mains /\ pc[p] \in {"mkdir", "assess"}
  /\ Quit(p, 1) /\ UNCHANGED <<fsVars, failed>>

Assess(p) ==
  /\ p \in Mains /\ pc[p] = "assess"
  /\ doc' = [doc EXCEPT ![p] = p]
  /\ Goto(p, "write")
  /\ UNCHANGED <<clock, sudo, fsVars, stamp, into, at, failed, exit>>

(* report_from: an assessment is read back; its file name is the stem and  *)
(* its folder the default output.                                          *)
ReadBack(p, n) ==
  /\ p \in Regens /\ pc[p] = "start"
  /\ n[3] = "json" /\ file[n] # Absent /\ May(p, file[n].owner)
  /\ stamp' = [stamp EXCEPT ![p] = n[2]]
  /\ doc' = [doc EXCEPT ![p] = file[n].doc]
  /\ \E d \in {n[1], Elsewhere} : into' = [into EXCEPT ![p] = d]
  /\ Goto(p, "mkdir")
  /\ UNCHANGED <<clock, sudo, fsVars, at, failed, exit>>

(* generate_reports: mkdir(exist_ok=True) under the caller's own umask.    *)
EnsureFolder(p) ==
  /\ p \in Regens /\ pc[p] = "mkdir"
  /\ folder' = IF folder[into[p]] # Absent THEN folder
               ELSE [folder EXCEPT ![into[p]] = [owner |-> Owner(p), maker |-> p]]
  /\ Goto(p, "write")
  /\ UNCHANGED <<clock, sudo, root, file, temps, stamp, into, doc, at, failed, exit>>

(* report_from: nothing catches what is raised but main, or nobody.        *)
RegenerationFails(p) ==
  /\ p \in Regens /\ pc[p] \in {"start", "mkdir"}
  /\ \E code \in {1, 2} : Quit(p, code)
  /\ UNCHANGED <<fsVars, failed>>

-----------------------------------------------------------------------------
(* atomic_report_path around one writer.                                   *)
Target(p) == <<into[p], stamp[p], Formats[at[p]]>>
TempsOf(p) == {t \in temps : t.by = p}
Advance(p) == at' = [at EXCEPT ![p] = at[p] + 1] /\ Goto(p, "write")

(* Bug: the report is opened under its final name and written there.       *)
OpenInPlace(p) ==
  /\ pc[p] = "write" /\ at[p] <= Len(Formats) /\ May(p, folder[into[p]].owner)
  /\ file' = [file EXCEPT ![Target(p)] = [doc |-> doc[p], whole |-> FALSE, owner |-> Owner(p)]]
  /\ temps' = temps \cup {[by |-> p, dir |-> into[p], whole |-> FALSE]}
  /\ Goto(p, "writing")
  /\ UNCHANGED <<clock, sudo, root, folder, stamp, into, doc, at, failed, exit>>

OpenTemp(p) ==
  /\ pc[p] = "write" /\ at[p] <= Len(Formats) /\ May(p, folder[into[p]].owner)
  /\ temps' = temps \cup {[by |-> p, dir |-> into[p], whole |-> FALSE]}
  /\ Goto(p, "writing")
  /\ UNCHANGED <<clock, sudo, root, folder, file, stamp, into, doc, at, failed, exit>>

Write(p) ==
  /\ pc[p] = "writing"
  /\ temps' = (temps \ TempsOf(p)) \cup {[by |-> p, dir |-> into[p], whole |-> TRUE]}
  /\ Goto(p, "written")
  /\ UNCHANGED <<clock, sudo, root, folder, file, stamp, into, doc, at, failed, exit>>

PublishTemp(p) ==
  /\ \E t \in TempsOf(p) :
       file' = [file EXCEPT ![Target(p)] = [doc |-> doc[p], whole |-> t.whole, owner |-> Owner(p)]]
  /\ temps' = temps \ TempsOf(p)
  /\ Advance(p)
  /\ UNCHANGED <<clock, sudo, root, folder, stamp, into, doc, failed, exit>>

(* Bug: the file is moved into place before the writer closed it.          *)
PublishUnwritten(p) == pc[p] \in {"writing", "written"} /\ PublishTemp(p)

(* chmod 0600 and rename.                                                  *)
Publish(p) == pc[p] = "written" /\ PublishTemp(p)

(* main keeps the other formats, report_from gives up.                     *)
Abandon(p) ==
  IF p \in Mains
  THEN /\ failed' = [failed EXCEPT ![p] = @ \cup {Formats[at[p]]}]
       /\ Advance(p)
       /\ UNCHANGED <<clock, sudo, stamp, into, doc, exit>>
  ELSE (\E code \in {1, 2} : Quit(p, code)) /\ UNCHANGED failed

Writing(p) == pc[p] \in {"write", "writing", "written"} /\ at[p] <= Len(Formats)

(* Bug: the temporary file is not removed.                                 *)
FormatFailsLeaves(p) == Writing(p) /\ Abandon(p) /\ UNCHANGED fsVars

(* Bug: the handler advances to the next format, and so does the loop.     *)
FormatFailsTwice(p) ==
  /\ Writing(p) /\ p \in Mains
  /\ temps' = temps \ TempsOf(p)
  /\ failed' = [failed EXCEPT ![p] = @ \cup {Formats[at[p]]}]
  /\ at' = [at EXCEPT ![p] = @ + 2] /\ Goto(p, "write")
  /\ UNCHANGED <<clock, sudo, root, folder, file, stamp, into, doc, exit>>

FormatFails(p) ==
  /\ Writing(p) /\ Abandon(p)
  /\ temps' = temps \ TempsOf(p)
  /\ UNCHANGED <<root, folder, file>>

-----------------------------------------------------------------------------
Written(p) == FormatSet \ failed[p]

(* _chown_to_invoker: the folder and the reports written, when under sudo. *)
HandOver(p) ==
  IF sudo[p]
  THEN /\ folder' = [folder EXCEPT ![into[p]].owner = "user"]
       /\ file' = [n \in Names |->
                    IF n[1] = into[p] /\ n[2] = stamp[p] /\ n[3] \in Written(p) /\ file[n] # Absent
                    THEN [file[n] EXCEPT !.owner = "user"] ELSE file[n]]
  ELSE UNCHANGED <<folder, file>>

(* Bug: the exit code forgets the failed formats.                          *)
FinishAlwaysZero(p) ==
  /\ p \in Mains /\ pc[p] = "write" /\ at[p] = Len(Formats) + 1
  /\ HandOver(p) /\ Quit(p, 0)
  /\ UNCHANGED <<root, temps, failed>>

Finish(p) ==
  /\ p \in Mains /\ pc[p] = "write" /\ at[p] = Len(Formats) + 1
  /\ HandOver(p)
  /\ Quit(p, IF Written(p) = {} THEN 1 ELSE 0)
  /\ UNCHANGED <<root, temps, failed>>

FinishRegeneration(p) ==
  /\ p \in Regens /\ pc[p] = "write" /\ at[p] = Len(Formats) + 1
  /\ Quit(p, 0) /\ UNCHANGED <<fsVars, failed>>

(* The process dies, of SIGKILL or Ctrl-C, which no handler here catches.   *)
(* The system lives on: a report is not synced before its rename, so what  *)
(* a power cut leaves behind is not modelled.                              *)
Killed(p) ==
  /\ pc[p] \notin {"start", "done", "killed"}
  /\ Goto(p, "killed")
  /\ UNCHANGED <<clock, sudo, fsVars, stamp, into, doc, at, failed, exit>>

Next ==
  \/ \E s \in Seconds : Tick(s)
  \/ \E p \in Procs :
       \/ Start(p) \/ MakeFolder(p) \/ AssessmentFails(p) \/ Assess(p)
       \/ \E n \in Names : ReadBack(p, n)
       \/ EnsureFolder(p) \/ RegenerationFails(p)
       \/ OpenTemp(p) \/ Write(p) \/ Publish(p) \/ FormatFails(p)
       \/ Finish(p) \/ FinishRegeneration(p) \/ Killed(p)

Spec == Init /\ [][Next]_vars
-----------------------------------------------------------------------------
(* Whatever fails and whichever process is killed when, a report under its *)
(* final name is complete (reporting/common.py:41-54).                     *)
PublishedIsWhole == \A n \in Names : file[n] # Absent => file[n].whole

(* The reports of a folder, and those regenerated from them, are of one    *)
(* assessment, the one that made the folder: runs that read the same       *)
(* second never share it (cli.py:243-250, 143-150).                        *)
OneRunPerFolder ==
  \A n \in Names : file[n] # Absent =>
    folder[n[2]] # Absent /\ file[n].doc = folder[n[2]].maker

(* A temporary file is there only while its process writes, or because it  *)
(* was killed over it (reporting/common.py:52-54).                         *)
TempsHaveWriters ==
  \A t \in temps : pc[t.by] \in {"writing", "written", "killed"}

(* The reports of a process's own assessment under the names it writes.    *)
Mine(p) ==
  {f \in FormatSet : /\ stamp[p] # Absent
                     /\ file[<<into[p], stamp[p], f>>] # Absent
                     /\ file[<<into[p], stamp[p], f>>].doc = doc[p]}

(* Exit code 0 promises reports, every other one that an assessment has    *)
(* none (cli.py:286-305, 143-150).                                         *)
ExitMatchesReports ==
  \A p \in Procs :
    /\ p \in Mains /\ exit[p] = 0 => Mine(p) # {} /\ Written(p) \subseteq Mine(p)
    /\ p \in Mains /\ exit[p] = 1 => doc[p] = Absent \/ Mine(p) = {}
    /\ p \in Regens /\ exit[p] = 0 => Mine(p) = FormatSet

(* A published report stays: no step, of whichever process, removes it,    *)
(* leaves it half-written or puts another assessment in its place, not     *)
(* even a --report-from that rewrites its own source (cli.py:143-150).     *)
ReportsAreKept ==
  [][\A n \in Names : file[n] # Absent =>
       file'[n] # Absent /\ file'[n].doc = file[n].doc /\ (file[n].whole => file'[n].whole)]_vars

=============================================================================
