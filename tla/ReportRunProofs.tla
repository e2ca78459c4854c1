-------------------------- MODULE ReportRunProofs ---------------------------
(* What holds of the reports on disk for any number of processes, seconds  *)
(* and formats, whatever fails or is killed.                               *)
EXTENDS ReportRun, TLAPS

-----------------------------------------------------------------------------
(* Every variable keeps its type.                                          *)
Temps == [by: Procs, dir: Dirs, whole: BOOLEAN]
Labels == {"start", "mkdir", "assess", "write", "writing", "written", "done", "killed"}

LEMMA QuitFacts ==
  ASSUME TypeOK, NEW p \in Procs, NEW code \in {0, 1, 2}, Quit(p, code)
  PROVE  /\ clock' \in Seconds /\ sudo' \in [Procs -> BOOLEAN]
         /\ pc' \in [Procs -> Labels]
         /\ stamp' \in [Procs -> Seconds \cup {Absent}] /\ into' \in [Procs -> Dirs \cup {Absent}]
         /\ doc' \in [Procs -> Mains \cup {Absent}]
         /\ at' \in [Procs -> 1 .. Len(Formats) + 1]
         /\ exit' \in [Procs -> {0, 1, 2, Absent}]
BY DEF Quit, Goto, TypeOK, Labels

LEMMA TargetIsName ==
  ASSUME TypeOK, NEW p \in Procs, at[p] <= Len(Formats),
         stamp[p] # Absent, into[p] # Absent
  PROVE  Target(p) \in Names
<1>1. at[p] \in 1 .. Len(Formats)
  BY ReportRunAssumption DEF TypeOK
<1> QED
  BY <1>1, ReportRunAssumption DEF Target, Names, TypeOK, FormatSet

LEMMA HandOverFacts ==
  ASSUME TypeOK, NEW p \in Procs, into[p] # Absent, folder[into[p]] # Absent, HandOver(p)
  PROVE  /\ folder' \in [Dirs -> Folders \cup {Absent}]
         /\ file' \in [Names -> Files \cup {Absent}]
         /\ \A d \in Dirs : folder[d] # Absent =>
              folder'[d] # Absent /\ folder'[d].maker = folder[d].maker
         /\ \A n \in Names :
              /\ file'[n] = Absent <=> file[n] = Absent
              /\ file[n] # Absent => file'[n].doc = file[n].doc /\ file'[n].whole = file[n].whole
<1>0. /\ into[p] \in Dirs /\ folder \in [Dirs -> Folders \cup {Absent}]
      /\ file \in [Names -> Files \cup {Absent}] /\ sudo[p] \in BOOLEAN
  BY DEF TypeOK
<1>a. Absent \notin Folders /\ Absent \notin Files
  BY ReportRunAssumption
<1>1. CASE ~sudo[p]
  BY <1>0, <1>1 DEF HandOver
<1>2. CASE sudo[p]
  <2>1. /\ folder' = [folder EXCEPT ![into[p]] = [folder[into[p]] EXCEPT !.owner = "user"]]
        /\ file' = [n \in Names |->
                    IF n[1] = into[p] /\ n[2] = stamp[p] /\ n[3] \in Written(p) /\ file[n] # Absent
                    THEN [file[n] EXCEPT !.owner = "user"] ELSE file[n]]
    BY <1>2 DEF HandOver
  <2>2. folder[into[p]] \in Folders
    BY <1>0
  <2>3. \A n \in Names : file[n] # Absent => file[n] \in Files
    BY <1>0
  <2>4. /\ [folder[into[p]] EXCEPT !.owner = "user"] \in Folders
        /\ [folder[into[p]] EXCEPT !.owner = "user"].maker = folder[into[p]].maker
    BY <2>2 DEF Folders, Owners
  <2>5. \A n \in Names : file[n] # Absent =>
          /\ [file[n] EXCEPT !.owner = "user"] \in Files
          /\ [file[n] EXCEPT !.owner = "user"].doc = file[n].doc
          /\ [file[n] EXCEPT !.owner = "user"].whole = file[n].whole
    BY <2>3 DEF Files, Owners
  <2>6. /\ folder' \in [Dirs -> Folders \cup {Absent}]
        /\ \A d \in Dirs : folder[d] # Absent =>
             folder'[d] # Absent /\ folder'[d].maker = folder[d].maker
    BY <1>0, <1>a, <2>1, <2>4
  <2>7. \A n \in Names : file'[n] = IF n[1] = into[p] /\ n[2] = stamp[p] /\ n[3] \in Written(p) /\ file[n] # Absent
                                  THEN [file[n] EXCEPT !.owner = "user"] ELSE file[n]
    BY <2>1
  <2>8. ASSUME NEW n \in Names
        PROVE  /\ file'[n] = Absent <=> file[n] = Absent
               /\ file[n] # Absent => file'[n].doc = file[n].doc /\ file'[n].whole = file[n].whole
               /\ file'[n] \in Files \cup {Absent}
    <3>1. CASE file'[n] = file[n]
      BY <1>0, <3>1
    <3>2. CASE file[n] # Absent /\ file'[n] = [file[n] EXCEPT !.owner = "user"]
      <4>1. /\ file'[n] \in Files
            /\ file'[n].doc = file[n].doc /\ file'[n].whole = file[n].whole
        BY <2>5, <3>2
      <4> QED
        BY <1>a, <3>2, <4>1
    <3> QED
      BY <2>7, <3>1, <3>2
  <2>9. file' \in [Names -> Files \cup {Absent}]
    BY <2>1, <2>8
  <2> QED
    BY <2>6, <2>8, <2>9
<1> QED
  BY <1>0, <1>1, <1>2


-----------------------------------------------------------------------------
(* The steps of one process.                                               *)
Act(p) ==
  \/ Start(p) \/ MakeFolder(p) \/ AssessmentFails(p) \/ Assess(p)
  \/ \E n \in Names : ReadBack(p, n)
  \/ EnsureFolder(p) \/ RegenerationFails(p)
  \/ OpenTemp(p) \/ Write(p) \/ Publish(p) \/ FormatFails(p)
  \/ Finish(p) \/ FinishRegeneration(p) \/ Killed(p)

LEMMA StepIsAct ==
  ASSUME [Next]_vars
  PROVE  \/ \E p \in Procs : Act(p)
         \/ UNCHANGED <<sudo, fsVars, procVars>> /\ (clock' \in Seconds \/ clock' = clock)
BY DEF Next, Act, Tick, vars

Busy == {"write", "writing", "written"}
Named == {"mkdir", "assess"} \cup Busy

(* What a process relies on: its names are settled, its folder is there,   *)
(* and what it writes is the assessment of the run that made the folder    *)
(* its names come from.                                                    *)
HasReport(p) ==
  stamp[p] \in Seconds /\ folder[stamp[p]] # Absent /\ doc[p] = folder[stamp[p]].maker /\ doc[p] \in Mains

Sound(p) ==
  /\ pc[p] \in Named => stamp[p] \in Seconds /\ into[p] \in Dirs
  /\ pc[p] \in Named /\ p \in Mains => into[p] = stamp[p]
  /\ pc[p] \in {"assess"} \cup Busy => folder[into[p]] # Absent
  /\ pc[p] = "assess" => p \in Mains /\ folder[stamp[p]].maker = p
  /\ pc[p] = "mkdir" /\ p \in Regens => HasReport(p)
  /\ pc[p] \in Busy => HasReport(p)
  /\ pc[p] \in {"writing", "written"} => at[p] <= Len(Formats)
  /\ pc[p] = "written" => \A t \in temps : t.by = p => t.whole

AllSound == \A p \in Procs : Sound(p)

LEMMA TypeStep ==
  ASSUME TypeOK, AllSound, NEW p \in Procs, Act(p)
  PROVE  TypeOK'
<1> USE DEF AllSound
<1>0. /\ Len(Formats) \in Nat /\ \A i \in 1 .. Len(Formats) : Formats[i] \in FormatSet
      /\ Mains \subseteq Procs /\ Regens \subseteq Procs
      /\ Seconds \subseteq Dirs
  BY ReportRunAssumption DEF FormatSet, Procs, Dirs
<1>1. CASE Start(p)
  BY <1>0, <1>1 DEF Start, TypeOK, Goto, fsVars
<1>2. CASE MakeFolder(p)
  <2>1. Owner(p) \in Owners
    BY DEF Owner, Owners
  <2>2. [owner |-> Owner(p), maker |-> p] \in Folders
    BY <2>1 DEF Folders
  <2> QED
    BY <1>2, <2>1, <2>2 DEF MakeFolder, Mkdir, TypeOK, Goto
<1>3. CASE AssessmentFails(p)
  BY <1>3, QuitFacts DEF AssessmentFails, TypeOK, fsVars, Labels
<1>4. CASE Assess(p)
  BY <1>4 DEF Assess, TypeOK, Goto, fsVars
<1>5. CASE \E n \in Names : ReadBack(p, n)
  <2>1. PICK n \in Names : ReadBack(p, n)
    BY <1>5
  <2>2. n[1] \in Dirs /\ n[2] \in Seconds /\ file[n] \in Files
    BY <2>1 DEF ReadBack, Names, TypeOK
  <2>3. file[n].doc \in Mains
    BY <2>2 DEF Files
  <2> QED
    BY <2>1, <2>2, <2>3 DEF ReadBack, TypeOK, Goto, fsVars, Dirs
<1>6. CASE EnsureFolder(p)
  <2>1. [owner |-> Owner(p), maker |-> p] \in Folders
    BY DEF Owner, Owners, Folders
  <2> QED
    BY <1>6, <2>1 DEF EnsureFolder, TypeOK, Goto
<1>7. CASE RegenerationFails(p)
  BY <1>7, QuitFacts DEF RegenerationFails, TypeOK, fsVars, Labels
<1>8. CASE OpenTemp(p)
  <2>1. [by |-> p, dir |-> into[p], whole |-> FALSE] \in Temps
    BY <1>8 DEF OpenTemp, Sound, Named, Busy, Temps
  <2> QED
    BY <1>8, <2>1 DEF OpenTemp, TypeOK, Goto, Temps
<1>9. CASE Write(p)
  <2>1. [by |-> p, dir |-> into[p], whole |-> TRUE] \in Temps
    BY <1>9 DEF Write, Sound, Named, Busy, Temps
  <2> QED
    BY <1>9, <2>1 DEF Write, TypeOK, Goto, Temps, TempsOf
<1>10. CASE Publish(p)
  <2>1. PICK t \in TempsOf(p) :
          file' = [file EXCEPT ![Target(p)] = [doc |-> doc[p], whole |-> t.whole, owner |-> Owner(p)]]
    BY <1>10 DEF Publish, PublishTemp
  <2>2. doc[p] \in Mains /\ t.whole \in BOOLEAN /\ Owner(p) \in Owners /\ at[p] <= Len(Formats)
    BY <1>10, <2>1 DEF Publish, Sound, HasReport, Busy, TempsOf, TypeOK, Owner, Owners
  <2>3. [doc |-> doc[p], whole |-> t.whole, owner |-> Owner(p)] \in Files
    BY <2>2 DEF Files
  <2>4. at[p] + 1 \in 1 .. Len(Formats) + 1
    BY <1>0, <2>2 DEF TypeOK
  <2>5. file' \in [Names -> Files \cup {Absent}]
    BY <2>1, <2>3 DEF TypeOK
  <2> QED
    BY <1>10, <2>4, <2>5 DEF Publish, PublishTemp, TypeOK, Goto, Advance
<1>11. CASE FormatFails(p)
  <2>1. temps' \subseteq temps /\ root' = root /\ folder' = folder /\ file' = file
    BY <1>11 DEF FormatFails, TempsOf
  <2>2. CASE p \in Mains
    <3>1. /\ Formats[at[p]] \in FormatSet /\ at[p] + 1 \in 1 .. Len(Formats) + 1
      BY <1>0, <1>11 DEF FormatFails, Writing, TypeOK
    <3>2. /\ failed' = [failed EXCEPT ![p] = @ \cup {Formats[at[p]]}]
          /\ at' = [at EXCEPT ![p] = at[p] + 1] /\ pc' = [pc EXCEPT ![p] = "write"]
          /\ UNCHANGED <<clock, sudo, stamp, into, doc, exit>>
      BY <1>11, <2>2 DEF FormatFails, Abandon, Advance, Goto
    <3> QED
      BY <2>1, <3>1, <3>2 DEF TypeOK
  <2>3. CASE p \notin Mains
    <3>1. failed' = failed /\ \E code \in {1, 2} : Quit(p, code)
      BY <1>11, <2>3 DEF FormatFails, Abandon
    <3> QED
      BY <2>1, <3>1, QuitFacts DEF TypeOK, Labels
  <2> QED
    BY <2>2, <2>3
<1>12. CASE Finish(p)
  <2>1. into[p] # Absent /\ folder[into[p]] # Absent
    BY <1>12, ReportRunAssumption DEF Finish, Sound, Named, Busy, Dirs
  <2>2. /\ folder' \in [Dirs -> Folders \cup {Absent}]
        /\ file' \in [Names -> Files \cup {Absent}]
    BY <1>12, <2>1, HandOverFacts DEF Finish
  <2>3. PICK code \in {0, 1} : Quit(p, code)
    BY <1>12 DEF Finish
  <2> QED
    BY <1>12, <2>2, <2>3, QuitFacts DEF Finish, TypeOK, Labels
<1>13. CASE FinishRegeneration(p)
  BY <1>13, QuitFacts DEF FinishRegeneration, TypeOK, fsVars, Labels
<1>14. CASE Killed(p)
  BY <1>14 DEF Killed, TypeOK, Goto, fsVars
<1> QED
  BY <1>1, <1>2, <1>3, <1>4, <1>5, <1>6, <1>7, <1>8, <1>9, <1>10, <1>11, <1>12, <1>13, <1>14 DEF Act

-----------------------------------------------------------------------------
(* What a step does to others: a folder that is there stays its maker's,   *)
(* a report keeps its content or is replaced by the step's own complete    *)
(* one, and what another process is at does not change.                    *)
LEMMA FoldersStay ==
  ASSUME TypeOK, AllSound, NEW p \in Procs, Act(p), NEW d \in Dirs, folder[d] # Absent
  PROVE  folder'[d] # Absent /\ folder'[d].maker = folder[d].maker
<1>0. folder \in [Dirs -> Folders \cup {Absent}] /\ Sound(p)
  BY DEF TypeOK, AllSound
<1>1. CASE MakeFolder(p)
  BY <1>0, <1>1 DEF MakeFolder, Mkdir
<1>2. CASE EnsureFolder(p)
  BY <1>0, <1>2 DEF EnsureFolder
<1>3. CASE Finish(p)
  <2>1. into[p] # Absent /\ folder[into[p]] # Absent
    BY <1>0, <1>3, ReportRunAssumption DEF Finish, Sound, Named, Busy, Dirs
  <2> QED
    BY <1>3, <2>1, HandOverFacts DEF Finish
<1>4. CASE UNCHANGED folder
  BY <1>4
<1> QED
  BY <1>1, <1>2, <1>3, <1>4 DEF Act, Start, AssessmentFails, Assess, ReadBack, RegenerationFails,
     OpenTemp, Write, Publish, PublishTemp, FormatFails, FinishRegeneration, Killed, fsVars

LEMMA FilesStep ==
  ASSUME TypeOK, AllSound, NEW p \in Procs, Act(p), NEW n \in Names
  PROVE  /\ file[n] # Absent => file'[n] # Absent
         /\ file'[n] # Absent =>
              \/ /\ file[n] # Absent
                 /\ file'[n].doc = file[n].doc /\ file'[n].whole = file[n].whole
              \/ /\ n[2] \in Seconds /\ folder[n[2]] # Absent
                 /\ file'[n].doc = folder[n[2]].maker /\ file'[n].whole
<1>0. file \in [Names -> Files \cup {Absent}] /\ Sound(p)
  BY DEF TypeOK, AllSound
<1>1. CASE Finish(p)
  <2>1. into[p] # Absent /\ folder[into[p]] # Absent
    BY <1>0, <1>1, ReportRunAssumption DEF Finish, Sound, Named, Busy, Dirs
  <2> QED
    BY <1>1, <2>1, HandOverFacts DEF Finish
<1>2. CASE Publish(p)
  <2>1. PICK t \in TempsOf(p) :
          file' = [file EXCEPT ![Target(p)] = [doc |-> doc[p], whole |-> t.whole, owner |-> Owner(p)]]
    BY <1>2 DEF Publish, PublishTemp
  <2>2. t.whole /\ HasReport(p)
    BY <1>0, <1>2, <2>1 DEF Publish, Sound, Busy, TempsOf
  <2>3. [doc |-> doc[p], whole |-> t.whole, owner |-> Owner(p)] \in Files
    BY <2>2 DEF Files, HasReport, Owner, Owners
  <2>4. CASE n = Target(p)
    <3>1. file'[n] = [doc |-> doc[p], whole |-> t.whole, owner |-> Owner(p)]
      BY <1>0, <2>1, <2>4
    <3>2. file'[n].doc = doc[p] /\ file'[n].whole = t.whole /\ file'[n] # Absent
      BY <2>3, <3>1, ReportRunAssumption
    <3>3. n[2] = stamp[p]
      BY <2>4 DEF Target
    <3> QED
      BY <2>2, <3>2, <3>3 DEF HasReport
  <2>5. CASE n # Target(p)
    BY <1>0, <2>1, <2>5
  <2> QED
    BY <2>4, <2>5
<1>3. CASE UNCHANGED file
  BY <1>3
<1> QED
  BY <1>1, <1>2, <1>3 DEF Act, Start, MakeFolder, Mkdir, AssessmentFails, Assess, ReadBack,
     EnsureFolder, RegenerationFails, OpenTemp, Write, FormatFails, FinishRegeneration, Killed, fsVars

LEMMA OthersStay ==
  ASSUME TypeOK, NEW p \in Procs, Act(p), NEW q \in Procs, q # p
  PROVE  /\ pc'[q] = pc[q] /\ stamp'[q] = stamp[q] /\ into'[q] = into[q]
         /\ doc'[q] = doc[q] /\ at'[q] = at[q]
         /\ \A t \in temps' : t.by = q => t \in temps
<1>1. /\ stamp'[q] = stamp[q] /\ into'[q] = into[q]
      /\ doc'[q] = doc[q] /\ at'[q] = at[q]
  BY DEF Act, Start, MakeFolder, Mkdir, AssessmentFails, Assess, ReadBack, EnsureFolder,
     RegenerationFails, OpenTemp, Write, Publish, PublishTemp, FormatFails, Abandon, Finish,
     FinishRegeneration, Killed, Quit, Goto, Advance, TypeOK
<1>2. pc'[q] = pc[q]
  BY DEF Act, Start, MakeFolder, Mkdir, AssessmentFails, Assess, ReadBack, EnsureFolder,
     RegenerationFails, OpenTemp, Write, Publish, PublishTemp, FormatFails, Abandon, Finish,
     FinishRegeneration, Killed, Quit, Goto, Advance, TypeOK
<1>3. \A t \in temps' : t.by = q => t \in temps
  BY DEF Act, Start, MakeFolder, Mkdir, AssessmentFails, Assess, ReadBack, EnsureFolder,
     RegenerationFails, OpenTemp, Write, Publish, PublishTemp, FormatFails, Finish,
     FinishRegeneration, Killed, fsVars
<1> QED
  BY <1>1, <1>2, <1>3

-----------------------------------------------------------------------------
(* A process keeps what it relies on, through its own steps and through    *)
(* those of the others.                                                    *)
LEMMA SoundStep ==
  ASSUME TypeOK, AllSound, OneRunPerFolder, NEW p \in Procs, Act(p)
  PROVE  AllSound'
<1> SUFFICES ASSUME NEW q \in Procs PROVE Sound(q)'
  BY DEF AllSound
<1>0. /\ Sound(p) /\ Sound(q) /\ Seconds \subseteq Dirs /\ Absent \notin Dirs
      /\ folder \in [Dirs -> Folders \cup {Absent}]
  BY ReportRunAssumption DEF AllSound, Dirs, TypeOK
<1>f. \A d \in Dirs : folder[d] # Absent => folder'[d] # Absent /\ folder'[d].maker = folder[d].maker
  BY FoldersStay
<1>1. CASE q # p
  <2>1. /\ pc'[q] = pc[q] /\ stamp'[q] = stamp[q] /\ into'[q] = into[q]
        /\ doc'[q] = doc[q] /\ at'[q] = at[q]
        /\ \A t \in temps' : t.by = q => t \in temps
    BY <1>1, OthersStay
  <2>2. HasReport(q) => HasReport(q)'
    BY <1>0, <1>f, <2>1 DEF HasReport
  <2> QED
    BY <1>0, <1>f, <2>1, <2>2 DEF Sound, Named, Busy
<1>2. CASE q = p
  <2>0. /\ pc \in [Procs -> Labels] /\ stamp \in [Procs -> Seconds \cup {Absent}]
        /\ into \in [Procs -> Dirs \cup {Absent}] /\ doc \in [Procs -> Mains \cup {Absent}]
        /\ clock \in Seconds /\ Mains \subseteq Procs /\ Mains \cap Regens = {}
    BY ReportRunAssumption DEF TypeOK, Labels, Procs
  <2>1. CASE Start(p)
    BY <1>0, <1>2, <2>0, <2>1 DEF Start, Sound, Goto, Named, Busy, fsVars
  <2>2. CASE MakeFolder(p)
    <3>1. [owner |-> Owner(p), maker |-> p] \in Folders
      BY DEF Owner, Owners, Folders
    <3>2. folder'[into[p]] # Absent /\ folder'[into[p]].maker = p /\ into[p] = stamp[p]
      BY <1>0, <2>0, <2>2, <3>1, ReportRunAssumption DEF MakeFolder, Mkdir, Sound, Named, Busy
    <3> QED
      BY <1>0, <1>2, <2>0, <2>2, <3>2 DEF MakeFolder, Mkdir, Sound, Goto, Named, Busy
  <2>3. CASE /\ pc'[p] \in {"done", "killed"}
    BY <1>2, <2>3 DEF Sound, Named, Busy
  <2>4. CASE Assess(p)
    <3>1. /\ p \in Mains /\ pc'[p] = "write" /\ doc'[p] = p /\ stamp'[p] = stamp[p] /\ into'[p] = into[p]
          /\ folder' = folder
      BY <2>0, <2>4 DEF Assess, Goto, fsVars
    <3>2. HasReport(p)'
      BY <1>0, <2>4, <3>1 DEF Assess, HasReport, Sound, Named, Busy
    <3> QED
      BY <1>0, <1>2, <2>4, <3>1, <3>2 DEF Assess, Sound, Named, Busy
  <2>5. CASE \E n \in Names : ReadBack(p, n)
    <3>1. PICK n \in Names : ReadBack(p, n)
      BY <2>5
    <3>2. /\ n[2] \in Seconds /\ n[1] \in Dirs /\ Elsewhere \in Dirs
          /\ folder[n[2]] # Absent /\ file[n].doc = folder[n[2]].maker
      BY <3>1 DEF ReadBack, OneRunPerFolder, Names, Dirs
    <3>3. file[n] \in Files
      BY <3>1 DEF ReadBack, TypeOK
    <3>4. file[n].doc \in Mains
      BY <3>3 DEF Files
    <3>5. /\ p \in Regens /\ pc'[p] = "mkdir" /\ stamp'[p] = n[2] /\ doc'[p] = file[n].doc
          /\ into'[p] \in {n[1], Elsewhere} /\ folder' = folder
      BY <2>0, <3>1 DEF ReadBack, Goto, fsVars
    <3>6. HasReport(p)'
      BY <3>2, <3>4, <3>5 DEF HasReport
    <3> QED
      BY <1>2, <2>0, <3>2, <3>5, <3>6 DEF Sound, Named, Busy
  <2>6. CASE EnsureFolder(p)
    <3>1. /\ p \in Regens /\ pc[p] = "mkdir" /\ pc'[p] = "write"
          /\ stamp'[p] = stamp[p] /\ into'[p] = into[p] /\ doc'[p] = doc[p]
      BY <2>0, <2>6 DEF EnsureFolder, Goto
    <3>2. HasReport(p)' /\ into[p] \in Dirs
      BY <1>0, <1>f, <3>1 DEF Sound, HasReport, Named
    <3>3. [owner |-> Owner(p), maker |-> p] \in Folders
      BY DEF Owner, Owners, Folders
    <3>4. folder'[into[p]] # Absent
      BY <1>0, <2>6, <3>2, <3>3, ReportRunAssumption DEF EnsureFolder
    <3> QED
      BY <1>0, <1>2, <2>0, <3>1, <3>2, <3>4 DEF Sound, Named, Busy
  <2>7. CASE /\ pc[p] \in Busy /\ pc'[p] \in Busy /\ folder' = folder
            /\ stamp' = stamp /\ into' = into /\ doc' = doc
            /\ (pc'[p] \in {"writing", "written"} => at'[p] <= Len(Formats))
            /\ (pc'[p] = "written" => \A t \in temps' : t.by = p => t.whole)
    <3>1. /\ pc[p] \in Busy /\ pc'[p] \in Busy /\ folder' = folder
          /\ stamp' = stamp /\ into' = into /\ doc' = doc
      BY <2>7
    <3>2. HasReport(p) /\ HasReport(p)'
      BY <1>0, <3>1 DEF Sound, HasReport
    <3>3. stamp[p] \in Seconds /\ into[p] \in Dirs /\ folder[into[p]] # Absent
          /\ (p \in Mains => into[p] = stamp[p])
      BY <1>0, <3>1 DEF Sound, Named, Busy
    <3>4. pc'[p] \notin {"mkdir", "assess"}
      BY <3>1 DEF Busy
    <3> QED
      BY <1>2, <2>7, <3>1, <3>2, <3>3, <3>4 DEF Sound
  <2>8. CASE OpenTemp(p)
    BY <2>0, <2>7, <2>8 DEF OpenTemp, Goto, Busy
  <2>9. CASE Write(p)
    <3>1. at'[p] <= Len(Formats)
      BY <1>0, <2>9 DEF Write, Sound
    <3>2. \A t \in temps' : t.by = p => t.whole
      BY <2>9 DEF Write, TempsOf
    <3> QED
      BY <2>0, <2>7, <2>9, <3>1, <3>2 DEF Write, Goto, Busy
  <2>10. CASE Publish(p)
    BY <2>0, <2>7, <2>10 DEF Publish, PublishTemp, Advance, Goto, Busy
  <2>11. CASE FormatFails(p)
    <3>1. CASE p \in Mains
      BY <2>0, <2>7, <2>11, <3>1 DEF FormatFails, Writing, Abandon, Advance, Goto, Busy
    <3>2. CASE p \notin Mains
      BY <2>0, <2>3, <2>11, <3>2 DEF FormatFails, Abandon, Quit, Goto
    <3> QED
      BY <3>1, <3>2
  <2> QED
    BY <2>0, <2>1, <2>2, <2>3, <2>4, <2>5, <2>6, <2>8, <2>9, <2>10, <2>11
       DEF Act, AssessmentFails, RegenerationFails, Finish, FinishRegeneration, Killed, Quit, Goto
<1> QED
  BY <1>1, <1>2

LEMMA TempsStep ==
  ASSUME TypeOK, AllSound, TempsHaveWriters, NEW p \in Procs, Act(p)
  PROVE  TempsHaveWriters'
<1> SUFFICES ASSUME NEW t \in temps' PROVE pc'[t.by] \in {"writing", "written", "killed"}
  BY DEF TempsHaveWriters
<1>0. /\ pc \in [Procs -> Labels] /\ temps \subseteq Temps
      /\ \A u \in temps : pc[u.by] \in {"writing", "written", "killed"}
  BY DEF TypeOK, TempsHaveWriters, Labels, Temps
<1>1. TypeOK'
  BY TypeStep
<1>2. t.by \in Procs
  BY <1>1 DEF TypeOK
<1>3. CASE t.by # p
  BY <1>0, <1>2, <1>3, OthersStay
<1>4. CASE t.by = p
  <2>1. CASE pc'[p] \in {"writing", "written", "killed"}
    BY <1>4, <2>1
  <2>2. CASE OpenTemp(p) \/ Write(p) \/ Killed(p)
    BY <1>0, <2>1, <2>2 DEF OpenTemp, Write, Killed, Goto
  <2>3. CASE Publish(p) \/ FormatFails(p)
    BY <1>4, <2>3 DEF Publish, PublishTemp, FormatFails, TempsOf
  <2>4. CASE temps' = temps /\ pc[p] \notin {"writing", "written", "killed"}
    BY <1>0, <1>4, <2>4
  <2> QED
    BY <2>2, <2>3, <2>4 DEF Act, Start, MakeFolder, Mkdir, AssessmentFails, Assess, ReadBack,
       EnsureFolder, RegenerationFails, Finish, FinishRegeneration, fsVars
<1> QED
  BY <1>3, <1>4

-----------------------------------------------------------------------------
(* The inductive invariant.                                                *)
Inv ==
  /\ TypeOK /\ AllSound
  /\ PublishedIsWhole /\ OneRunPerFolder /\ TempsHaveWriters

LEMMA InitInv == Init => Inv
<1> SUFFICES ASSUME Init PROVE Inv
  OBVIOUS
<1>1. TypeOK
  <2>1. 1 \in 1 .. Len(Formats) + 1
    BY ReportRunAssumption
  <2>2. at \in [Procs -> 1 .. Len(Formats) + 1]
    BY <2>1 DEF Init
  <2> QED
    BY <2>2 DEF Init, TypeOK
<1>2. AllSound
  BY DEF Init, AllSound, Sound, Named, Busy
<1>3. PublishedIsWhole /\ OneRunPerFolder /\ TempsHaveWriters
  BY DEF Init, PublishedIsWhole, OneRunPerFolder, TempsHaveWriters
<1> QED
  BY <1>1, <1>2, <1>3 DEF Inv

LEMMA StepInv == Inv /\ [Next]_vars => Inv'
<1> SUFFICES ASSUME Inv, [Next]_vars PROVE Inv'
  OBVIOUS
<1>0. TypeOK /\ AllSound /\ PublishedIsWhole /\ OneRunPerFolder /\ TempsHaveWriters
  BY DEF Inv
<1>1. ASSUME NEW p \in Procs, Act(p) PROVE Inv'
  <2>1. TypeOK' /\ AllSound' /\ TempsHaveWriters'
    BY <1>0, <1>1, TypeStep, SoundStep, TempsStep
  <2>2. PublishedIsWhole'
    BY <1>0, <1>1, FilesStep DEF PublishedIsWhole
  <2>3. OneRunPerFolder'
    <3> SUFFICES ASSUME NEW n \in Names, file'[n] # Absent
                 PROVE  folder'[n[2]] # Absent /\ file'[n].doc = folder'[n[2]].maker
      BY DEF OneRunPerFolder
    <3>1. folder[n[2]] # Absent /\ file'[n].doc = folder[n[2]].maker
      BY <1>0, <1>1, FilesStep DEF OneRunPerFolder
    <3>2. n[2] \in Dirs
      BY DEF Names, Dirs
    <3> QED
      BY <1>0, <1>1, <3>1, <3>2, FoldersStay
  <2> QED
    BY <2>1, <2>2, <2>3 DEF Inv
<1>2. ASSUME UNCHANGED <<sudo, fsVars, procVars>>, clock' \in Seconds \/ clock' = clock
      PROVE  Inv'
  BY <1>0, <1>2 DEF Inv, TypeOK, AllSound, Sound, HasReport, PublishedIsWhole, OneRunPerFolder,
     TempsHaveWriters, fsVars, procVars
<1> QED
  BY <1>1, <1>2, StepIsAct

LEMMA Invariance == Spec => []Inv
BY InitInv, StepInv, PTL DEF Spec

(* Every variable keeps its type, whatever processes collide, fail or are  *)
(* killed over the output root (lsa/cli.py main and report_from).          *)
THEOREM TypeCorrect == Spec => []TypeOK
<1>1. Inv => TypeOK
  BY DEF Inv
<1> QED
  BY <1>1, Invariance, PTL

(* A report under its final name is complete, for any processes and        *)
(* formats: atomic_report_path renames only what a writer has closed.      *)
THEOREM PublishedIsWholeHolds == Spec => []PublishedIsWhole
<1>1. Inv => PublishedIsWhole
  BY DEF Inv
<1> QED
  BY <1>1, Invariance, PTL

(* A folder never mixes the assessments of two runs: mkdir without         *)
(* exist_ok decides between runs that read the same second, and a          *)
(* regeneration takes its names from the report it reads back.             *)
THEOREM OneRunPerFolderHolds == Spec => []OneRunPerFolder
<1>1. Inv => OneRunPerFolder
  BY DEF Inv
<1> QED
  BY <1>1, Invariance, PTL

(* Only a process at work, or one killed there, leaves a temporary file:   *)
(* atomic_report_path removes it on every exception.                       *)
THEOREM TempsHaveWritersHolds == Spec => []TempsHaveWriters
<1>1. Inv => TempsHaveWriters
  BY DEF Inv
<1> QED
  BY <1>1, Invariance, PTL

(* No step of any process loses a published report or changes what it      *)
(* reports: main never meets another run's names, and a regeneration       *)
(* overwrites a report only with the same assessment.                      *)
THEOREM ReportsAreKeptHolds == Spec => ReportsAreKept
<1> DEFINE Kept(n) == file[n] # Absent =>
      file'[n] # Absent /\ file'[n].doc = file[n].doc /\ (file[n].whole => file'[n].whole)
<1>1. ASSUME Inv, [Next]_vars PROVE \A n \in Names : Kept(n)
  <2>0. TypeOK /\ AllSound /\ OneRunPerFolder
    BY <1>1 DEF Inv
  <2>1. ASSUME NEW p \in Procs, Act(p), NEW n \in Names PROVE Kept(n)
    BY <2>0, <2>1, FilesStep DEF OneRunPerFolder
  <2>2. ASSUME UNCHANGED <<sudo, fsVars, procVars>>, NEW n \in Names PROVE Kept(n)
    BY <2>2 DEF fsVars
  <2> QED
    BY <1>1, <2>1, <2>2, StepIsAct
<1>2. Inv /\ [Next]_vars => [\A n \in Names : Kept(n)]_vars
  BY <1>1
<1> QED
  BY <1>2, Invariance, PTL DEF Spec, ReportsAreKept
-----------------------------------------------------------------------------
(* What a process has to show for itself: the formats behind it are on     *)
(* disk or on record as failed, and an exit code comes after all of them.  *)
Has(p, f) ==
  LET n == <<into[p], stamp[p], f>>
  IN  n \in Names /\ file[n] # Absent /\ file[n].doc = doc[p]
Behind(p) == {Formats[i] : i \in 1 .. at[p] - 1}

Early(p) ==
  /\ pc[p] \in {"start", "mkdir", "assess"} => at[p] = 1
  /\ stamp[p] # Absent => into[p] # Absent
  /\ p \in Mains => doc[p] \in {Absent, p}
  /\ p \in Mains /\ pc[p] \in {"start", "mkdir", "assess"} => doc[p] = Absent
Reported(p) ==
  /\ failed[p] \subseteq Behind(p)
  /\ p \in Regens => failed[p] = {}
  /\ \A f \in Behind(p) \ failed[p] : Has(p, f)
Exited(p) ==
  /\ exit[p] # Absent => pc[p] = "done"
  /\ exit[p] = 0 => at[p] = Len(Formats) + 1
  /\ exit[p] = 0 /\ p \in Mains => Written(p) # {}
  /\ exit[p] = 1 /\ p \in Mains => doc[p] = Absent \/ Written(p) = {}
AllAccounted == \A p \in Procs : Early(p) /\ Reported(p) /\ Exited(p)

(* Nothing on disk, and no regeneration, is of an assessment that has      *)
(* published nothing itself.                                               *)
Published(p) == Behind(p) \ failed[p] # {}
Seeded(p) ==
  /\ \A n \in Names : file[n] # Absent /\ file[n].doc = p => Published(p)
  /\ \A q \in Regens : doc[q] = p => Published(p)
AllSeeded == \A p \in Mains : Seeded(p)

LEMMA FilesKeep ==
  ASSUME TypeOK, AllSound, OneRunPerFolder, NEW p \in Procs, Act(p), NEW n \in Names, file[n] # Absent
  PROVE  file'[n] # Absent /\ file'[n].doc = file[n].doc
BY FilesStep DEF OneRunPerFolder

LEMMA OthersStayToo ==
  ASSUME TypeOK, NEW p \in Procs, Act(p), NEW q \in Procs, q # p
  PROVE  failed'[q] = failed[q] /\ exit'[q] = exit[q]
BY DEF Act, Start, MakeFolder, Mkdir, AssessmentFails, Assess, ReadBack, EnsureFolder,
   RegenerationFails, OpenTemp, Write, Publish, PublishTemp, FormatFails, Abandon, Finish,
   FinishRegeneration, Killed, Quit, Goto, Advance, TypeOK

(* The formats behind a process that comes to the next one.                *)
LEMMA BehindNext ==
  ASSUME TypeOK, NEW p \in Procs, at[p] <= Len(Formats), at'[p] = at[p] + 1
  PROVE  /\ Behind(p)' = Behind(p) \cup {Formats[at[p]]}
         /\ Formats[at[p]] \notin Behind(p) /\ Formats[at[p]] \in FormatSet
<1>1. at[p] \in 1 .. Len(Formats) /\ Len(Formats) \in Nat /\ DOMAIN Formats = 1 .. Len(Formats)
  BY ReportRunAssumption DEF TypeOK
<1>2. 1 .. at'[p] - 1 = (1 .. at[p] - 1) \cup {at[p]}
  BY <1>1
<1>3. Behind(p)' = Behind(p) \cup {Formats[at[p]]}
  BY <1>2 DEF Behind
<1>4. ASSUME NEW i \in 1 .. at[p] - 1 PROVE Formats[i] # Formats[at[p]]
  <2>1. i \in DOMAIN Formats /\ at[p] \in DOMAIN Formats /\ i # at[p]
    BY <1>1
  <2> QED
    BY <2>1, ReportRunAssumption
<1> QED
  BY <1>1, <1>3, <1>4 DEF Behind, FormatSet

LEMMA BehindAll ==
  ASSUME TypeOK, NEW p \in Procs, at[p] = Len(Formats) + 1
  PROVE  Behind(p) = FormatSet
<1>1. 1 .. at[p] - 1 = DOMAIN Formats
  BY ReportRunAssumption
<1> QED
  BY <1>1 DEF Behind, FormatSet

LEMMA BehindNone ==
  ASSUME NEW p, at[p] = 1
  PROVE  Behind(p) = {}
BY DEF Behind

LEMMA AccountStep ==
  ASSUME TypeOK, AllSound, OneRunPerFolder, AllAccounted, NEW p \in Procs, Act(p)
  PROVE  AllAccounted'
<1> SUFFICES ASSUME NEW q \in Procs PROVE (Early(q) /\ Reported(q) /\ Exited(q))'
  BY DEF AllAccounted
<1>0. Early(q) /\ Reported(q) /\ Exited(q) /\ Early(p) /\ Reported(p) /\ Exited(p) /\ Sound(p)
  BY DEF AllAccounted, AllSound
<1>k. ASSUME NEW r \in Procs, NEW f, Has(r, f), stamp'[r] = stamp[r], into'[r] = into[r], doc'[r] = doc[r]
      PROVE  Has(r, f)'
  BY <1>k, FilesKeep DEF Has
<1>1. CASE q # p
  <2>1. /\ pc'[q] = pc[q] /\ stamp'[q] = stamp[q] /\ into'[q] = into[q]
        /\ doc'[q] = doc[q] /\ at'[q] = at[q] /\ failed'[q] = failed[q] /\ exit'[q] = exit[q]
    BY <1>1, OthersStay, OthersStayToo
  <2>2. Behind(q)' = Behind(q) /\ Written(q)' = Written(q)
    BY <2>1 DEF Behind, Written
  <2>3. \A f : Has(q, f) => Has(q, f)'
    BY <1>k, <2>1
  <2> QED
    BY <1>0, <2>1, <2>2, <2>3 DEF Early, Reported, Exited
<1>2. CASE q = p
  <2>0. /\ pc \in [Procs -> Labels] /\ at \in [Procs -> 1 .. Len(Formats) + 1]
        /\ failed \in [Procs -> SUBSET FormatSet] /\ exit \in [Procs -> {0, 1, 2, Absent}]
        /\ stamp \in [Procs -> Seconds \cup {Absent}] /\ into \in [Procs -> Dirs \cup {Absent}]
        /\ doc \in [Procs -> Mains \cup {Absent}] /\ Len(Formats) \in Nat
        /\ Absent \notin {0, 1, 2} /\ Mains \cap Regens = {}
    BY ReportRunAssumption DEF TypeOK, Labels
  (* Before the first format there is nothing to show. *)
  <2>1. CASE /\ pc[p] \in {"start", "mkdir", "assess"} /\ at' = at /\ failed' = failed /\ exit' = exit
             /\ pc'[p] \in {"mkdir", "assess", "write", "killed"}
             /\ stamp'[p] # Absent => into'[p] # Absent
             /\ p \in Mains => doc'[p] = IF pc'[p] = "write" THEN p ELSE doc[p]
    <3>1. at[p] = 1 /\ at'[p] = 1 /\ exit[p] = Absent
      BY <1>0, <2>0, <2>1 DEF Early, Exited
    <3>2. Behind(p) = {} /\ Behind(p)' = {}
      BY <3>1 DEF Behind
    <3>3. failed'[p] = {}
      BY <1>0, <2>1, <3>2 DEF Reported
    <3>4. Early(p)'
      BY <1>0, <2>1, <3>1 DEF Early
    <3>5. Reported(p)'
      BY <3>2, <3>3 DEF Reported
    <3>6. Exited(p)'
      BY <2>0, <2>1, <3>1 DEF Exited
    <3> QED
      BY <1>2, <3>4, <3>5, <3>6
  (* Within a format, or killed there, nothing that counts changes. *)
  <2>2. CASE /\ pc[p] \in Busy /\ pc'[p] \in Busy \cup {"killed"}
             /\ UNCHANGED <<at, failed, exit, stamp, into, doc>>
    <3>1. Behind(p)' = Behind(p)
      BY <2>2 DEF Behind
    <3>2. \A f : Has(p, f) => Has(p, f)'
      BY <1>k, <2>2
    <3>3. exit[p] = Absent
      BY <1>0, <2>2 DEF Exited, Busy
    <3> QED
      BY <1>0, <1>2, <2>0, <2>2, <3>1, <3>2, <3>3 DEF Early, Reported, Exited, Busy
  <2>3. CASE /\ pc[p] \in Busy /\ pc'[p] = "write" /\ at[p] <= Len(Formats) /\ at'[p] = at[p] + 1
             /\ UNCHANGED <<exit, stamp, into, doc>>
             /\ \E f : /\ f = Formats[at[p]]
                       /\ \/ failed'[p] = failed[p] /\ Has(p, f)'
                          \/ failed'[p] = failed[p] \cup {f} /\ p \in Mains
    <3>1. Behind(p)' = Behind(p) \cup {Formats[at[p]]}
      BY <2>3, BehindNext
    <3>2. \A f : Has(p, f) => Has(p, f)'
      BY <1>k, <2>3
    <3>3. exit[p] = Absent
      BY <1>0, <2>3 DEF Exited, Busy
    <3>4. Reported(p)'
      <4>1. failed'[p] \subseteq Behind(p)' /\ (p \in Regens => failed'[p] = {})
        BY <1>0, <2>0, <2>3, <3>1 DEF Reported
      <4>2. ASSUME NEW f, f \in Behind(p)', f \notin failed'[p] PROVE Has(p, f)'
        <5>1. CASE f \in Behind(p)
          BY <1>0, <2>3, <3>2, <4>2, <5>1 DEF Reported
        <5>2. CASE f \notin Behind(p)
          BY <2>3, <3>1, <4>2, <5>2
        <5> QED
          BY <5>1, <5>2
      <4> QED
        BY <4>1, <4>2 DEF Reported
    <3> QED
      BY <1>0, <1>2, <2>0, <2>3, <3>3, <3>4 DEF Early, Exited, Busy
  (* The end of a process: the code fits what it did. *)
  <2>4. CASE \E code \in {0, 1, 2} :
             /\ Quit(p, code) /\ failed' = failed
             /\ code = 0 => at[p] = Len(Formats) + 1
             /\ code = 0 /\ p \in Mains => Written(p) # {}
             /\ code = 1 /\ p \in Mains => doc[p] = Absent \/ Written(p) = {}
    <3>1. PICK code \in {0, 1, 2} :
             /\ Quit(p, code) /\ failed' = failed
             /\ code = 0 => at[p] = Len(Formats) + 1
             /\ code = 0 /\ p \in Mains => Written(p) # {}
             /\ code = 1 /\ p \in Mains => doc[p] = Absent \/ Written(p) = {}
      BY <2>4
    <3>2. /\ pc'[p] = "done" /\ exit'[p] = code /\ at' = at /\ stamp' = stamp /\ into' = into /\ doc' = doc
      BY <2>0, <3>1 DEF Quit, Goto
    <3>3. Behind(p)' = Behind(p) /\ Written(p)' = Written(p)
      BY <3>1, <3>2 DEF Behind, Written
    <3>4. \A f : Has(p, f) => Has(p, f)'
      BY <1>k, <3>2
    <3>5. Early(p)' /\ Reported(p)'
      BY <1>0, <3>1, <3>2, <3>3, <3>4 DEF Early, Reported
    <3>6. Exited(p)'
      BY <3>1, <3>2, <3>3 DEF Exited
    <3> QED
      BY <1>2, <3>5, <3>6
  <2>5. CASE Start(p) \/ MakeFolder(p) \/ Assess(p) \/ EnsureFolder(p) \/ \E n \in Names : ReadBack(p, n)
    <3>1. /\ pc[p] \in {"start", "mkdir", "assess"} /\ at' = at /\ failed' = failed /\ exit' = exit
          /\ pc'[p] \in {"mkdir", "assess", "write"}
          /\ p \in Mains => doc'[p] = IF pc'[p] = "write" THEN p ELSE doc[p]
      BY <2>0, <2>5 DEF Start, MakeFolder, Mkdir, Assess, EnsureFolder, ReadBack, Goto
    <3>2. CASE Start(p)
      BY <2>0, <2>1, <3>1, <3>2, ReportRunAssumption DEF Start, Dirs
    <3>3. CASE \E n \in Names : ReadBack(p, n)
      <4>1. \A n \in Names : n[1] # Absent /\ Elsewhere # Absent
        BY ReportRunAssumption DEF Names, Dirs
      <4> QED
        BY <2>0, <2>1, <3>1, <3>3, <4>1 DEF ReadBack
    <3>4. CASE stamp' = stamp /\ into' = into
      BY <1>0, <2>1, <3>1, <3>4 DEF Early
    <3> QED
      BY <2>5, <3>2, <3>3, <3>4 DEF MakeFolder, Mkdir, Assess, EnsureFolder
  <2>6. CASE AssessmentFails(p)
    BY <1>0, <2>0, <2>4, <2>6 DEF AssessmentFails, Early
  <2>7. CASE RegenerationFails(p)
    BY <2>0, <2>4, <2>7 DEF RegenerationFails
  <2>8. CASE OpenTemp(p) \/ Write(p)
    BY <2>0, <2>2, <2>8 DEF OpenTemp, Write, Goto, Busy
  <2>9. CASE Publish(p)
    <3>1. /\ pc[p] = "written" /\ pc'[p] = "write" /\ at'[p] = at[p] + 1 /\ failed' = failed
          /\ UNCHANGED <<exit, stamp, into, doc>>
      BY <2>0, <2>9 DEF Publish, PublishTemp, Advance, Goto
    <3>2. at[p] <= Len(Formats) /\ stamp[p] \in Seconds /\ into[p] \in Dirs /\ doc[p] \in Mains
      BY <1>0, <3>1 DEF Sound, Named, Busy, HasReport
    <3>3. Target(p) \in Names
      BY <3>2, TargetIsName, ReportRunAssumption DEF Dirs
    <3>4. PICK t \in TempsOf(p) :
            file' = [file EXCEPT ![Target(p)] = [doc |-> doc[p], whole |-> t.whole, owner |-> Owner(p)]]
      BY <2>9 DEF Publish, PublishTemp
    <3>5. t.whole \in BOOLEAN /\ Owner(p) \in Owners
      BY <3>4 DEF TempsOf, TypeOK, Owner, Owners
    <3>6. [doc |-> doc[p], whole |-> t.whole, owner |-> Owner(p)] \in Files
      BY <3>2, <3>5 DEF Files
    <3>7. /\ file'[Target(p)] = [doc |-> doc[p], whole |-> t.whole, owner |-> Owner(p)]
      BY <3>3, <3>4 DEF TypeOK
    <3>8. file'[Target(p)] # Absent /\ file'[Target(p)].doc = doc[p]
      BY <3>6, <3>7, ReportRunAssumption
    <3>9. ASSUME NEW f, f = Formats[at[p]] PROVE Has(p, f)'
      BY <3>1, <3>3, <3>8, <3>9 DEF Has, Target
    <3> QED
      BY <2>3, <3>1, <3>2, <3>9 DEF Busy
  <2>10. CASE FormatFails(p)
    <3>1. CASE p \in Mains
      <4>1. /\ pc[p] \in Busy /\ pc'[p] = "write" /\ at[p] <= Len(Formats) /\ at'[p] = at[p] + 1
            /\ UNCHANGED <<exit, stamp, into, doc>>
            /\ failed'[p] = failed[p] \cup {Formats[at[p]]}
        BY <2>0, <2>10, <3>1 DEF FormatFails, Writing, Abandon, Advance, Goto, Busy
      <4> QED
        BY <2>3, <3>1, <4>1
    <3>2. CASE p \notin Mains
      <4>1. failed' = failed /\ \E code \in {1, 2} : Quit(p, code)
        BY <2>10, <3>2 DEF FormatFails, Abandon
      <4> QED
        BY <2>4, <3>2, <4>1
    <3> QED
      BY <3>1, <3>2
  <2>11. CASE Finish(p)
    BY <2>4, <2>11 DEF Finish
  <2>12. CASE FinishRegeneration(p)
    BY <2>0, <2>4, <2>12 DEF FinishRegeneration
  <2>13. CASE Killed(p)
    <3>1. pc'[p] = "killed" /\ pc[p] \in {"mkdir", "assess"} \cup Busy
          /\ UNCHANGED <<at, failed, exit, stamp, into, doc>>
      BY <2>0, <2>13 DEF Killed, Goto, Labels, Busy
    <3>2. CASE pc[p] \in {"mkdir", "assess"}
      BY <1>0, <2>1, <3>1, <3>2 DEF Early
    <3>3. CASE pc[p] \in Busy
      BY <2>2, <3>1, <3>3
    <3> QED
      BY <3>1, <3>2, <3>3
  <2> QED
    BY <2>5, <2>6, <2>7, <2>8, <2>9, <2>10, <2>11, <2>12, <2>13 DEF Act
<1> QED
  BY <1>1, <1>2

(* What is on disk of an assessment began with a report of its own run.    *)
LEMMA SeedStep ==
  ASSUME TypeOK, AllSound, OneRunPerFolder, AllAccounted, AllSeeded, NEW p \in Procs, Act(p)
  PROVE  AllSeeded'
<1> SUFFICES ASSUME NEW m \in Mains PROVE Seeded(m)'
  BY DEF AllSeeded
<1>0. /\ Seeded(m) /\ m \in Procs /\ Mains \cap Regens = {}
      /\ \A q \in Procs : Sound(q) /\ Early(q) /\ Reported(q)
  BY ReportRunAssumption DEF AllSeeded, AllAccounted, AllSound, Procs
<1>1. Published(m) => Published(m)'
  <2>1. CASE p # m
    <3>1. at'[m] = at[m] /\ failed'[m] = failed[m]
      BY <1>0, <2>1, OthersStay, OthersStayToo
    <3> QED
      BY <3>1 DEF Published, Behind
  <2>2. CASE p = m /\ at'[p] = at[p] /\ failed'[p] = failed[p]
    BY <2>2 DEF Published, Behind
  <2>3. CASE p = m /\ at[p] <= Len(Formats) /\ at'[p] = at[p] + 1 /\ failed'[p] \subseteq failed[p] \cup {Formats[at[p]]}
    BY <2>3, BehindNext DEF Published
  <2>4. CASE p = m /\ (Publish(p) \/ FormatFails(p))
    <3>1. at[p] <= Len(Formats)
      BY <1>0, <2>4 DEF Publish, FormatFails, Writing, Sound
    <3> QED
      BY <2>3, <2>4, <3>1 DEF Publish, PublishTemp, FormatFails, Abandon, Advance, TypeOK
  <2> QED
    BY <2>1, <2>2, <2>4 DEF Act, Start, MakeFolder, Mkdir, AssessmentFails, Assess, ReadBack, EnsureFolder,
       RegenerationFails, OpenTemp, Write, Finish, FinishRegeneration, Killed, Quit
<1>2. ASSUME NEW n \in Names, file'[n] # Absent, file'[n].doc = m
      PROVE  Published(m)'
  <2>1. CASE file[n] # Absent
    <3>1. file[n].doc = m
      BY <1>2, <2>1, FilesKeep
    <3> QED
      BY <1>0, <1>1, <2>1, <3>1 DEF Seeded
  <2>2. CASE file[n] = Absent
    <3>1. Publish(p)
      <4>1. CASE Finish(p)
        <5>1. into[p] # Absent /\ folder[into[p]] # Absent
          BY <1>0, <4>1, ReportRunAssumption DEF Finish, Sound, Named, Busy, Dirs
        <5> QED
          BY <1>2, <2>2, <4>1, <5>1, HandOverFacts DEF Finish
      <4>2. CASE file' = file
        BY <1>2, <2>2, <4>2
      <4> QED
        BY <4>1, <4>2 DEF Act, Start, MakeFolder, Mkdir, AssessmentFails, Assess, ReadBack,
           EnsureFolder, RegenerationFails, OpenTemp, Write, FormatFails, FinishRegeneration, Killed, fsVars
    <3>2. /\ n = Target(p) /\ doc[p] = m /\ pc[p] = "written" /\ at[p] <= Len(Formats)
          /\ at'[p] = at[p] + 1 /\ failed' = failed
      <4>1. PICK t \in TempsOf(p) :
              file' = [file EXCEPT ![Target(p)] = [doc |-> doc[p], whole |-> t.whole, owner |-> Owner(p)]]
        BY <3>1 DEF Publish, PublishTemp
      <4>2. n = Target(p)
        BY <1>2, <2>2, <4>1 DEF TypeOK
      <4>3. file'[n] = [doc |-> doc[p], whole |-> t.whole, owner |-> Owner(p)]
        BY <4>1, <4>2 DEF TypeOK
      <4> QED
        BY <1>0, <1>2, <3>1, <4>2, <4>3 DEF Publish, PublishTemp, Advance, Sound, TypeOK
    <3>3. CASE p \in Mains
      <4>1. p = m
        BY <1>0, <3>2, <3>3, ReportRunAssumption DEF Early, Procs
      <4>2. Formats[at[p]] \in Behind(p)' /\ Formats[at[p]] \notin Behind(p)
        BY <3>2, BehindNext
      <4> QED
        BY <1>0, <3>2, <4>1, <4>2 DEF Published, Reported
    <3>4. CASE p \in Regens
      BY <1>0, <1>1, <3>2, <3>4 DEF Seeded
    <3> QED
      BY <3>3, <3>4 DEF Procs
  <2> QED
    BY <2>1, <2>2
<1>3. ASSUME NEW q \in Regens, doc'[q] = m
      PROVE  Published(m)'
  <2>0. q \in Procs
    BY DEF Procs
  <2>1. CASE doc'[q] = doc[q]
    BY <1>0, <1>1, <1>3, <2>1 DEF Seeded
  <2>2. CASE p = q /\ \E n \in Names : ReadBack(p, n)
    <3>1. PICK n \in Names : ReadBack(p, n)
      BY <2>2
    <3>2. file[n] # Absent /\ file[n].doc = m
      BY <1>3, <2>0, <2>2, <3>1 DEF ReadBack, TypeOK
    <3> QED
      BY <1>0, <1>1, <3>2 DEF Seeded
  <2>3. CASE p # q
    BY <2>0, <2>1, <2>3, OthersStay
  <2>4. CASE p = q /\ p \notin Mains
    BY <2>1, <2>2, <2>4 DEF Act, Start, MakeFolder, Mkdir, AssessmentFails, Assess, EnsureFolder,
       RegenerationFails, OpenTemp, Write, Publish, PublishTemp, Advance, FormatFails, Abandon, Finish,
       FinishRegeneration, Killed, Quit
  <2> QED
    BY <1>0, <2>3, <2>4
<1> QED
  BY <1>2, <1>3 DEF Seeded

LEMMA AccountInvariance == Spec => [](AllAccounted /\ AllSeeded)
<1>1. ASSUME Init PROVE AllAccounted /\ AllSeeded
  <2>1. AllAccounted
    <3> SUFFICES ASSUME NEW p \in Procs PROVE Early(p) /\ Reported(p) /\ Exited(p)
      BY DEF AllAccounted
    <3>1. at[p] = 1 /\ failed[p] = {} /\ exit[p] = Absent /\ doc[p] = Absent
          /\ pc[p] = "start" /\ stamp[p] = Absent
      BY <1>1 DEF Init
    <3>2. Behind(p) = {}
      BY <3>1, BehindNone
    <3> QED
      BY <3>1, <3>2, ReportRunAssumption DEF Early, Reported, Exited
  <2>2. AllSeeded
    BY <1>1, ReportRunAssumption DEF Init, AllSeeded, Seeded, Procs
  <2> QED
    BY <2>1, <2>2
<1>2. ASSUME Inv, AllAccounted, AllSeeded, [Next]_vars PROVE AllAccounted' /\ AllSeeded'
  <2>1. ASSUME NEW p \in Procs, Act(p) PROVE AllAccounted' /\ AllSeeded'
    BY <1>2, <2>1, AccountStep, SeedStep DEF Inv
  <2>2. ASSUME UNCHANGED <<sudo, fsVars, procVars>> PROVE AllAccounted' /\ AllSeeded'
    <3>1. AllAccounted'
      BY <1>2, <2>2 DEF AllAccounted, Early, Reported, Exited, Has, Behind, Written, fsVars, procVars
    <3>2. AllSeeded'
      BY <1>2, <2>2 DEF AllSeeded, Seeded, Published, Behind, fsVars, procVars
    <3> QED
      BY <3>1, <3>2
  <2> QED
    BY <1>2, <2>1, <2>2, StepIsAct
<1> QED
  BY <1>1, <1>2, Invariance, PTL DEF Spec

(* An exit code 0 comes with every report that is not on record as failed, *)
(* and one at least; an assessment that exits with 1 leaves none, even     *)
(* with regenerations at work beside it (main, report_from).               *)
THEOREM ExitMatchesReportsHolds == Spec => []ExitMatchesReports
<1>1. TypeOK /\ AllAccounted /\ AllSeeded => ExitMatchesReports
  <2> SUFFICES ASSUME TypeOK, AllAccounted, AllSeeded, NEW p \in Procs
               PROVE  /\ p \in Mains /\ exit[p] = 0 => Mine(p) # {} /\ Written(p) \subseteq Mine(p)
                      /\ p \in Mains /\ exit[p] = 1 => doc[p] = Absent \/ Mine(p) = {}
                      /\ p \in Regens /\ exit[p] = 0 => Mine(p) = FormatSet
    BY DEF ExitMatchesReports
  <2>0. Early(p) /\ Reported(p) /\ Exited(p)
    BY DEF AllAccounted
  <2>1. \A f \in FormatSet : Has(p, f) => f \in Mine(p)
    BY ReportRunAssumption DEF Has, Names, Dirs, Mine
  <2>2. ASSUME exit[p] = 0 PROVE Written(p) \subseteq Mine(p)
    <3>1. Behind(p) = FormatSet
      BY <2>0, <2>2, BehindAll DEF Exited
    <3> QED
      BY <2>0, <2>1, <3>1 DEF Reported, Written
  <2>3. ASSUME p \in Mains, exit[p] = 0 PROVE Mine(p) # {} /\ Written(p) \subseteq Mine(p)
    BY <2>0, <2>2, <2>3 DEF Exited
  <2>4. ASSUME p \in Mains, exit[p] = 1, doc[p] # Absent PROVE Mine(p) = {}
    <3>1. doc[p] = p /\ Written(p) = {}
      BY <2>0, <2>4 DEF Early, Exited
    <3>2. ~Published(p)
      <4>1. Behind(p) \subseteq FormatSet
        <5>1. \A i \in 1 .. at[p] - 1 : i \in DOMAIN Formats
          BY ReportRunAssumption DEF TypeOK
        <5> QED
          BY <5>1 DEF Behind, FormatSet
      <4> QED
        BY <3>1, <4>1 DEF Published, Written
    <3>3. ASSUME NEW f \in Mine(p) PROVE FALSE
      <4>1. <<into[p], stamp[p], f>> \in Names
        BY <2>0, <3>3 DEF Names, TypeOK, Mine, Early
      <4> QED
        BY <2>4, <3>1, <3>2, <3>3, <4>1 DEF AllSeeded, Seeded, Mine
    <3> QED
      BY <3>3
  <2>5. ASSUME p \in Regens, exit[p] = 0 PROVE Mine(p) = FormatSet
    <3>1. failed[p] = {}
      BY <2>0, <2>5 DEF Reported
    <3> QED
      BY <2>2, <2>5, <3>1 DEF Written, Mine
  <2> QED
    BY <2>3, <2>4, <2>5
<1> QED
  BY <1>1, TypeCorrect, AccountInvariance, PTL
=============================================================================
