------------------------ MODULE FilesystemScanProofs ------------------------
(* Proofs about FilesystemScan: the walk stays where it may go, reads no   *)
(* directory twice, judges nothing below a prune, and without bind mounts  *)
(* leaves nothing out.                                                     *)
EXTENDS FilesystemScan, SequenceTheorems, TLAPS

-----------------------------------------------------------------------------
(* The tree.                                                               *)
Upward(S) == \A r \in S \ {Root} : Parent[r] \in S

(* What holds of p, and of the parent of each path it holds of, holds of   *)
(* every path above p.                                                     *)
LEMMA UpLeast ==
  ASSUME NEW p \in Paths, NEW S \in SUBSET Paths, p \in S, Upward(S)
  PROVE  Up[p] \subseteq S
BY DEF Up, Upward

LEMMA UpSelf ==
  ASSUME NEW p \in Paths
  PROVE  p \in Up[p] /\ Up[p] \subseteq Paths /\ Upward(Up[p])
<1>1. p \in Up[p] /\ Up[p] \subseteq Paths
  BY DEF Up
<1>2. ASSUME NEW r \in Up[p], r # Root PROVE Parent[r] \in Up[p]
  <2>1. Parent[r] \in Paths
    BY <1>1, <1>2, ScanAssumption
  <2>2. ASSUME NEW S \in SUBSET Paths, p \in S, \A x \in S \ {Root} : Parent[x] \in S
        PROVE  Parent[r] \in S
    BY <1>2, <2>2 DEF Up
  <2> QED
    BY <2>1, <2>2 DEF Up
<1> QED
  BY <1>1, <1>2 DEF Upward

LEMMA UpTransitive ==
  ASSUME NEW p \in Paths, NEW q \in Up[p]
  PROVE  q \in Paths /\ Up[q] \subseteq Up[p]
<1>1. q \in Paths /\ Up[p] \in SUBSET Paths /\ Upward(Up[p])
  BY UpSelf
<1> QED
  BY <1>1, UpLeast

(* p is above itself alone, apart from its parent and those above it.      *)
LEMMA UpStep ==
  ASSUME NEW p \in Paths
  PROVE  Up[p] = {p} \cup Above[p] /\ Above[p] \subseteq Paths
<1>1. CASE p = Root
  <2>1. {p} \in SUBSET Paths /\ Upward({p})
    BY <1>1 DEF Upward
  <2> QED
    BY <1>1, <2>1, UpLeast, UpSelf DEF Above
<1>2. CASE p # Root
  <2>1. Parent[p] \in Paths
    BY <1>2, ScanAssumption
  <2>2. Up[Parent[p]] \subseteq Paths /\ Upward(Up[Parent[p]]) /\ Parent[p] \in Up[Parent[p]]
    BY <2>1, UpSelf
  <2>3. Upward({p} \cup Up[Parent[p]])
    BY <2>2 DEF Upward
  <2>4. Up[p] \subseteq {p} \cup Up[Parent[p]]
    <3>1. {p} \cup Up[Parent[p]] \in SUBSET Paths
      BY <2>2
    <3> QED
      BY <2>3, <3>1, UpLeast
  <2>5. Parent[p] \in Up[p]
    BY <1>2, UpSelf DEF Upward
  <2>6. Up[Parent[p]] \subseteq Up[p]
    BY <2>5, UpTransitive
  <2>7. Above[p] = Up[Parent[p]]
    BY <1>2 DEF Above
  <2> QED
    BY <2>2, <2>4, <2>6, <2>7, UpSelf
<1> QED
  BY <1>1, <1>2

LEMMA AboveTransitive ==
  ASSUME NEW p \in Paths, NEW q \in Up[p], NEW r \in Above[q]
  PROVE  r \in Above[p]
<1>1. q \in Paths /\ r \in Up[q]
  BY UpTransitive, UpStep
<1>2. CASE q = p
  BY <1>2
<1>3. CASE q # p
  <2>1. q \in Above[p] /\ p # Root
    BY <1>3, UpStep DEF Above
  <2>2. Parent[p] \in Paths /\ Above[p] = Up[Parent[p]]
    BY <2>1, ScanAssumption DEF Above
  <2> QED
    BY <1>1, <2>1, <2>2, UpTransitive
<1> QED
  BY <1>2, <1>3

(* No path lies between a mount point and itself.                          *)
LEMMA WaySelf == ASSUME NEW t \in Paths PROVE Way(t, t) = {}
<1> SUFFICES ASSUME NEW q \in Way(t, t) PROVE FALSE
  OBVIOUS
<1>1. q \in Up[t] /\ t \in Above[q]
  BY UpStep DEF Way
<1>2. t \in Above[t]
  BY <1>1, AboveTransitive
<1> QED
  BY <1>2, ScanAssumption

(* The way to an entry is the way to its directory, and the entry.         *)
LEMMA WayEntry ==
  ASSUME NEW d \in Dirs, NEW e \in Entries(d), NEW t \in Up[d]
  PROVE  /\ e \in Paths /\ d \in Paths
         /\ Way(t, e) = Way(t, d) \cup {e} /\ e \notin Way(t, d)
         /\ t \in Above[e] /\ t # e /\ d # e
<1>1. d \in Paths /\ e \in Paths /\ e # Root /\ Parent[e] = d
  BY ScanAssumption DEF Entries
<1>2. Above[e] = Up[d]
  BY <1>1 DEF Above
<1>3. Up[e] = {e} \cup Above[e] /\ Up[d] = {d} \cup Above[d] /\ e \notin Above[e]
  BY <1>1, UpStep, ScanAssumption
<1> QED
  BY <1>1, <1>2, <1>3 DEF Way

-----------------------------------------------------------------------------
(* The state of the walk.                                                  *)
LEMMA FrontFacts ==
  ASSUME NEW S, NEW s \in Seq(S), s # <<>>
  PROVE  /\ SubSeq(s, 1, Len(s) - 1) \in Seq(S)
         /\ Len(SubSeq(s, 1, Len(s) - 1)) = Len(s) - 1
         /\ \A i \in 1 .. Len(s) - 1 : SubSeq(s, 1, Len(s) - 1)[i] = s[i]
<1>1. Len(s) - 1 \in Nat
  OBVIOUS
<1>2. PICK n \in Nat : n = Len(s) - 1
  BY <1>1
<1>3. 1 \in Int /\ n \in Int /\ \A i \in 1 .. n : s[i] \in S
  BY <1>2
<1>4. SubSeq(s, 1, n) \in Seq(S)
  BY <1>3, SubSeqProperties, Zenon
<1>5. Len(SubSeq(s, 1, n)) = n
  BY <1>2, SMT
<1>6. \A i \in 1 .. n : SubSeq(s, 1, n)[i] = s[i]
  BY <1>2, SMT
<1> QED
  BY <1>2, <1>4, <1>5, <1>6

LEMMA PopFacts ==
  ASSUME TypeOK, stack # <<>>, Pop
  PROVE  /\ Len(stack) \in 1 .. Len(stack) /\ Top \in Frames
         /\ stack' \in Seq(Frames) /\ Len(stack') = Len(stack) - 1
         /\ \A i \in 1 .. Len(stack') :
              i \in 1 .. Len(stack) /\ i # Len(stack) /\ stack'[i] = stack[i]
         /\ \A i \in 1 .. Len(stack) : i \in 1 .. Len(stack') \/ i = Len(stack)
<1>1. stack \in Seq(Frames)
  BY DEF TypeOK
<1>2. Len(stack) \in Nat \ {0} /\ stack[Len(stack)] \in Frames
  BY <1>1
<1>3. /\ stack' \in Seq(Frames) /\ Len(stack') = Len(stack) - 1
      /\ \A i \in 1 .. Len(stack) - 1 : stack'[i] = stack[i]
  BY <1>1, FrontFacts DEF Pop
<1> QED
  BY <1>2, <1>3 DEF Top

LEMMA PushFacts ==
  ASSUME TypeOK, NEW e \in Dirs, NEW pruned \in BOOLEAN, Push(e, pruned)
  PROVE  /\ stack' \in Seq(Frames) /\ Len(stack') = Len(stack) + 1
         /\ \A i \in 1 .. Len(stack) : i \in 1 .. Len(stack') /\ stack'[i] = stack[i]
         /\ \A i \in 1 .. Len(stack') : i \in 1 .. Len(stack) \/ i = Len(stack) + 1
         /\ stack'[Len(stack) + 1] = [path |-> e, pruned |-> pruned]
<1> DEFINE f == [path |-> e, pruned |-> pruned]
<1>1. f \in Frames /\ stack \in Seq(Frames) /\ stack' = Append(stack, f)
  BY DEF Frames, TypeOK, Push
<1> QED
  BY <1>1

LEMMA HostFacts ==
  ASSUME TypeOK
  PROVE  /\ host.layout \in [inode: [Paths -> Paths], device: [Paths -> Devices]]
         /\ \A p \in Paths : Inode(p) \in Paths
         /\ Guest \subseteq Dirs
         /\ host.general \in [TargetSet -> BOOLEAN] /\ host.privileged \in [TargetSet -> BOOLEAN]
<1>1. host.layout \in Layouts /\ host.trouble \in Troubles
      /\ host.general \in [TargetSet -> BOOLEAN] /\ host.privileged \in [TargetSet -> BOOLEAN]
  BY DEF TypeOK, Hosts
<1> QED
  BY <1>1, ScanAssumption DEF Guest, Inode

LEMMA TargetFacts ==
  /\ TargetSet \subseteq Dirs /\ Dirs \subseteq Paths
  /\ DOMAIN Targets = 1 .. Len(Targets) /\ Len(Targets) \in Nat
  /\ \A i \in 1 .. Len(Targets) : Targets[i] \in TargetSet
BY ScanAssumption DEF TargetSet

(* The directories waiting are distinct, met and not yet opened.           *)
Waiting ==
  /\ \A i \in 1 .. Len(stack) : Inode(stack[i].path) \in visited \ opened
  /\ \A i, j \in 1 .. Len(stack) : i # j => Inode(stack[i].path) # Inode(stack[j].path)

LEMMA PushWaiting ==
  ASSUME TypeOK, Waiting, NEW e \in Dirs, NEW pruned \in BOOLEAN, Push(e, pruned),
         Inode(e) \notin visited, visited' = visited \cup {Inode(e)},
         opened' = opened, host' = host
  PROVE  Waiting'
<1>1. /\ Len(stack') = Len(stack) + 1
      /\ \A i \in 1 .. Len(stack) : i \in 1 .. Len(stack') /\ stack'[i] = stack[i]
      /\ \A i \in 1 .. Len(stack') : i \in 1 .. Len(stack) \/ i = Len(stack) + 1
      /\ stack'[Len(stack) + 1] = [path |-> e, pruned |-> pruned]
  BY PushFacts
<1>2. \A p : Inode(p)' = host.layout.inode[p'] /\ Inode(p) = host.layout.inode[p]
  BY DEF Inode
<1>3. opened \subseteq visited /\ [path |-> e, pruned |-> pruned].path = e
  BY DEF TypeOK
<1>4. ASSUME NEW i \in 1 .. Len(stack') PROVE Inode(stack[i].path)' \in visited' \ opened'
  <2>1. CASE i \in 1 .. Len(stack)
    BY <1>1, <2>1 DEF Waiting, Inode
  <2>2. CASE i = Len(stack) + 1
    BY <1>1, <1>3, <2>2 DEF Inode
  <2> QED
    BY <1>1, <2>1, <2>2
<1>5. ASSUME NEW i \in 1 .. Len(stack'), NEW j \in 1 .. Len(stack'), i # j
      PROVE  Inode(stack[i].path)' # Inode(stack[j].path)'
  BY <1>1, <1>5 DEF Waiting, Inode
<1> QED
  BY <1>4, <1>5 DEF Waiting

LEMMA StepWaiting ==
  ASSUME TypeOK, Waiting, [Next]_vars
  PROVE  TypeOK' /\ Waiting'
<1> USE ScanAssumption
<1>0. /\ TargetSet \subseteq Dirs /\ Dirs \subseteq Paths
      /\ \A i \in 1 .. Len(Targets) : Targets[i] \in TargetSet
      /\ \A p \in Paths : Inode(p) \in Paths
  BY TargetFacts, HostFacts
<1>1. CASE SkipTarget
  BY <1>0, <1>1, TargetFacts DEF TypeOK, Waiting, Inode, SkipTarget
<1>2. CASE StartTarget
  <2>1. Targets[next] \in TargetSet
    BY <1>0, <1>2 DEF StartTarget, TypeOK
  <2>2. [path |-> Targets[next], pruned |-> FALSE] \in Frames
    BY <1>0, <2>1 DEF Frames
  <2>3. stack' \in Seq(Frames) /\ Len(stack') = 1 /\ stack'[1].path = Targets[next]
    BY <1>2, <2>2 DEF StartTarget
  <2>4. visited' \subseteq Paths /\ opened' \subseteq visited'
    BY <1>0, <1>2, <2>1 DEF StartTarget, TypeOK
  <2>5. next' \in 1 .. Len(Targets) + 1
    BY <1>2, TargetFacts DEF StartTarget, TypeOK
  <2>6. TypeOK'
    BY <1>2, <2>1, <2>3, <2>4, <2>5 DEF StartTarget, TypeOK
  <2>7. Inode(Targets[next]) \in visited' \ opened' /\ host' = host
    BY <1>2 DEF StartTarget, TypeOK
  <2> QED
    BY <2>3, <2>6, <2>7 DEF Waiting, Inode
<1>3. CASE CannotOpen
  <2>1. Pop /\ stack # <<>> /\ UNCHANGED <<host, visited, opened>>
    BY <1>3 DEF CannotOpen
  <2>2. Waiting'
    BY <2>1, PopFacts DEF Waiting, Inode
  <2> QED
    BY <1>3, <2>1, <2>2, PopFacts DEF TypeOK, CannotOpen, Frames
<1>4. CASE Open
  <2>1. Pop /\ stack # <<>> /\ UNCHANGED <<host, visited>> /\ opened' = opened \cup {Inode(Top.path)}
    BY <1>4 DEF Open
  <2>2. Top \in Frames /\ Inode(Top.path) \in visited \ opened
    BY <2>1, PopFacts DEF Waiting, Top
  <2>3. Waiting'
    <3>1. ASSUME NEW i \in 1 .. Len(stack')
          PROVE  stack'[i] = stack[i] /\ Inode(stack[i].path) # Inode(Top.path)
      BY <2>1, PopFacts DEF Waiting, Top
    <3> QED
      BY <2>1, <3>1, PopFacts DEF Waiting, Inode
  <2> QED
    BY <1>4, <2>1, <2>2, <2>3, PopFacts DEF TypeOK, Open, Entries
<1>5. CASE Close
  BY <1>5 DEF TypeOK, Waiting, Inode, Close
<1>6. CASE Report
  BY <1>6 DEF TypeOK, Waiting, Inode, Report, walk
<1>7. ASSUME NEW e \in left, PassOver(e) PROVE TypeOK' /\ Waiting'
  BY <1>7 DEF TypeOK, Waiting, Inode, PassOver
<1>8. ASSUME NEW e \in left, LookAtFile(e) PROVE TypeOK' /\ Waiting'
  BY <1>8 DEF TypeOK, Waiting, Inode, LookAtFile, Judge
<1>9. ASSUME NEW e \in left, LookAtDir(e) PROVE TypeOK' /\ Waiting'
  <2>0. e \in Dirs /\ host' = host /\ opened' = opened /\ dir \in Frames
    BY <1>9 DEF LookAtDir, TypeOK
  <2> DEFINE flag == dir.pruned \/ e \in Pruned
  <2>1. Descend(e, flag) /\ flag \in BOOLEAN
    BY <1>9, <2>0 DEF LookAtDir, Frames
  <2>2. CASE UNCHANGED stack /\ visited \subseteq visited' /\ visited' \subseteq Paths
    BY <1>9, <2>0, <2>2 DEF TypeOK, Waiting, Inode, LookAtDir, Judge
  <2>3. CASE Push(e, flag) /\ Inode(e) \notin visited /\ visited' = visited \cup {Inode(e)}
    <3>1. Waiting'
      BY <2>0, <2>1, <2>3, PushWaiting
    <3>2. stack' \in Seq(Frames)
      BY <2>0, <2>1, <2>3, PushFacts
    <3>3. visited' \subseteq Paths /\ opened' \subseteq visited'
      BY <1>0, <2>0, <2>3 DEF TypeOK
    <3> QED
      BY <1>9, <3>1, <3>2, <3>3 DEF TypeOK, LookAtDir, Judge
  <2> HIDE DEF flag
  <2> QED
    BY <1>0, <2>0, <2>1, <2>2, <2>3 DEF Descend, TypeOK
<1>10. CASE UNCHANGED vars
  BY <1>10 DEF TypeOK, Waiting, Inode, vars, walk
<1> QED
  BY <1>1, <1>2, <1>3, <1>4, <1>5, <1>6, <1>7, <1>8, <1>9, <1>10 DEF Next

-----------------------------------------------------------------------------
(* Where the walk is: at directories that the walk of the current mount    *)
(* gets to, and it knows which of them lie below a prune.                  *)
Walkable(t, q) ==
  /\ t \in Up[q] /\ t \notin Gone
  /\ \A r \in Way(t, q) : Device(r) = Device(t) /\ r \notin Gone /\ r \notin Guest
  /\ \A r \in (Way(t, q) \cup {t}) \ {q} : r \notin Unreadable
  /\ host.privileged[t] \/ (Way(t, q) \ {q}) \cap Pruned = {}

(* f is a place for the walk of m, and known for what it is.               *)
Place(m, f) ==
  /\ m \in TargetSet /\ Walkable(m, f.path)
  /\ f.pruned <=> Way(m, f.path) \cap Pruned # {}
  /\ f.pruned => host.privileged[m]

Waits(f) == \E i \in 1 .. Len(stack) : stack[i] = f

Positions ==
  /\ \A f \in Frames : Waits(f) => Place(mount, f)
  /\ dir # Absent =>
       Place(mount, dir) /\ dir.path \notin Unreadable /\ left \subseteq Entries(dir.path)

LEMMA HostStays ==
  ASSUME [Next]_vars
  PROVE  host' = host
BY DEF Next, SkipTarget, StartTarget, CannotOpen, Open, Close, Report, PassOver, LookAtFile, LookAtDir, vars

LEMMA SameHost ==
  ASSUME host' = host
  PROVE  /\ Gone' = Gone /\ Guest' = Guest /\ Pruned' = Pruned /\ Unreadable' = Unreadable
         /\ \A p : Inode(p)' = Inode(p) /\ Device(p)' = Device(p)
         /\ \A t, q : Walkable(t, q)' <=> Walkable(t, q)
         /\ \A m, f : Place(m, f)' <=> Place(m, f)
         /\ \A t : Shadowed(t)' <=> Shadowed(t)
<1>1. /\ Gone' = Gone /\ Guest' = Guest /\ Pruned' = Pruned /\ Unreadable' = Unreadable
      /\ \A p : Inode(p)' = Inode(p) /\ Device(p)' = Device(p)
  BY DEF Gone, Guest, Pruned, Unreadable, Inode, Device
<1>2. \A t, q : Walkable(t, q)' <=> Walkable(t, q)
  BY <1>1 DEF Walkable, Way
<1>3. \A m, f : Place(m, f)' <=> Place(m, f)
  BY <1>1, <1>2 DEF Place, Way
<1>4. \A t : Shadowed(t)' <=> Shadowed(t)
  BY <1>1 DEF Shadowed, Arrives, Reachable, Way
<1> QED
  BY <1>1, <1>2, <1>3, <1>4

LEMMA WaitsPop ==
  ASSUME TypeOK, stack # <<>>, Pop
  PROVE  /\ Top \in Frames /\ Waits(Top)
         /\ \A f : Waits(f)' => Waits(f)
         /\ \A f : Waits(f) => Waits(f)' \/ f = Top
BY PopFacts DEF Waits, Top

LEMMA WaitsPush ==
  ASSUME TypeOK, NEW e \in Dirs, NEW pruned \in BOOLEAN, Push(e, pruned)
  PROVE  \A f : Waits(f)' <=> Waits(f) \/ f = [path |-> e, pruned |-> pruned]
<1> DEFINE new == [path |-> e, pruned |-> pruned]
<1>1. PICK n \in Nat : n = Len(stack)
  BY DEF TypeOK
<1>2. /\ Len(stack') = n + 1 /\ stack'[n + 1] = new
      /\ \A i \in 1 .. n : stack'[i] = stack[i]
  BY <1>1, PushFacts
<1> HIDE DEF new
<1>3. ASSUME NEW f, Waits(f)' PROVE Waits(f) \/ f = new
  BY <1>1, <1>2, <1>3 DEF Waits
<1>4. ASSUME NEW f, Waits(f) \/ f = new PROVE Waits(f)'
  BY <1>1, <1>2, <1>4 DEF Waits
<1> QED
  BY <1>3, <1>4 DEF new

LEMMA WaitsStay ==
  ASSUME stack' = stack
  PROVE  \A f : Waits(f)' <=> Waits(f)
BY DEF Waits

-----------------------------------------------------------------------------
(* A walk that gets to an entry gets to its directory and below it.        *)
LEMMA WalkableParent ==
  ASSUME NEW d \in Dirs, NEW e \in Entries(d), NEW t \in Paths, Walkable(t, e), t # e
  PROVE  /\ t \in Up[d] /\ Walkable(t, d) /\ d \notin Unreadable
         /\ host.privileged[t] \/ Way(t, d) \cap Pruned = {}
         /\ Device(e) = Device(t) /\ e \notin Gone /\ e \notin Guest
<1>1. e \in Paths /\ Above[e] = Up[d] /\ Up[e] = {e} \cup Above[e]
  BY UpStep, ScanAssumption DEF Entries, Above
<1>2. t \in Up[d]
  BY <1>1 DEF Walkable
<1>3. /\ Way(t, e) = Way(t, d) \cup {e} /\ e \notin Way(t, d) /\ d # e
      /\ d = t \/ d \in Way(t, d)
  <2>1. Up[d] = {d} \cup Above[d]
    BY UpStep, ScanAssumption
  <2> QED
    BY <1>2, <2>1, WayEntry DEF Way
<1> QED
  BY <1>2, <1>3 DEF Walkable

LEMMA WalkableEntry ==
  ASSUME NEW d \in Dirs, NEW e \in Entries(d), NEW t \in Paths, Walkable(t, d), d \notin Unreadable,
         host.privileged[t] \/ Way(t, d) \cap Pruned = {},
         Device(e) = Device(t), e \notin Gone, e \notin Guest
  PROVE  Walkable(t, e)
<1>1. /\ t \in Up[d] /\ t \notin Gone
      /\ \A r \in Way(t, d) : Device(r) = Device(t) /\ r \notin Gone /\ r \notin Guest
      /\ \A r \in (Way(t, d) \cup {t}) \ {d} : r \notin Unreadable
  BY DEF Walkable
<1>2. Way(t, e) = Way(t, d) \cup {e} /\ e \notin Way(t, d) /\ t \in Above[e] /\ e \in Paths
  BY <1>1, WayEntry
<1>3. t \in Up[e]
  BY <1>2, UpStep
<1> QED
  BY <1>1, <1>2, <1>3 DEF Walkable

LEMMA WalkableSelf ==
  ASSUME NEW t \in Paths, t \notin Gone
  PROVE  Walkable(t, t)
BY WaySelf, UpSelf DEF Walkable

(* Walkable says of the places below t what Arrives says.                  *)
LEMMA ArrivesMeans ==
  ASSUME NEW s \in Paths, NEW t \in Paths
  PROVE  Arrives(s, t) <=> Walkable(s, t) /\ s # t
<1>1. Up[t] = {t} \cup Above[t] /\ t \notin Above[t]
  BY UpStep, ScanAssumption
<1>2. s \in Above[t] <=> s \in Up[t] /\ s # t
  BY <1>1
<1> QED
  BY <1>2 DEF Arrives, Reachable, Walkable, Way

-----------------------------------------------------------------------------
LEMMA StepPositions ==
  ASSUME TypeOK, Positions, [Next]_vars
  PROVE  Positions'
<1>0. /\ host' = host /\ Absent \notin Frames
      /\ \A m, f : Place(m, f)' <=> Place(m, f)
      /\ Unreadable' = Unreadable /\ (\A p : Inode(p)' = Inode(p) /\ Device(p)' = Device(p))
  BY HostStays, SameHost, ScanAssumption DEF Frames
<1>1. ASSUME UNCHANGED <<mount, stack, dir>>, left' \subseteq left PROVE Positions'
  BY <1>0, <1>1, WaitsStay DEF Positions, Entries
<1>2. CASE StartTarget
  <2> DEFINE s == Targets[next]
             new == [path |-> s, pruned |-> FALSE]
  <2>1. s \in TargetSet /\ s \in Paths /\ s \notin Gone /\ mount' = s /\ dir = Absent /\ dir' = dir
    BY <1>2, TargetFacts DEF StartTarget, TypeOK, Idle
  <2>2. \A f : Waits(f)' => f = new
    <3>1. stack' = <<new>>
      BY <1>2 DEF StartTarget
    <3> QED
      BY <3>1 DEF Waits
  <2>3. Place(s, new)
    <3>1. Way(s, s) = {} /\ Walkable(s, s) /\ new.path = s /\ new.pruned = FALSE
      BY <2>1, WaySelf, WalkableSelf
    <3> QED
      BY <2>1, <3>1 DEF Place
  <2> QED
    BY <1>0, <2>1, <2>2, <2>3 DEF Positions
<1>3. CASE CannotOpen
  <2>1. stack # <<>> /\ Pop /\ UNCHANGED <<mount, dir>> /\ dir = Absent
    BY <1>3 DEF CannotOpen
  <2> QED
    BY <1>0, <2>1, WaitsPop DEF Positions
<1>4. CASE Open
  <2>1. stack # <<>> /\ Pop /\ mount' = mount /\ dir' = Top /\ left' = Entries(Top.path)
        /\ Top.path \notin Unreadable
    BY <1>4 DEF Open
  <2>2. \A d : Entries(d)' = Entries(d)
    BY DEF Entries
  <2> QED
    BY <1>0, <2>1, <2>2, WaitsPop DEF Positions
<1>5. CASE Close
  <2>1. stack' = stack /\ mount' = mount /\ dir' = Absent
    BY <1>5 DEF Close
  <2> QED
    BY <1>0, <2>1, WaitsStay DEF Positions
<1>6. ASSUME NEW e \in left, LookAtDir(e) PROVE Positions'
  <2> DEFINE flag == dir.pruned \/ e \in Pruned
             new == [path |-> e, pruned |-> flag]
  <2>1. /\ dir \in Frames /\ Place(mount, dir) /\ dir.path \notin Unreadable
        /\ left \subseteq Entries(dir.path) /\ dir # Absent /\ e \in Dirs
        /\ UNCHANGED <<mount, dir>> /\ left' \subseteq left
    BY <1>6 DEF LookAtDir, Positions, TypeOK
  <2>2. Descend(e, flag)
    BY <1>6 DEF LookAtDir
  <2>3. CASE stack' = stack
    BY <1>1, <2>1, <2>3
  <2>4. CASE Push(e, flag) /\ ~(flag /\ ~Privileged)
    <3>1. dir.path \in Dirs /\ mount \in Paths /\ mount \in TargetSet /\ Walkable(mount, dir.path)
          /\ flag \in BOOLEAN /\ (dir.pruned <=> Way(mount, dir.path) \cap Pruned # {})
      BY <2>1, TargetFacts DEF Frames, Place
    <3>2. Device(e) = Device(mount) /\ e \notin Gone /\ e \notin Guest
      BY <1>6 DEF LookAtDir, Passed
    <3>3. flag => host.privileged[mount]
      BY <2>4 DEF Privileged
    <3>4. Walkable(mount, e)
      <4>1. host.privileged[mount] \/ Way(mount, dir.path) \cap Pruned = {}
        BY <3>1, <3>3
      <4> QED
        BY <2>1, <3>1, <3>2, <4>1, WalkableEntry
    <3>5. flag <=> Way(mount, e) \cap Pruned # {}
      <4>1. Way(mount, e) = Way(mount, dir.path) \cup {e}
        BY <2>1, <3>1, WayEntry DEF Walkable
      <4> QED
        BY <3>1, <4>1
    <3>6. Place(mount, new)
      <4>1. new.path = e /\ new.pruned = flag
        OBVIOUS
      <4> HIDE DEF new, flag
      <4> QED
        BY <3>1, <3>3, <3>4, <3>5, <4>1 DEF Place
    <3>7. \A f : Waits(f)' => Waits(f) \/ f = new
      BY <2>1, <2>4, <3>1, WaitsPush
    <3> HIDE DEF new, flag
    <3>8. \A d : Entries(d)' = Entries(d)
      BY DEF Entries
    <3> QED
      BY <1>0, <2>1, <3>6, <3>7, <3>8 DEF Positions
  <2> QED
    BY <2>2, <2>3, <2>4 DEF Descend
<1>7. CASE SkipTarget \/ Report \/ UNCHANGED vars
  BY <1>1, <1>7 DEF SkipTarget, Report, vars, walk
<1>8. ASSUME NEW e \in left, PassOver(e) \/ LookAtFile(e) PROVE Positions'
  BY <1>1, <1>8 DEF PassOver, LookAtFile
<1> QED
  BY <1>2, <1>3, <1>4, <1>5, <1>6, <1>7, <1>8 DEF Next

Looks(e) == LookAtFile(e) \/ LookAtDir(e)

(* An entry that is looked at is on the mount's walk; whether it counts as *)
(* pruned is whether a prune lies on the way.                              *)
LEMMA LookFacts ==
  ASSUME TypeOK, Positions, NEW e \in left, Looks(e)
  PROVE  /\ dir # Absent /\ dir \in Frames /\ dir.path \in Dirs /\ e \in Entries(dir.path)
         /\ e \in Paths /\ mount \in TargetSet /\ mount \in Paths /\ mount \in Above[e]
         /\ Walkable(mount, e) /\ (\A r \in Way(mount, e) : r \notin Guest)
         /\ (dir.pruned \/ e \in Pruned) <=> Way(mount, e) \cap Pruned # {}
         /\ Judge(e, dir.pruned \/ e \in Pruned)
         /\ left' = left \ {e} /\ UNCHANGED <<host, next, mount, dir, opened>>
<1>1. /\ dir # Absent /\ dir \in Frames /\ Place(mount, dir) /\ e \in Entries(dir.path)
      /\ dir.path \notin Unreadable /\ left' = left \ {e} /\ UNCHANGED <<host, next, mount, dir, opened>>
      /\ Judge(e, dir.pruned \/ e \in Pruned)
  BY DEF Looks, LookAtFile, LookAtDir, TypeOK, Positions
<1>2. dir.path \in Dirs /\ mount \in TargetSet /\ mount \in Paths /\ Walkable(mount, dir.path)
      /\ (dir.pruned <=> Way(mount, dir.path) \cap Pruned # {}) /\ mount \in Up[dir.path]
  BY <1>1, TargetFacts DEF Frames, Place, Walkable
<1>3. e \in Paths /\ Way(mount, e) = Way(mount, dir.path) \cup {e} /\ mount \in Above[e]
  BY <1>1, <1>2, WayEntry
<1>4. Device(e) = Device(mount) /\ e \notin Gone /\ e \notin Guest
  BY HostFacts DEF Looks, LookAtFile, LookAtDir, Passed
<1>5. Walkable(mount, e)
  <2>1. host.privileged[mount] \/ Way(mount, dir.path) \cap Pruned = {}
    BY <1>1, <1>2 DEF Place
  <2> QED
    BY <1>1, <1>2, <1>4, <2>1, WalkableEntry
<1>7. \A r \in Way(mount, e) : r \notin Guest
  BY <1>5 DEF Walkable
<1>6. (dir.pruned \/ e \in Pruned) <=> Way(mount, e) \cap Pruned # {}
  BY <1>2, <1>3
<1> QED
  BY <1>1, <1>2, <1>3, <1>5, <1>6, <1>7

LEMMA StepPruned ==
  ASSUME TypeOK, Positions, PrunedIsNotJudged, [Next]_vars
  PROVE  PrunedIsNotJudged'
<1>0. host' = host
  BY HostStays
<1>1. CASE judged' = judged
  BY <1>0, <1>1 DEF PrunedIsNotJudged, Way, Pruned, Guest
<1>2. ASSUME NEW e \in left, Looks(e) PROVE PrunedIsNotJudged'
  <2>1. CASE judged' = judged
    BY <1>1, <2>1
  <2>2. CASE judged' = judged \cup {e} /\ General /\ ~(dir.pruned \/ e \in Pruned)
    <3>1. /\ mount \in TargetSet /\ mount \in Above[e] /\ host.general[mount]
          /\ Way(mount, e) \cap (Pruned \cup Guest) = {}
      BY <1>2, <2>2, LookFacts DEF General
    <3> QED
      BY <1>0, <2>2, <3>1 DEF PrunedIsNotJudged, Way, Pruned, Guest
  <2>3. Judge(e, dir.pruned \/ e \in Pruned)
    BY <1>2, LookFacts
  <2> QED
    BY <2>1, <2>2, <2>3 DEF Judge
<1> QED
  BY <1>1, <1>2 DEF Next, SkipTarget, StartTarget, CannotOpen, Open, Close, Report, PassOver, Looks, vars

Inv == TypeOK /\ Waiting /\ Positions /\ PrunedIsNotJudged

LEMMA Invariance == Spec => []Inv
<1>1. Init => Inv
  <2> SUFFICES ASSUME Init PROVE Inv
    OBVIOUS
  <2>1. TypeOK
    BY ScanAssumption DEF Init, TypeOK
  <2>2. Waiting /\ Positions /\ PrunedIsNotJudged
    BY DEF Init, Waiting, Positions, Waits, PrunedIsNotJudged
  <2> QED
    BY <2>1, <2>2 DEF Inv
<1>2. Inv /\ [Next]_vars => Inv'
  BY StepWaiting, StepPositions, StepPruned DEF Inv
<1> QED
  BY <1>1, <1>2, PTL DEF Spec

(* The walk keeps its types: it stays on paths of the tree, only           *)
(* directories are opened, and only files inventoried (filesystem_scan).   *)
THEOREM TypeCorrect == Spec => []TypeOK
BY Invariance, PTL DEF Inv

(* No directory is read twice, by whatever names it is met: one is pushed  *)
(* only when its inode is new, and inodes are never forgotten              *)
(* (filesystem.py:255-257, 301-304).                                       *)
THEOREM EachDirOnceHolds == Spec => []EachDirOnce
<1>1. Inv => EachDirOnce
  BY DEF Inv, Waiting, EachDirOnce
<1> QED
  BY <1>1, Invariance, PTL

(* Nothing below a prune or a container volume is judged, though the walk  *)
(* goes there for the inventory (filesystem.py:284-307).                   *)
THEOREM PrunedIsNotJudgedHolds == Spec => []PrunedIsNotJudged
BY Invariance, PTL DEF Inv

-----------------------------------------------------------------------------
(* What the walk has done for a mount t that no other walk gets to.        *)
Met(p) == Inode(p) \in visited
Read(p) == Inode(p) \in opened
Pending(e) == dir # Absent /\ dir.path = Parent[e] /\ e \in left

Handled(t, e) ==
  /\ host.general[t] /\ Way(t, e) \cap Pruned = {} => e \in judged
  /\ e \notin Dirs /\ host.privileged[t] => e \in inventory
  /\ e \in Dirs => Met(e)

(* Each mount before the next has been met.                                *)
Started == \A i \in 1 .. next - 1 : Targets[i] \notin Gone => Met(Targets[i])

(* No other walk is where the walk of t may go.                            *)
OwnWalk(t) ==
  /\ \A f \in Frames : Waits(f) /\ Walkable(t, f.path) => mount = t
  /\ dir # Absent /\ Walkable(t, dir.path) => mount = t

(* A directory met is opened or waits for it.                              *)
Kept(t) ==
  \A d \in Dirs :
    /\ Walkable(t, d) /\ d \notin Unreadable /\ Met(d)
    /\ host.privileged[t] \/ Way(t, d) \cap Pruned = {}
    => Read(d) \/ \E f \in Frames : Waits(f) /\ f.path = d

(* An entry of an opened directory is dealt with or about to be.           *)
LookedAt(t) ==
  \A e \in Paths :
    Walkable(t, e) /\ e # t /\ Read(Parent[e]) /\ ~Pending(e) => Handled(t, e)

Progress == \A t \in TargetSet : ~Shadowed(t) => OwnWalk(t) /\ Kept(t) /\ LookedAt(t)

Ended == verdict # Absent => Idle /\ next = Len(Targets) + 1

(* Without bind mounts a path is met, or opened, when its inode is.        *)
LEMMA Unaliased ==
  ASSUME ~Aliased
  PROVE  \A p, q \in Paths : Inode(p) = Inode(q) => p = q
BY DEF Aliased

(* Once the walk rests, everything the walks of the mounts so far could    *)
(* get to is dealt with: else the nearest such path has a directory that   *)
(* is dealt with, so was met, so was opened, so was read to its end.       *)
LEMMA RestIsComplete ==
  ASSUME TypeOK, Started, Progress, Idle,
         NEW i \in 1 .. next - 1, NEW e \in Paths,
         ~Shadowed(Targets[i]), Walkable(Targets[i], e), e # Targets[i]
  PROVE  Handled(Targets[i], e)
<1> DEFINE t == Targets[i]
<1>1. /\ t \in TargetSet /\ t \in Dirs /\ t \in Paths /\ t \notin Gone /\ Met(t)
      /\ t \in Up[e] /\ Walkable(t, e) /\ e # t
  BY TargetFacts DEF TypeOK, Started, Walkable
<1>2. Kept(t) /\ LookedAt(t) /\ ~(\E f \in Frames : Waits(f)) /\ dir = Absent
  BY <1>1 DEF Progress, Idle, Waits
<1> HIDE DEF t
<1> DEFINE S == {q \in Paths : t \in Above[q] /\ Walkable(t, q) /\ ~Handled(t, q)}
<1>3. Upward(S)
  <2> SUFFICES ASSUME NEW q \in S, q # Root PROVE Parent[q] \in S
    BY DEF Upward
  <2> DEFINE d == Parent[q]
  <2>1. d \in Dirs /\ d \in Paths /\ q \in Entries(d) /\ q \in Paths /\ t # q
    BY <1>1, ScanAssumption DEF Entries
  <2>2. /\ t \in Up[d] /\ Walkable(t, d) /\ d \notin Unreadable
        /\ host.privileged[t] \/ Way(t, d) \cap Pruned = {}
    BY <1>1, <2>1, WalkableParent
  <2>3. ~Read(d)
    BY <1>2, <2>1 DEF LookedAt, Pending
  <2>4. ~Met(d)
    BY <1>2, <2>1, <2>2, <2>3 DEF Kept
  <2>5. d # t /\ t \in Above[d]
    BY <1>1, <2>1, <2>2, <2>4, UpStep
  <2> QED
    BY <2>1, <2>2, <2>4, <2>5 DEF Handled
<1>4. CASE e \in S
  <2>1. Up[e] \subseteq S
    BY <1>3, <1>4, UpLeast
  <2>2. t \in S
    BY <1>1, <2>1
  <2> QED
    BY <1>1, <2>2, ScanAssumption
<1>5. t \in Above[e]
  BY <1>1, UpStep
<1> QED
  BY <1>1, <1>4, <1>5 DEF t

LEMMA StepStarted ==
  ASSUME TypeOK, Started, Ended, [Next]_vars
  PROVE  Started' /\ Ended'
<1>0. /\ Gone' = Gone /\ (\A p : Inode(p)' = Inode(p))
      /\ next \in 1 .. Len(Targets) + 1 /\ Len(Targets) \in Nat
  BY HostStays, SameHost, TargetFacts DEF TypeOK
<1>1. ASSUME next' = next, visited \subseteq visited' PROVE Started'
  BY <1>0, <1>1 DEF Started, Met
<1>2. ASSUME next' = next + 1, visited \subseteq visited',
             Targets[next] \in Gone \/ Inode(Targets[next]) \in visited'
      PROVE  Started'
  <2> SUFFICES ASSUME NEW i \in 1 .. next, Targets[i] \notin Gone
               PROVE  Inode(Targets[i]) \in visited'
    BY <1>0, <1>2 DEF Started, Met
  <2>1. CASE i = next
    BY <1>2, <2>1
  <2>2. CASE i # next
    <3>1. i \in 1 .. next - 1
      BY <1>0, <2>2
    <3> QED
      BY <1>2, <3>1 DEF Started, Met
  <2> QED
    BY <2>1, <2>2
<1>3. CASE SkipTarget
  <2>1. verdict' = verdict /\ verdict = Absent
    BY <1>0, <1>3 DEF SkipTarget, Ended
  <2>2. Started'
    BY <1>2, <1>3 DEF SkipTarget
  <2> QED
    BY <2>1, <2>2 DEF Ended
<1>4. CASE StartTarget
  <2>1. verdict' = verdict /\ verdict = Absent
    BY <1>0, <1>4 DEF StartTarget, Ended
  <2>2. Started'
    BY <1>2, <1>4 DEF StartTarget
  <2> QED
    BY <2>1, <2>2 DEF Ended
<1>5. CASE CannotOpen \/ Open \/ Close
  BY <1>1, <1>5 DEF CannotOpen, Open, Close, Ended, Idle
<1>6. CASE Report
  BY <1>1, <1>6 DEF Report, walk, Ended, Idle
<1>7. ASSUME NEW e \in left, PassOver(e) \/ LookAtFile(e) \/ LookAtDir(e) PROVE Started' /\ Ended'
  BY <1>1, <1>7 DEF PassOver, LookAtFile, LookAtDir, Descend, Ended, Idle
<1>8. CASE UNCHANGED vars
  BY <1>1, <1>8 DEF vars, walk, Ended, Idle
<1> QED
  BY <1>3, <1>4, <1>5, <1>6, <1>7, <1>8 DEF Next

(* A step that starts, opens and looks at nothing leaves the progress be.  *)
LEMMA QuietProgress ==
  ASSUME Progress, host' = host,
         UNCHANGED <<stack, mount, visited, opened, judged, inventory>>,
         UNCHANGED <<dir, left>> \/ (left = {} /\ dir' = Absent)
  PROVE  Progress'
<1> SUFFICES ASSUME NEW t \in TargetSet, ~Shadowed(t)
             PROVE  OwnWalk(t)' /\ Kept(t)' /\ LookedAt(t)'
  BY SameHost DEF Progress
<1>1. OwnWalk(t) /\ Kept(t) /\ LookedAt(t)
  BY DEF Progress
<1>2. OwnWalk(t)'
  BY <1>1, SameHost, WaitsStay DEF OwnWalk
<1>3. Kept(t)'
  BY <1>1, SameHost, WaitsStay DEF Kept, Met, Read, Way
<1>4. LookedAt(t)'
  BY <1>1, SameHost DEF LookedAt, Pending, Handled, Met, Read, Way
<1> QED
  BY <1>2, <1>3, <1>4

(* A mount is started only where no earlier walk could have gone.          *)
LEMMA StartProgress ==
  ASSUME TypeOK, Started, Progress, StartTarget, ~Aliased
  PROVE  Progress'
<1> DEFINE s == Targets[next]
           new == [path |-> s, pruned |-> FALSE]
<1>1. /\ s \in TargetSet /\ s \in Dirs /\ s \in Paths /\ ~Met(s) /\ mount' = s /\ host' = host
      /\ next \in 1 .. Len(Targets) /\ Idle /\ dir = Absent /\ dir' = Absent
      /\ visited' = visited \cup {Inode(s)} /\ UNCHANGED <<opened, judged, inventory>>
  BY TargetFacts DEF StartTarget, TypeOK, Met, Idle
<1>2. new \in Frames /\ new.path = s /\ (\A f : Waits(f)' <=> f = new)
  <2>1. new \in Frames /\ new.path = s
    BY <1>1 DEF Frames
  <2>2. stack' = <<new>>
    BY DEF StartTarget
  <2> HIDE DEF new
  <2>3. 1 .. Len(stack') = {1} /\ stack'[1] = new
    BY <2>2
  <2> QED
    BY <2>1, <2>3 DEF Waits
<1>3. ~(\E f \in Frames : Waits(f))
  BY <1>1 DEF Idle, Waits
<1> HIDE DEF new
<1> SUFFICES ASSUME NEW t \in TargetSet, ~Shadowed(t)
             PROVE  OwnWalk(t)' /\ Kept(t)' /\ LookedAt(t)'
  BY <1>1, SameHost DEF Progress
<1>4. OwnWalk(t) /\ Kept(t) /\ LookedAt(t)
  BY DEF Progress
<1>5. ASSUME Walkable(t, s) PROVE t = s
  <2> SUFFICES ASSUME t # s PROVE FALSE
    OBVIOUS
  <2>1. t \in Above[s]
    BY <1>1, <1>5, UpStep DEF Walkable
  <2>2. PICK i \in DOMAIN Targets : t = Targets[i]
    BY DEF TargetSet
  <2>3. i < next
    BY <1>1, <2>1, <2>2, TargetFacts, ScanAssumption
  <2>4. i \in 1 .. next - 1
    BY <1>1, <2>2, <2>3, TargetFacts
  <2>5. Handled(t, s)
    BY <1>1, <1>5, <2>2, <2>4, RestIsComplete
  <2> QED
    BY <1>1, <2>5 DEF Handled
<1>6. OwnWalk(t)'
  BY <1>1, <1>2, <1>5, SameHost DEF OwnWalk
<1>7. Kept(t)'
  <2> SUFFICES ASSUME NEW d \in Dirs, Walkable(t, d), d \notin Unreadable, Inode(d) \in visited',
                      host.privileged[t] \/ Way(t, d) \cap Pruned = {}
               PROVE  Inode(d) \in opened \/ d = s
    BY <1>1, <1>2, SameHost DEF Kept, Met, Read, Way
  <2>1. d \in Paths
    BY TargetFacts
  <2>2. CASE Inode(d) = Inode(s)
    BY <1>1, <2>1, <2>2, Unaliased
  <2>3. CASE Met(d)
    BY <1>3, <1>4, <2>3 DEF Kept, Read
  <2> QED
    BY <1>1, <2>2, <2>3 DEF Met
<1>8. LookedAt(t)'
  BY <1>1, <1>4, SameHost DEF LookedAt, Pending, Handled, Met, Read, Way
<1> QED
  BY <1>6, <1>7, <1>8

LEMMA OpenProgress ==
  ASSUME TypeOK, Positions, Progress, Open \/ CannotOpen, ~Aliased
  PROVE  Progress'
<1>1. /\ stack # <<>> /\ Pop /\ dir = Absent /\ host' = host
      /\ UNCHANGED <<mount, visited, judged, inventory>>
  BY DEF Open, CannotOpen
<1>2. /\ Top \in Frames /\ Waits(Top) /\ Top.path \in Dirs
      /\ \A f : Waits(f)' => Waits(f)
      /\ \A f : Waits(f) => Waits(f)' \/ f = Top
  BY <1>1, WaitsPop DEF Frames
<1> SUFFICES ASSUME NEW t \in TargetSet, ~Shadowed(t)
             PROVE  OwnWalk(t)' /\ Kept(t)' /\ LookedAt(t)'
  BY <1>1, SameHost DEF Progress
<1>3. OwnWalk(t) /\ Kept(t) /\ LookedAt(t)
  BY DEF Progress
<1>4. OwnWalk(t)'
  <2>1. dir' # Absent => dir' = Top
    BY <1>1 DEF Open, CannotOpen
  <2> QED
    BY <1>1, <1>2, <1>3, <2>1, SameHost DEF OwnWalk
<1>5. Kept(t)'
  <2> SUFFICES ASSUME NEW d \in Dirs, Walkable(t, d), d \notin Unreadable, Met(d),
                      host.privileged[t] \/ Way(t, d) \cap Pruned = {}
               PROVE  Inode(d) \in opened' \/ \E f \in Frames : Waits(f)' /\ f.path = d
    BY <1>1, SameHost DEF Kept, Met, Read, Way
  <2>1. CASE Read(d)
    BY <2>1 DEF Open, CannotOpen, Read
  <2>2. ASSUME NEW f \in Frames, Waits(f), f.path = d, ~Waits(f)'
        PROVE  Inode(d) \in opened'
    <3>1. f = Top
      BY <1>2, <2>2
    <3> QED
      BY <2>2, <3>1 DEF Open, CannotOpen
  <2> QED
    BY <1>3, <2>1, <2>2 DEF Kept
<1>6. LookedAt(t)'
  <2> SUFFICES ASSUME NEW e \in Paths, Walkable(t, e), e # t, Inode(Parent[e]) \in opened', ~Pending(e)'
               PROVE  Handled(t, e)
    BY <1>1, SameHost DEF LookedAt, Handled, Met, Read, Way
  <2>1. e # Root /\ Parent[e] \in Paths
    BY UpStep, ScanAssumption DEF Walkable, Above
  <2>2. CASE Read(Parent[e])
    BY <1>1, <1>3, <2>2 DEF LookedAt, Pending
  <2>3. CASE Open /\ Inode(Parent[e]) = Inode(Top.path)
    <3>1. Parent[e] = Top.path
      BY <1>2, <2>1, <2>3, Unaliased, TargetFacts
    <3>2. dir' = Top /\ e \in left' /\ dir' # Absent
      BY <1>2, <2>1, <2>3, <3>1, ScanAssumption DEF Open, Entries, Frames
    <3> QED
      BY <3>1, <3>2 DEF Pending
  <2> QED
    BY <2>2, <2>3 DEF Open, CannotOpen, Read
<1> QED
  BY <1>4, <1>5, <1>6

LEMMA LeftFacts ==
  ASSUME TypeOK, Positions, Progress, dir # Absent, NEW e \in left,
         NEW t \in TargetSet, ~Shadowed(t), Walkable(t, e), t # e
  PROVE  /\ mount = t /\ e \notin Gone /\ e \notin Guest /\ Device(e) = Device(mount)
         /\ host.privileged[t] \/ ~dir.pruned
<1>1. dir.path \in Dirs /\ e \in Entries(dir.path) /\ t \in Paths /\ Place(mount, dir)
  BY TargetFacts DEF TypeOK, Positions, Frames
<1>2. /\ Walkable(t, dir.path) /\ e \notin Gone /\ e \notin Guest /\ Device(e) = Device(t)
      /\ host.privileged[t] \/ Way(t, dir.path) \cap Pruned = {}
  BY <1>1, WalkableParent
<1>3. mount = t
  BY <1>2 DEF Progress, OwnWalk
<1> QED
  BY <1>1, <1>2, <1>3 DEF Place

LEMMA PassProgress ==
  ASSUME TypeOK, Positions, Progress, NEW e \in left, PassOver(e)
  PROVE  Progress'
<1>1. /\ dir # Absent /\ Passed(e) /\ left' = left \ {e} /\ host' = host
      /\ UNCHANGED <<stack, mount, dir, visited, opened, judged, inventory>>
  BY DEF PassOver
<1> SUFFICES ASSUME NEW t \in TargetSet, ~Shadowed(t)
             PROVE  OwnWalk(t)' /\ Kept(t)' /\ LookedAt(t)'
  BY <1>1, SameHost DEF Progress
<1>2. OwnWalk(t) /\ Kept(t) /\ LookedAt(t)
  BY DEF Progress
<1>3. OwnWalk(t)' /\ Kept(t)'
  BY <1>1, <1>2, SameHost, WaitsStay DEF OwnWalk, Kept, Met, Read, Way
<1>4. ~(Walkable(t, e) /\ t # e)
  BY <1>1, LeftFacts DEF Passed
<1>5. LookedAt(t)'
  BY <1>1, <1>2, <1>4, SameHost DEF LookedAt, Pending, Handled, Met, Read, Way
<1> QED
  BY <1>3, <1>5

(* Looking at an entry deals with it; a directory met on the way is kept   *)
(* for its walk, which is the present one.                                 *)
LEMMA LookProgress ==
  ASSUME TypeOK, Positions, Progress, NEW e \in left, Looks(e), ~Aliased
  PROVE  Progress'
<1> DEFINE flag == dir.pruned \/ e \in Pruned
           new == [path |-> e, pruned |-> flag]
<1>1. /\ dir # Absent /\ dir \in Frames /\ dir.path \in Dirs /\ e \in Entries(dir.path)
      /\ e \in Paths /\ mount \in TargetSet /\ mount \in Paths /\ mount \in Above[e]
      /\ flag <=> Way(mount, e) \cap Pruned # {}
      /\ Judge(e, flag) /\ left' = left \ {e} /\ host' = host
      /\ UNCHANGED <<mount, dir, opened>> /\ flag \in BOOLEAN
  BY LookFacts DEF Frames
<1>2. /\ judged \subseteq judged' /\ inventory \subseteq inventory' /\ visited \subseteq visited'
      /\ General /\ ~flag => e \in judged'
      /\ e \notin Dirs /\ Privileged => e \in inventory'
      /\ e \in Dirs => Inode(e) \in visited'
  BY <1>1 DEF Looks, LookAtFile, LookAtDir, Judge, Descend
<1>3. \/ stack' = stack /\ visited' = visited
      \/ /\ e \in Dirs /\ visited' = visited \cup {Inode(e)}
         /\ (stack' = stack /\ flag /\ ~Privileged) \/ Push(e, flag)
  BY DEF Looks, LookAtFile, LookAtDir, Descend
<1>4. new.path = e /\ (e \in Dirs => new \in Frames)
  BY <1>1 DEF Frames
<1>5. \/ visited' = visited /\ \A f : Waits(f)' <=> Waits(f)
      \/ /\ e \in Dirs /\ visited' = visited \cup {Inode(e)}
         /\ \/ flag /\ ~Privileged /\ \A f : Waits(f)' <=> Waits(f)
            \/ \A f : Waits(f)' <=> Waits(f) \/ f = new
  <2>1. Push(e, flag) /\ e \in Dirs => \A f : Waits(f)' <=> Waits(f) \/ f = new
    BY <1>1, WaitsPush
  <2>2. stack' = stack => \A f : Waits(f)' <=> Waits(f)
    BY WaitsStay
  <2> HIDE DEF flag, new
  <2> QED
    BY <1>3, <2>1, <2>2, Zenon
<1> HIDE DEF flag, new
<1>6. Shadowed(e)
  BY <1>1, LookFacts, ArrivesMeans, ScanAssumption DEF Shadowed
<1> SUFFICES ASSUME NEW t \in TargetSet, ~Shadowed(t)
             PROVE  OwnWalk(t)' /\ Kept(t)' /\ LookedAt(t)'
  BY <1>1, SameHost DEF Progress
<1>7. OwnWalk(t) /\ Kept(t) /\ LookedAt(t)
  BY DEF Progress
<1>8. Walkable(t, e) => mount = t
  BY <1>1, <1>6, LeftFacts
<1>9. OwnWalk(t)'
  BY <1>1, <1>4, <1>5, <1>7, <1>8, SameHost DEF OwnWalk
<1>10. Kept(t)'
  <2> SUFFICES ASSUME NEW d \in Dirs, Walkable(t, d), d \notin Unreadable, Inode(d) \in visited',
                      host.privileged[t] \/ Way(t, d) \cap Pruned = {}
               PROVE  Inode(d) \in opened \/ \E f \in Frames : Waits(f)' /\ f.path = d
    BY <1>1, SameHost DEF Kept, Met, Read, Way
  <2>1. CASE Met(d)
    BY <1>5, <1>7, <2>1 DEF Kept, Read
  <2>2. CASE ~Met(d)
    <3>1. Inode(d) = Inode(e)
      BY <1>5, <2>2 DEF Met
    <3>2. d = e
      BY <1>1, <3>1, Unaliased, TargetFacts
    <3>3. ~(flag /\ ~Privileged)
      BY <1>1, <1>8, <3>2 DEF Privileged
    <3> QED
      BY <1>4, <1>5, <2>2, <3>2, <3>3 DEF Met
  <2> QED
    BY <2>1, <2>2
<1>11. LookedAt(t)'
  <2> SUFFICES ASSUME NEW q \in Paths, Walkable(t, q), q # t, Read(Parent[q]),
                      ~(dir.path = Parent[q] /\ q \in left \ {e})
               PROVE  /\ host.general[t] /\ Way(t, q) \cap Pruned = {} => q \in judged'
                      /\ q \notin Dirs /\ host.privileged[t] => q \in inventory'
                      /\ q \in Dirs => Inode(q) \in visited'
    BY <1>1, SameHost DEF LookedAt, Pending, Handled, Met, Read, Way
  <2>1. CASE q = e
    BY <1>1, <1>2, <1>8, <2>1 DEF General, Privileged
  <2>2. CASE q # e
    <3>1. Handled(t, q)
      BY <1>7, <2>2 DEF LookedAt, Pending
    <3> QED
      BY <1>2, <3>1 DEF Handled, Met
  <2> QED
    BY <2>1, <2>2
<1> QED
  BY <1>9, <1>10, <1>11

LEMMA StepProgress ==
  ASSUME TypeOK, Positions, Started, Progress, ~Aliased, [Next]_vars
  PROVE  Progress'
<1>1. CASE SkipTarget
  BY <1>1, QuietProgress DEF SkipTarget
<1>2. CASE Close
  BY <1>2, QuietProgress DEF Close
<1>3. CASE Report \/ UNCHANGED vars
  <2>1. UNCHANGED <<host, walk, judged, inventory>>
    BY <1>3 DEF Report, vars
  <2> QED
    BY <2>1, QuietProgress DEF walk
<1>4. CASE StartTarget \/ Open \/ CannotOpen
  BY <1>4, StartProgress, OpenProgress
<1>5. ASSUME NEW e \in left, PassOver(e) \/ Looks(e) PROVE Progress'
  BY <1>5, PassProgress, LookProgress
<1> QED
  BY <1>1, <1>2, <1>3, <1>4, <1>5 DEF Next, Looks

CompleteInv == Inv /\ Started /\ Ended /\ (~Aliased => Progress)

LEMMA CompleteInvariance == Spec => []CompleteInv
<1>1. Init /\ Inv => CompleteInv
  <2> SUFFICES ASSUME Init, Inv PROVE Started /\ Ended /\ Progress
    BY DEF CompleteInv
  <2>1. ~(\E f \in Frames : Waits(f))
    BY DEF Init, Waits
  <2> QED
    BY <2>1 DEF Init, Started, Ended, Progress, OwnWalk, Kept, LookedAt, Met, Read
<1>2. CompleteInv /\ Inv' /\ [Next]_vars => CompleteInv'
  <2> SUFFICES ASSUME CompleteInv, Inv', [Next]_vars PROVE CompleteInv'
    OBVIOUS
  <2>1. Started' /\ Ended'
    BY StepStarted DEF CompleteInv, Inv
  <2>2. Aliased' <=> Aliased
    BY HostStays DEF Aliased, Inode
  <2>3. ~Aliased => Progress'
    BY StepProgress DEF CompleteInv, Inv
  <2> QED
    BY <2>1, <2>2, <2>3 DEF CompleteInv
<1> QED
  BY <1>1, <1>2, Invariance, PTL DEF Spec

(* When the walk is over, each path that the walk of an unshadowed mount   *)
(* gets to is dealt with.                                                  *)
LEMMA EndIsComplete ==
  ASSUME CompleteInv, verdict # Absent, ~Aliased,
         NEW t \in TargetSet, ~Shadowed(t), NEW e \in Paths, Walkable(t, e), t # e
  PROVE  Handled(t, e)
<1>1. Idle /\ next = Len(Targets) + 1
  BY DEF CompleteInv, Ended
<1>2. PICK i \in 1 .. next - 1 : t = Targets[i]
  BY <1>1, TargetFacts DEF TargetSet
<1> QED
  BY <1>1, <1>2, RestIsComplete DEF CompleteInv, Inv

LEMMA ReachableIsWalkable ==
  ASSUME NEW t \in TargetSet, NEW p \in Paths, Reachable(t, p),
         host.privileged[t] \/ Way(t, p) \cap Pruned = {}
  PROVE  Walkable(t, p) /\ t # p
BY ArrivesMeans, TargetFacts DEF Arrives

(* Without bind mounts, and whatever the order of the entries, all that is *)
(* reachable below a general mount and no prune has been judged when the   *)
(* verdict falls, unless the mount lies within the walk of another         *)
(* (filesystem.py:247-307).                                                *)
THEOREM EverythingJudgedHolds == Spec => []EverythingJudged
<1>1. CompleteInv => EverythingJudged
  BY EndIsComplete, ReachableIsWalkable DEF EverythingJudged, Handled
<1> QED
  BY <1>1, CompleteInvariance, PTL

(* And every file below a privileged mount is in the inventory, pruned or  *)
(* not (filesystem.py:298-307).                                            *)
THEOREM EverythingInventoriedHolds == Spec => []EverythingInventoried
<1>1. CompleteInv => EverythingInventoried
  BY EndIsComplete, ReachableIsWalkable DEF EverythingInventoried, Handled
<1> QED
  BY <1>1, CompleteInvariance, PTL
=============================================================================
