--------------------------- MODULE FilesystemScan ---------------------------
(***************************************************************************)
(* filesystem_scan of lsa/checks/filesystem.py: one walk over all selected *)
(* mounts, serving the world-writable and ownership checks ("general") and *)
(* the set-uid inventory ("privileged"), and the verdict drawn from it.    *)
(*                                                                         *)
(* Paths form a tree; two paths are one directory or file when their       *)
(* inodes are equal, as under a bind mount.  The walk is depth first from  *)
(* each mount point in turn, on the mount's own device, never twice into   *)
(* one inode.  Which entry scandir yields next is not determined.          *)
(***************************************************************************)
EXTENDS Naturals, Sequences

CONSTANTS
  Paths, Root,
  Parent,      \* [Paths \ {Root} -> Dirs]
  Dirs,        \* the paths that are directories; the others are files
  Targets,     \* the mount points selected, as a sequence in sorted order
  Devices,
  Layouts,     \* the layouts of the tree considered: inode and device of each path
  Troubles,    \* the sets of paths in each kind of trouble considered
  Absent

TargetSet == {Targets[i] : i \in DOMAIN Targets}

(* p and the directories above it: the least set that holds p and, with a  *)
(* path, its parent.                                                       *)
Up == [p \in Paths |->
  {q \in Paths : \A S \in SUBSET Paths :
     p \in S /\ (\A r \in S \ {Root} : Parent[r] \in S) => q \in S}]

Above == [p \in Paths |-> IF p = Root THEN {} ELSE Up[Parent[p]]]

(* The paths form a tree, and a mount point sorts behind those above it.   *)
ASSUME ScanAssumption ==
  /\ Root \in Dirs /\ Dirs \subseteq Paths
  /\ Parent \in [Paths \ {Root} -> Dirs]
  /\ \A p \in Paths : p \notin Above[p]
  /\ Targets \in Seq(Dirs)
  /\ \A i, j \in DOMAIN Targets : Targets[i] \in Above[Targets[j]] => i < j
  /\ Layouts \subseteq [inode: [Paths -> Paths], device: [Paths -> Devices]]
  /\ Troubles \subseteq [pruned: SUBSET Paths, guest: SUBSET Dirs,
                          unreadable: SUBSET Dirs, gone: SUBSET Paths]
  /\ Absent \notin Paths \cup {"PASS", "FAIL"} \cup [path: Dirs, pruned: BOOLEAN]

VARIABLES
  host,      \* the host as it is during the walk, see Hosts
  next,      \* index of the next mount point
  mount,     \* the mount being walked, or Absent
  stack,     \* directories to open, each with whether it lies below a prune
  dir,       \* the directory being read, with the same flag, or Absent
  left,      \* its entries not looked at yet
  visited,   \* inodes of the directories met
  opened,    \* history: inodes of the directories opened
  judged,    \* paths given to the world-writable and ownership tests
  inventory, \* files given to the set-uid test
  errors,    \* paths that could not be read
  verdict    \* of world_writable, or Absent

walk == <<next, mount, stack, dir, left, visited, opened>>
vars == <<host, walk, judged, inventory, errors, verdict>>

(* pruned: paths matching a prune pattern; guest: directories of container *)
(* volumes; unreadable: scandir fails; gone: stat fails.                   *)
Hosts ==
  [layout: Layouts, trouble: Troubles,
   general: [TargetSet -> BOOLEAN], privileged: [TargetSet -> BOOLEAN]]

Frames == [path: Dirs, pruned: BOOLEAN]

TypeOK ==
  /\ host \in Hosts
  /\ next \in 1 .. Len(Targets) + 1
  /\ mount \in TargetSet \cup {Absent}
  /\ stack \in Seq(Frames)
  /\ dir \in Frames \cup {Absent}
  /\ left \subseteq Paths
  /\ visited \subseteq Paths /\ opened \subseteq visited
  /\ judged \subseteq Paths /\ inventory \subseteq Paths \ Dirs
  /\ errors \subseteq Dirs
  /\ verdict \in {"PASS", "FAIL", Absent}

Init ==
  /\ host \in Hosts
  /\ \A t \in TargetSet : host.general[t] \/ host.privileged[t]
  /\ next = 1 /\ mount = Absent /\ stack = <<>> /\ dir = Absent /\ left = {}
  /\ visited = {} /\ opened = {}
  /\ judged = {} /\ inventory = {} /\ errors = {}
  /\ verdict = Absent

Pruned == host.trouble.pruned
Guest == host.trouble.guest
Unreadable == host.trouble.unreadable
Gone == host.trouble.gone
Inode(p) == host.layout.inode[p]
Device(p) == host.layout.device[p]
Entries(d) == {p \in Paths \ {Root} : Parent[p] = d}
General == host.general[mount]
Privileged == host.privileged[mount]

Idle == stack = <<>> /\ dir = Absent

-----------------------------------------------------------------------------
(* The mount point cannot be examined, or its directory was met already.   *)
SkipTarget ==
  /\ Idle /\ next <= Len(Targets)
  /\ \/ Targets[next] \in Gone /\ errors' = errors \cup {Targets[next]}
     \/ /\ Targets[next] \notin Gone /\ Inode(Targets[next]) \in visited
        /\ UNCHANGED errors
  /\ next' = next + 1
  /\ UNCHANGED <<host, mount, stack, dir, left, visited, opened, judged, inventory, verdict>>

StartTarget ==
  /\ Idle /\ next <= Len(Targets)
  /\ Targets[next] \notin Gone /\ Inode(Targets[next]) \notin visited
  /\ mount' = Targets[next]
  /\ visited' = visited \cup {Inode(Targets[next])}
  /\ stack' = <<[path |-> Targets[next], pruned |-> FALSE]>>
  /\ next' = next + 1
  /\ UNCHANGED <<host, dir, left, opened, judged, inventory, errors, verdict>>

Top == stack[Len(stack)]
Pop == stack' = SubSeq(stack, 1, Len(stack) - 1)

CannotOpen ==
  /\ dir = Absent /\ stack # <<>> /\ Pop
  /\ Top.path \in Unreadable
  /\ errors' = errors \cup {Top.path}
  /\ UNCHANGED <<host, next, mount, dir, left, visited, opened, judged, inventory, verdict>>

Open ==
  /\ dir = Absent /\ stack # <<>> /\ Pop
  /\ Top.path \notin Unreadable
  /\ dir' = Top
  /\ left' = Entries(Top.path)
  /\ opened' = opened \cup {Inode(Top.path)}
  /\ UNCHANGED <<host, next, mount, visited, judged, inventory, errors, verdict>>

Close ==
  /\ dir # Absent /\ left = {}
  /\ dir' = Absent
  /\ UNCHANGED <<host, next, mount, stack, left, visited, opened, judged, inventory, errors, verdict>>

Passed(e) ==
  e \in Gone \/ Device(e) # Device(mount) \/ (e \in Dirs /\ e \in Guest)

(* Bug: the directory is noted as visited before its device is looked at.  *)
PassOverMarked(e) ==
  /\ dir # Absent /\ e \in left /\ Passed(e)
  /\ left' = left \ {e}
  /\ visited' = visited \cup (IF e \in Dirs THEN {Inode(e)} ELSE {})
  /\ UNCHANGED <<host, next, mount, stack, dir, opened, judged, inventory, errors, verdict>>

(* stat fails, another device, or a container volume: nothing is recorded. *)
PassOver(e) ==
  /\ dir # Absent /\ e \in left /\ Passed(e)
  /\ left' = left \ {e}
  /\ UNCHANGED <<host, next, mount, stack, dir, visited, opened, judged, inventory, errors, verdict>>

Judge(e, pruned) ==
  judged' = IF General /\ ~pruned THEN judged \cup {e} ELSE judged

Push(e, pruned) == stack' = Append(stack, [path |-> e, pruned |-> pruned])

LookAtFile(e) ==
  /\ dir # Absent /\ e \in left /\ ~Passed(e) /\ e \notin Dirs
  /\ left' = left \ {e}
  /\ Judge(e, dir.pruned \/ e \in Pruned)
  /\ inventory' = IF Privileged THEN inventory \cup {e} ELSE inventory
  /\ UNCHANGED <<host, next, mount, stack, dir, visited, opened, errors, verdict>>

(* Bug: the directory is noted as visited only when it is opened.          *)
DescendUnmarked(e, pruned) ==
  /\ UNCHANGED visited
  /\ IF pruned /\ ~Privileged THEN UNCHANGED stack ELSE Push(e, pruned)

(* Bug: the pruned part of the tree is left out of the inventory too.      *)
DescendUnpruned(e, pruned) ==
  IF Inode(e) \in visited THEN UNCHANGED <<visited, stack>>
  ELSE /\ visited' = visited \cup {Inode(e)}
       /\ IF pruned THEN UNCHANGED stack ELSE Push(e, pruned)

(* Bug: a directory met by two paths is walked twice.                      *)
DescendAgain(e, pruned) ==
  /\ visited' = visited \cup {Inode(e)}
  /\ IF pruned /\ ~Privileged THEN UNCHANGED stack ELSE Push(e, pruned)

(* Bug: the flag of the parent directory is not handed on.                 *)
DescendForgets(e, pruned) ==
  IF Inode(e) \in visited THEN UNCHANGED <<visited, stack>>
  ELSE /\ visited' = visited \cup {Inode(e)}
       /\ IF pruned /\ ~Privileged THEN UNCHANGED stack ELSE Push(e, FALSE)

Descend(e, pruned) ==
  IF Inode(e) \in visited THEN UNCHANGED <<visited, stack>>
  ELSE /\ visited' = visited \cup {Inode(e)}
       /\ IF pruned /\ ~Privileged THEN UNCHANGED stack ELSE Push(e, pruned)

LookAtDir(e) ==
  /\ dir # Absent /\ e \in left /\ ~Passed(e) /\ e \in Dirs
  /\ left' = left \ {e}
  /\ Judge(e, dir.pruned \/ e \in Pruned)
  /\ Descend(e, dir.pruned \/ e \in Pruned)
  /\ UNCHANGED <<host, next, mount, dir, opened, inventory, errors, verdict>>

(* world_writable and unowned_files: what was found decides, errors do     *)
(* not.  Any of the paths judged may turn out world-writable or unowned.   *)
Report ==
  /\ Idle /\ next = Len(Targets) + 1 /\ verdict = Absent
  /\ \E bad \in BOOLEAN :
       /\ bad => judged # {}
       /\ verdict' = IF bad THEN "FAIL" ELSE "PASS"
  /\ UNCHANGED <<host, walk, judged, inventory, errors>>

Next ==
  \/ SkipTarget \/ StartTarget \/ CannotOpen \/ Open \/ Close \/ Report
  \/ \E e \in left : PassOver(e) \/ LookAtFile(e) \/ LookAtDir(e)

Spec == Init /\ [][Next]_vars
-----------------------------------------------------------------------------
(* The paths met on the way from mount point t down to p, without t.       *)
Way(t, p) == {q \in Above[p] \cup {p} : t \in Above[q]}

(* t's walk can get to p: nothing on the way is on another device, gone, a *)
(* container volume, or a directory that cannot be read.                   *)
Reachable(t, p) ==
  /\ t \in Above[p] /\ t \notin Gone /\ t \notin Unreadable
  /\ \A q \in Way(t, p) :
       /\ Device(q) = Device(t) /\ q \notin Gone /\ q \notin Guest
       /\ q = p \/ q \notin Unreadable

(* The walk of mount s gets to t: it goes below a prune only for the       *)
(* inventory.  If t is a mount too, it is then not walked with its flags.  *)
Arrives(s, t) ==
  Reachable(s, t) /\ (host.privileged[s] \/ (Way(s, t) \ {t}) \cap Pruned = {})
Shadowed(t) == \E s \in TargetSet : Arrives(s, t)

Aliased == \E p, q \in Paths : p # q /\ Inode(p) = Inode(q)

(* Without bind mounts the walk is complete: everything reachable below a  *)
(* general mount and no prune is judged, unless the mount lies within the  *)
(* walk of another on its device (filesystem.py:247-307).                  *)
EverythingJudged ==
  verdict # Absent /\ ~Aliased =>
    \A t \in TargetSet, p \in Paths :
      /\ host.general[t] /\ ~Shadowed(t)
      /\ Reachable(t, p) /\ Way(t, p) \cap Pruned = {}
      => p \in judged

(* And every file below a privileged mount is in the inventory, pruned or  *)
(* not: the prune paths are for the general checks only                    *)
(* (filesystem.py:298-307).                                                *)
EverythingInventoried ==
  verdict # Absent /\ ~Aliased =>
    \A t \in TargetSet, p \in Paths \ Dirs :
      host.privileged[t] /\ ~Shadowed(t) /\ Reachable(t, p) => p \in inventory

(* Nothing below a prune or a container volume raises a finding, whatever  *)
(* the walk does there for the inventory (filesystem.py:284-307).          *)
PrunedIsNotJudged ==
  \A p \in judged : \E t \in TargetSet :
    host.general[t] /\ t \in Above[p] /\ Way(t, p) \cap (Pruned \cup Guest) = {}

(* No directory is read twice, by whatever names it is met, so no file is  *)
(* listed twice under one name and no loop of mounts keeps the walk going  *)
(* (filesystem.py:255-257, 301-304).                                       *)
EachDirOnce ==
  /\ \A i \in 1 .. Len(stack) : Inode(stack[i].path) \notin opened
  /\ \A i, j \in 1 .. Len(stack) : i # j => Inode(stack[i].path) # Inode(stack[j].path)

-----------------------------------------------------------------------------
(* filesystem.py:183-186: "world-writable and ownership checks cover       *)
(* local, non-pseudo filesystems except [...] the CIS prune paths": every  *)
(* file that has a name below a general mount and no prune is judged under *)
(* some name.                                                              *)
EveryFileCovered ==
  verdict # Absent =>
    \A t \in TargetSet, p \in Paths :
      host.general[t] /\ Reachable(t, p) /\ Way(t, p) \cap Pruned = {} =>
        \E q \in judged : Inode(q) = Inode(p)
=============================================================================
