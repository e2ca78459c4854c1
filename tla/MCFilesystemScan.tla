------------------------- MODULE MCFilesystemScan ---------------------------
(* / with /a, /a/d, /a/d/f, /b, /b/d and /b/d/f, where /b is a mount: of a *)
(* device of its own, a bind mount of /a, or a part of the device of / that *)
(* has no other name.                                                      *)
EXTENDS FilesystemScan

MCPaths == {"/", "/a", "/a/d", "/a/d/f", "/b", "/b/d", "/b/d/f"}
MCDirs == MCPaths \ {"/a/d/f", "/b/d/f"}
MCParent == [p \in MCPaths \ {"/"} |->
  CASE p = "/a" -> "/" [] p = "/a/d" -> "/a" [] p = "/a/d/f" -> "/a/d"
    [] p = "/b" -> "/" [] p = "/b/d" -> "/b" [] p = "/b/d/f" -> "/b/d"]
MCTargets == <<"/", "/b">>
OnB == {"/b", "/b/d", "/b/d/f"}

OwnDevice == [inode |-> [p \in MCPaths |-> p],
              device |-> [p \in MCPaths |-> IF p \in OnB THEN "sdb" ELSE "sda"]]
Bind == [inode |-> [p \in MCPaths |->
                     CASE p = "/b" -> "/a" [] p = "/b/d" -> "/a/d" [] p = "/b/d/f" -> "/a/d/f"
                       [] OTHER -> p],
         device |-> [p \in MCPaths |-> "sda"]]
SameDevice == [OwnDevice EXCEPT !.device = [p \in MCPaths |-> "sda"]]
MCLayouts == {OwnDevice, Bind, SameDevice}
BindLayouts == {OwnDevice, Bind}

(* A pruned path or none, and one path of another kind of trouble or none. *)
NoTrouble == [pruned |-> {}, guest |-> {}, unreadable |-> {}, gone |-> {}]
One(set) == {{}} \cup {{p} : p \in set}
MCTroubles ==
  {[t EXCEPT !.pruned = s] :
     s \in One(MCPaths),
     t \in {NoTrouble}
          \cup {[NoTrouble EXCEPT !.guest = {d}] : d \in MCDirs \ {"/"}}
          \cup {[NoTrouble EXCEPT !.unreadable = {d}] : d \in MCDirs}
          \cup {[NoTrouble EXCEPT !.gone = {q}] : q \in MCPaths}}
=============================================================================
