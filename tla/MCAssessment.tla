---------------------------- MODULE MCAssessment ----------------------------
(* Hosts, installed benchmarks and command lines for Assessment. *)
EXTENDS Assessment

Linux(id, like, version) ==
  [vmkernel |-> FALSE, files |-> {}, vmware |-> Absent, esxcli |-> Absent, release |-> <<>>, packages |-> {}, graphical |-> FALSE,
   pve |-> FALSE, root |-> TRUE, os_release |-> [id |-> id, like |-> like, version |-> version]]
Esxi(vmware, esxcli) ==
  [Linux("", {}, <<>>) EXCEPT !.files = {"esx.conf", "esxcli"}, !.vmware = vmware, !.esxcli = esxcli, !.os_release = Absent]
MCHosts ==
  {Linux("debian", {}, <<13>>), [Linux("debian", {}, <<13>>) EXCEPT !.packages = {"gdm3", "pve-manager"}, !.root = FALSE],
   [Linux("debian", {}, <<12>>) EXCEPT !.packages = Absent, !.graphical = TRUE], Linux("mint", {"ubuntu", "debian"}, <<21, 3>>),
   Linux("ubuntu", {"debian"}, <<24, 4>>), Linux("rocky", {"rhel"}, <<9, 4>>), [Linux("", {}, <<>>) EXCEPT !.os_release = Absent],
   Esxi(<<8, 0, 2>>, Absent), Esxi(Absent, <<6, 7, 0>>), [Esxi(Absent, Absent) EXCEPT !.vmkernel = TRUE]}

Level(l, k) == [level |-> l, kind |-> k]
Servers == {Level(1, "Server"), Level(2, "Server")}
Both == Servers \cup {Level(1, "Workstation"), Level(2, "Workstation")}
Levels == {Level(1, ""), Level(2, "")}
Control(n, s, v, p) == [id |-> n, cis_id |-> n, section |-> s, severity |-> v, profiles |-> p, automated |-> TRUE, complete |-> TRUE]
Manual(n, s, p) == [Control(n, s, "Informational", p) EXCEPT !.automated = FALSE]
Controls(p1, p2) == <<Control("1", "setup", "Medium", p1), Control("2", "access", "High", p2), Control("3", "setup", "Medium", p1 \cup p2)>>
Entry(os, ids, v, p, c, m) ==
  [os_id |-> os, version_ids |-> ids, version |-> v, profiles |-> p, controls |-> c, manuals |-> m, declared |-> Len(c), readable |-> TRUE]
Debian(ids, v) == Entry("debian", ids, v, Both, Controls({Level(1, "Server")}, Both), <<Manual("4", "network", Both)>>)
Ubuntu(ids) == Entry("ubuntu", ids, <<1, 0>>, Servers, Controls(Servers, {Level(2, "Server")}), <<>>)
Esx(n, v) == Entry("esxi", {<<n>>}, v, Levels, Controls({Level(1, "")}, {Level(2, "")}), <<Manual("1", "host", Levels)>>)
MCCatalogs ==
  {<<Debian({<<13>>}, <<1, 1, 0>>), Esx(7, <<1, 6>>), Esx(8, <<1, 4>>)>>,
   <<Debian({<<13>>}, <<1, 1>>), Debian({<<13>>}, <<1, 1, 1>>), Debian({<<13>>}, <<1, 0, 9>>), Esx(8, <<1, 4, 1>>), Esx(8, <<1, 4>>)>>,
   <<Debian({<<11>>, <<12>>}, <<2, 0>>), Ubuntu({<<22, 4>>}), Ubuntu({<<24, 4>>}), Debian({}, <<1, 0>>)>>,
   <<Esx(8, <<1, 4>>)>>, <<>>,
   <<[Debian({<<13>>}, <<1, 1>>) EXCEPT !.declared = 2]>>,
   <<[Debian({<<13>>}, <<1, 1>>) EXCEPT !.controls[2].cis_id = "1"]>>}

Plain == [path |-> Absent, profile |-> Level(2, ""), manual |-> TRUE, section |-> "", list |-> FALSE, asks |-> FALSE, named |-> TRUE]
MCOptions ==
  {Plain, [Plain EXCEPT !.profile.level = 1, !.manual = FALSE, !.asks = TRUE], [Plain EXCEPT !.profile = Level(1, "Workstation")],
   [Plain EXCEPT !.section = "access"], [Plain EXCEPT !.list = TRUE], [Plain EXCEPT !.profile = Absent], [Plain EXCEPT !.named = FALSE],
   [Plain EXCEPT !.path = Esx(7, <<1, 6>>)], [Plain EXCEPT !.path = [Ubuntu({<<24, 4>>}) EXCEPT !.readable = FALSE]]}
=============================================================================
