---------------------------- MODULE PackageChecks ----------------------------
(***************************************************************************)
(* The providers of lsa/checks/packages.py: packages, systemd units and    *)
(* APT. Versions are the sequences of characters of DebianVersion.         *)
(***************************************************************************)
EXTENDS HostView, DebianVersion

Matching(e, names) == names \cap DOMAIN Packages(e)

package_installed(e, any_of) ==
  Needs(<<Packages(e)>>, Verdict(~ \E option \in any_of : option \subseteq DOMAIN Packages(e)))

package_absent(e, names) == Needs(<<Packages(e)>>, Verdict(Matching(e, names) # {}))

(* apt-cache answers a candidate, none when it is Absent. *)
apt_policy(e, package) ==
  IF ~Exists(e, "apt_cache") \/ ~Run(e, "apt_cache").ok THEN Unavailable ELSE Run(e, "apt_cache").candidate[package]

(* Without a candidate or any index of the archive nothing newer can be known. *)
package_current(e, package) ==
  IF Packages(e) = Unavailable THEN "NOT_ASSESSED"
  ELSE IF ~Installed(e, package) THEN "FAIL"
  ELSE IF apt_policy(e, package) \in {Unavailable, Absent} \/ Glob(e, "apt_lists") \in {Unavailable, <<>>} THEN "NOT_ASSESSED"
  ELSE Verdict(debian_version_compare(apt_policy(e, package), Packages(e)[package]) > 0)

------------------------------------------------------------------------------
(* Units: a spec names the file states allowed, {} for any, and whether it must run. *)
UnitProblem(u, spec) == (spec.states # {} /\ u.file \notin spec.states) \/ (spec.active /\ ~u.active)

unit_state(e, check) ==
  LET asked == IF check.any_existing THEN {s \in check.units : Units(e)[s.name].exists} ELSE check.units
  IN  Needs(<<Units(e)>>, Verdict(asked = {} \/ \E s \in asked : UnitProblem(Units(e)[s.name], s)))

units_not_in_use(e, names) == Needs(<<Units(e)>>, Verdict(\E n \in names : InUse(Units(e)[n])))

(* Only the units of groups with an installed package are asked for. *)
service_not_in_use(e, groups) ==
  LET present == {g \in groups : Matching(e, g.packages) # {}} IN
  IF Packages(e) = Unavailable THEN "NOT_ASSESSED"
  ELSE IF present = {} THEN "PASS"
  ELSE units_not_in_use(e, UNION {g.units : g \in present})

------------------------------------------------------------------------------
(* APT *)
apt_config(e) ==
  IF ~Exists(e, "apt_config") \/ ~Run(e, "apt_config").ok THEN Unavailable ELSE Run(e, "apt_config").values

(* A setting left at its default is a problem, and so is a word that is no Boolean. *)
apt_config_check(e, settings) ==
  Needs(<<apt_config(e)>>,
        Verdict(\E s \in settings : s.key \notin DOMAIN apt_config(e) \/ as_bool(apt_config(e)[s.key]) # s.value))

(* Source files are sequences of entries; an entry of a .sources file may be disabled. *)
source_files(e, scope) ==
  IF scope # "sources.list" THEN Glob(e, "sources_list_d")
  ELSE IF ~Exists(e, "sources_list") THEN <<>>
  ELSE IF Closed(e, "sources_list") THEN Unavailable ELSE <<e.val.sources_list>>

apt_sources_https(e, scope) ==
  LET files == source_files(e, scope) IN
  IF files = Unavailable \/ Withheld(e, files) THEN "NOT_ASSESSED"
  ELSE Verdict(\E f \in ToSet(files) : \E x \in f.entries : x.http /\ x.enabled)

(* The sources of the keyring permission check: the standard directories, and the keys that *)
(* entries name elsewhere.                                                                   *)
apt_keyring_files(e) ==
  LET found == {WalkFiles(e, d) : d \in {"usr_keyrings", "apt_trusted"}}
  IN  IF Unavailable \in found THEN Unavailable ELSE UNION {ToSet(f) : f \in found}
archives(e) ==
  LET main == ReadText(e, "sources_list")
      more == source_files(e, "sources.list.d")
  IN  IF main = Unavailable \/ more = Unavailable THEN Unavailable
      ELSE IF main = Absent THEN more ELSE <<main>> \o more
apt_signed_by_keys(e) ==
  IF archives(e) = Unavailable \/ Withheld(e, archives(e)) THEN Unavailable
  ELSE {k \in UNION {f.keys : f \in ToSet(archives(e))} : Exists(e, k) /\ Content(e, k).path \cap {"usr_keyrings", "apt_trusted"} = {}}

PackageVerdict(check, e) ==
  CASE check.type = "package_installed" -> package_installed(e, check.any_of)
    [] check.type = "package_absent" -> package_absent(e, check.names)
    [] check.type = "package_current" -> package_current(e, check.package)
    [] check.type = "unit_state" -> unit_state(e, check)
    [] check.type = "units_not_in_use" -> units_not_in_use(e, check.names)
    [] check.type = "service_not_in_use" -> service_not_in_use(e, check.groups)
    [] check.type = "apt_config" -> apt_config_check(e, check.settings)
    [] check.type = "apt_sources_https" -> apt_sources_https(e, check.scope)
=============================================================================
