----------------------------- MODULE EsxiChecks -----------------------------
(***************************************************************************)
(* The providers of lsa/checks/esxi.py. esxcli and vim-cmd answer each     *)
(* question with rows or a value, or Unavailable when the command failed;  *)
(* a .vmx file has settings, devices and disks; names of virtual machines  *)
(* need not be unique.                                                     *)
(***************************************************************************)
EXTENDS HostView

CONSTANT Unclear   \* vim-cmd answered, without a line "value = "

ACCEPTABLE_LEVELS == {"VMwareCertified", "VMwareAccepted", "PartnerSupported"}

(* A tool that is not there or a question it does not answer. *)
Ask(e, tool, question) == IF ~Exists(e, tool) THEN Unavailable ELSE Run(e, tool)[question]
esxcli(e, question) == Ask(e, "esxcli", question)
vimcmd(e, question) == Ask(e, "vimcmd", question)
Rows(s) == ToSet(s)

(* vim-cmd first, whose <unset> is an answer (Absent); esxcli when it has no value. *)
advanced_option(e, key) ==
  IF vimcmd(e, key) \notin {Unavailable, Unclear} THEN vimcmd(e, key) ELSE esxcli(e, key)

(* The services of the host configuration, else those that have an init script. *)
services(e) ==
  LET listed == vimcmd(e, "services")
      scripts == e.val.init_scripts
      unlisted(k) == Exists(e, "chkconfig") => k \notin DOMAIN Run(e, "chkconfig")
  IN  IF listed \notin {Unavailable, <<>>} THEN listed
      ELSE IF DOMAIN scripts = {} THEN Unavailable
      ELSE [k \in DOMAIN scripts |-> [running |-> scripts[k],
                                     policy |-> IF unlisted(k) THEN "unknown" ELSE Run(e, "chkconfig")[k]]]

(* The host configuration names the mode; dcui only tells whether it is on. *)
lockdown_mode(e) ==
  IF vimcmd(e, "lockdown") \notin {Unavailable, Unclear} THEN vimcmd(e, "lockdown")
  ELSE IF vimcmd(e, "dcui") = Unavailable THEN Unavailable
  ELSE IF vimcmd(e, "dcui") THEN "lockdownNormal" ELSE "lockdownDisabled"

------------------------------------------------------------------------------
(* Host checks *)
esxi_advanced(e, settings) ==
  IF \E s \in settings : advanced_option(e, s.key) = Unavailable THEN "NOT_ASSESSED"
  ELSE Verdict(\E s \in settings : ~RuleOk(advanced_option(e, s.key), s.rule))

(* Without the option, the endpoint must not be registered with the reverse proxy. *)
esxi_mob_disabled(e) ==
  IF advanced_option(e, "enableMob") \notin {Unavailable, Absent} THEN Verdict(as_bool(advanced_option(e, "enableMob")) # FALSE)
  ELSE Needs(<<vimcmd(e, "proxy")>>, Verdict("mob" \in vimcmd(e, "proxy")))

esxi_acceptance(e) ==
  Needs(<<esxcli(e, "acceptance"), esxcli(e, "vibs")>>,
        Verdict(esxcli(e, "acceptance") \notin ACCEPTABLE_LEVELS \/ ~(Rows(esxcli(e, "vibs")) \subseteq ACCEPTABLE_LEVELS)))

(* Servers of the host configuration, even none; /etc/ntp.conf when it has no such block. *)
ntp_servers(e) ==
  IF vimcmd(e, "ntp") \notin {Unavailable, Unclear} THEN vimcmd(e, "ntp") ELSE CollectOr(e, "ntp_conf", {})
esxi_ntp(e, approved) ==
  Needs(<<ntp_servers(e), services(e)>>,
        Verdict(\/ ntp_servers(e) = {}
                \/ "ntpd" \notin DOMAIN services(e)
                \/ ~services(e)["ntpd"].running \/ services(e)["ntpd"].policy # "on"
                \/ approved # {} /\ ~(ntp_servers(e) \subseteq approved)))

(* Only the startup policy counts; that the service runs is noted. *)
esxi_service_disabled(e, service) ==
  Needs(<<services(e)>>, Verdict(service \in DOMAIN services(e) /\ services(e)[service].policy # "off"))

esxi_lockdown(e, allowed) == Needs(<<lockdown_mode(e)>>, Verdict(lockdown_mode(e) \notin allowed))

esxi_coredump_network(e) ==
  LET rows == esxcli(e, "coredump")
  IN  Needs(<<rows>>, Verdict(rows = <<>> \/ ~(rows[1].enabled /\ rows[1].server)))

esxi_nonroot_admin(e) ==
  Needs(<<esxcli(e, "accounts"), esxcli(e, "permissions")>>,
        Verdict(~ \E p \in Rows(esxcli(e, "permissions")) :
                  p.role = "admin" /\ ~p.group /\ p.principal \notin {"root", "dcui", "vpxuser"}))

------------------------------------------------------------------------------
(* Networks and storage *)
vswitches(e) == esxcli(e, "vswitches")
portgroups(e) == esxcli(e, "portgroups")

(* One policy that cannot be read leaves all of them undecided; a word that is no Boolean *)
(* does not reject.                                                                       *)
esxi_vswitch_security(e, policy) ==
  LET targets == Rows(vswitches(e)) \cup {g.name : g \in Rows(portgroups(e))}
      value(t) == esxcli(e, "policies")[t][policy]
  IN  IF Unavailable \in {vswitches(e), portgroups(e), esxcli(e, "policies")} THEN "NOT_ASSESSED"
      ELSE IF \E t \in targets : value(t) = Absent THEN "NOT_ASSESSED"
      ELSE Verdict(\E t \in targets : as_bool(value(t)) # FALSE)

esxi_portgroup_vlan(e, check) ==
  LET forbidden == check.forbid \cup (IF check.native_vlan THEN {e.val.native_vlan} ELSE {})
  IN  Needs(<<portgroups(e)>>,
            Verdict(\E g \in Rows(portgroups(e)) :
                      g.vlan \in forbidden /\ ~(g.vlan = 4095 /\ g.name \in e.val.vgt_portgroups)))

esxi_iscsi_chap(e) ==
  Needs(<<esxcli(e, "adapters")>>, Verdict(\E a \in Rows(esxcli(e, "adapters")) : a.uni # "required" \/ a.mutual # "required"))

------------------------------------------------------------------------------
(* Virtual machines *)
virtual_machines(e) == vimcmd(e, "getallvms")
assessed_vms(e) == {vm \in Rows(virtual_machines(e)) : vm.name \notin e.val.excluded_vms}

(* vmx_settings: a file that is missing is no evidence either. *)
vmx_settings(e, vm) == Collect(e, vm.vmx)
readable_vms(e) == {vm \in assessed_vms(e) : vmx_settings(e, vm) # Unavailable}

(* Machines that cannot be read withhold the verdict only when none can. *)
VmVerdict(e, Offends(_)) ==
  IF virtual_machines(e) = Unavailable \/ (readable_vms(e) = {} /\ assessed_vms(e) # {}) THEN "NOT_ASSESSED"
  ELSE Verdict(\E vm \in readable_vms(e) : Offends(vmx_settings(e, vm)))

vmx_matches(value, expected) ==
  IF as_bool(expected) # Absent THEN as_bool(value) = as_bool(expected) ELSE value = expected
vmx_setting(e, check) ==
  VmVerdict(e, LAMBDA x : IF check.key \in DOMAIN x.settings THEN ~vmx_matches(x.settings[check.key], check.expected)
                          ELSE ~check.missing_ok)
vmx_device_absent(e, check) ==
  VmVerdict(e, LAMBDA x : \E d \in x.devices : d.kind \in check.kinds /\ d.present /\ (check.cdrom_only => d.cdrom))
vmx_disk_mode(e, modes) == VmVerdict(e, LAMBDA x : x.diskmodes \cap modes # {})

(* The conditions of esxi.py. *)
Condition(available, holds) == IF available = Unavailable THEN Unavailable ELSE holds
vms_present(e) == Condition(virtual_machines(e), assessed_vms(e) # {})
iscsi_present(e) == Condition(esxcli(e, "adapters"), esxcli(e, "adapters") # <<>>)
standard_vswitch_present(e) == Condition(vswitches(e), vswitches(e) # <<>>)

EsxiVerdict(check, e) ==
  CASE check.type = "esxi_advanced" -> esxi_advanced(e, check.settings)
    [] check.type = "esxi_mob_disabled" -> esxi_mob_disabled(e)
    [] check.type = "esxi_acceptance" -> esxi_acceptance(e)
    [] check.type = "esxi_ntp" -> esxi_ntp(e, check.approved)
    [] check.type = "esxi_service_disabled" -> esxi_service_disabled(e, check.service)
    [] check.type = "esxi_lockdown" -> esxi_lockdown(e, check.allowed)
    [] check.type = "esxi_coredump_network" -> esxi_coredump_network(e)
    [] check.type = "esxi_nonroot_admin" -> esxi_nonroot_admin(e)
    [] check.type = "esxi_vswitch_security" -> If(standard_vswitch_present(e), esxi_vswitch_security(e, check.policy))
    [] check.type = "esxi_portgroup_vlan" -> If(standard_vswitch_present(e), esxi_portgroup_vlan(e, check))
    [] check.type = "esxi_iscsi_chap" -> If(iscsi_present(e), esxi_iscsi_chap(e))
    [] check.type = "vmx_setting" -> If(vms_present(e), vmx_setting(e, check))
    [] check.type = "vmx_device_absent" -> If(vms_present(e), vmx_device_absent(e, check))
    [] check.type = "vmx_disk_mode" -> If(vms_present(e), vmx_disk_mode(e, check.modes))
=============================================================================
