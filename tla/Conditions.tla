------------------------------ MODULE Conditions ------------------------------
(***************************************************************************)
(* The conditions of lsa/checks/conditions.py that do not ask for units    *)
(* (UnitStates has those): whether a control applies to the host.          *)
(***************************************************************************)
EXTENDS HostView

CRON_PACKAGES == {"cron", "cronie", "systemd-cron"}

(* package_installed, cron_installed and gdm_installed. *)
any_installed(e, names) ==
  IF Packages(e) = Unavailable THEN Unavailable ELSE \E name \in names : Installed(e, name)

(* A server that was not installed as a package has its program. *)
sshd_installed(e) ==
  IF Packages(e) = Unavailable THEN Unavailable ELSE Installed(e, "openssh-server") \/ Exists(e, "sshd")

(* Both parameters must say that IPv6 is off; the module can be off, or not be there. *)
ipv6_active(e) ==
  LET disable == ReadText(e, "ipv6_disable")
      running == <<ReadText(e, "ipv6_all"), ReadText(e, "ipv6_default")>>
  IN  IF disable = Unavailable THEN Unavailable
      ELSE IF disable \notin {Absent, "0"} \/ ~Exists(e, "proc_ipv6") THEN FALSE
      ELSE IF Unavailable \in ToSet(running) THEN Unavailable
      ELSE running # <<"1", "1">>

Applies(condition, e) ==
  CASE condition.type = "package_installed" -> any_installed(e, condition.packages)
    [] condition.type = "sshd_installed" -> sshd_installed(e)
    [] condition.type = "cron_installed" -> any_installed(e, CRON_PACKAGES)
    [] condition.type = "gdm_installed" -> any_installed(e, {"gdm3", "gdm"})
    [] condition.type = "not_router" -> ~Content(e, "network_router")
    [] condition.type = "ipv6_enabled" -> ipv6_active(e)
    [] condition.type = "path_exists" -> Exists(e, condition.path)
=============================================================================
