----------------------------- MODULE BootChecks -----------------------------
(***************************************************************************)
(* The providers of lsa/checks/content.py and lsa/checks/security.py:      *)
(* banners, boot loader, kernel command line, core dumps, GNOME display    *)
(* manager and AppArmor. A text is the set of what the patterns find in    *)
(* it; a boot entry is the set of the parameters on its linux line.        *)
(***************************************************************************)
EXTENDS HostView

Login == <<"sshd", "login", "su", "gdm-password">>   \* PAM_MOTD_SERVICES

(* The first of /etc/pam.d and /usr/lib/pam.d that has the service; or, for every service, *)
(* all of /etc/pam.d, where any motd= counts and not only that of a pam_motd session line. *)
Services(e, d) == IF Exists(e, d) THEN Content(e, d) ELSE <<>>
motd_services(e, all) ==
  IF all THEN Glob(e, "pam_d")
  ELSE LET placed == [j \in DOMAIN Login |->
             SelectSeq(Services(e, "pam_d") \o Services(e, "usr_pam_d"), LAMBDA f : f.service = Login[j])]
       IN  FlattenSeq([j \in DOMAIN Login |-> Upto(placed[j], 1)])
pam_motd_paths(e, all) ==
  {x.motd : x \in {y \in UNION {ToSet(f.lines) : f \in ToSet(motd_services(e, all))} :
                     ~y.comment /\ (all \/ y.session) /\ y.motd # Absent}}
pam_motd_files(e, all) == {p \in pam_motd_paths(e, all) : Exists(e, p)}

(* Fixed paths, those of a glob and those PAM names; a directory among them is passed over. *)
banner_content(e, check) ==
  LET pam == IF check.pam = "" THEN {} ELSE pam_motd_files(e, check.pam = "all")
      paths == {p \in check.paths : Exists(e, p)} \cup pam
      files == {p \in paths : Content(e, p).isfile}
  IN  IF /\ check.pam # ""
         /\ motd_services(e, check.pam = "all") = Unavailable \/ Withheld(e, motd_services(e, check.pam = "all"))
      THEN "NOT_ASSESSED"
      ELSE IF \E p \in files : ReadText(e, p) = Unavailable THEN "NOT_ASSESSED"
      ELSE Verdict(\/ check.require_configured /\ paths = {}
                   \/ \E p \in files : ReadText(e, p).found \cap {"escape", "os"} # {})

------------------------------------------------------------------------------
(* Boot: every grub.cfg below /boot is a sequence of entries. *)
grub_configs(e) == WalkFiles(e, "boot")
GrubEntries(e) ==
  IF grub_configs(e) = Unavailable \/ Withheld(e, grub_configs(e)) THEN Unavailable
  ELSE [j \in DOMAIN grub_configs(e) |-> grub_configs(e)[j].entries]

bootloader_password(e) ==
  LET cfg == ReadText(e, "grub_cfg") IN
  IF cfg \in {Absent, Unavailable} THEN "NOT_ASSESSED" ELSE Verdict(~cfg.superusers \/ ~cfg.pbkdf2)

(* systemd-boot keeps one command line in a file, asked for only without any grub.cfg. *)
cmdlines(e) ==
  IF GrubEntries(e) # <<>> THEN GrubEntries(e)
  ELSE IF ReadText(e, "kernel_cmdline") = Unavailable THEN Unavailable
  ELSE IF ReadText(e, "kernel_cmdline") \in {Absent, {}} THEN <<>> ELSE <<(<<ReadText(e, "kernel_cmdline")>>)>>

(* A grub.cfg without entries is passed over, unless none has any. *)
grub_cmdline(e, check) ==
  IF cmdlines(e) = Unavailable THEN "NOT_ASSESSED"
  ELSE LET entries == ToSet(FlattenSeq(cmdlines(e))) IN
       IF entries = {} THEN "NOT_ASSESSED"
       ELSE Verdict(\E x \in entries : \/ check.require # "" /\ check.require \notin x
                                       \/ check.forbid # "" /\ check.forbid \in x)

------------------------------------------------------------------------------
(* Core dumps and error reports *)
core_dump_limit(e) ==
  LET main == CollectOr(e, "limits_conf", <<>>)
      files == Glob(e, "limits_d")
      limits == main \o FlattenSeq([j \in DOMAIN files |-> files[j].limits])
  IN  IF files = Unavailable \/ main = Unavailable \/ Withheld(e, files) THEN "NOT_ASSESSED"
      ELSE Verdict(limits = <<>> \/ \E v \in ToSet(limits) : v # 0)

apport_disabled(e) ==
  IF Packages(e) = Unavailable THEN "NOT_ASSESSED"
  ELSE IF ~Installed(e, "apport") THEN "PASS"
  ELSE Needs(<<CollectOr(e, "default_apport", FALSE), Units(e)>>,
             Verdict(CollectOr(e, "default_apport", FALSE) \/ Units(e)["apport"].active))

------------------------------------------------------------------------------
(* GNOME: both questions of a key must be answered. *)
gsettings(e, key) ==
  LET answer == Run(e, "gsettings")[key]
  IN  IF ~Exists(e, "gsettings") \/ ~answer.writable_ok \/ ~answer.value_ok THEN Unavailable ELSE answer

gsettings_check(e, keys) ==
  IF \E k \in keys : gsettings(e, k.key) = Unavailable THEN "NOT_ASSESSED"
  ELSE Verdict(\E k \in keys : \/ k.locked /\ gsettings(e, k.key).writable
                               \/ ~RuleOk(gsettings(e, k.key).value, k.rule))

(* Any of the files may hold the setting. *)
gdm_config(e, check) ==
  LET files == {f \in {"gdm3_custom", "gdm3_daemon", "gdm_custom", "gdm_daemon"} : Exists(e, f)}
      matching == {f \in files : check.setting \in ReadText(e, f)}
  IN  IF \E f \in files : ReadText(e, f) = Unavailable THEN "NOT_ASSESSED"
      ELSE Verdict((matching # {}) = (check.expect = "absent"))

------------------------------------------------------------------------------
(* AppArmor: the exit codes 3 and 4 of aa-status mean that it could not tell. *)
apparmor_status(e) ==
  LET answer == Run(e, "aa_status")
  IN  IF ~Exists(e, "aa_status") \/ answer.error \/ answer.code \in {3, 4} THEN Unavailable ELSE answer

apparmor_enabled(e) ==
  LET off == \E x \in ToSet(FlattenSeq(GrubEntries(e))) : "apparmor=0" \in x
      dropin == CollectOr(e, "grub_apparmor", {})
      unit == Units(e)["apparmor"]
  IN  Needs(<<GrubEntries(e), dropin, Units(e), apparmor_status(e)>>,
        Verdict(\/ off
                \/ "apparmor=0" \in dropin
                \/ ~Enabled(unit)
                \/ ~unit.active
                \/ apparmor_status(e).loaded <= 0))

apparmor_enforcing(e) ==
  Needs(<<apparmor_status(e)>>,
        LET s == apparmor_status(e)
        IN  Verdict(s.loaded = 0 \/ s.enforce # s.loaded \/ s.lenient > 0 \/ s.unconfined > 0))

BootVerdict(check, e) ==
  CASE check.type = "banner_content" -> banner_content(e, check)
    [] check.type = "bootloader_password" -> bootloader_password(e)
    [] check.type = "grub_cmdline" -> grub_cmdline(e, check)
    [] check.type = "core_dump_limit" -> core_dump_limit(e)
    [] check.type = "apport_disabled" -> apport_disabled(e)
    [] check.type = "gsettings" -> gsettings_check(e, check.keys)
    [] check.type = "gdm_config" -> gdm_config(e, check)
    [] check.type = "apparmor_enabled" -> apparmor_enabled(e)
    [] check.type = "apparmor_enforcing" -> apparmor_enforcing(e)
=============================================================================
