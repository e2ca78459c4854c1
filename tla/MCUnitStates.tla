---------------------------- MODULE MCUnitStates ----------------------------
(* Two controls of each subsection of the time section, one of each of the *)
(* logging section, and one that judges both time daemons.                 *)
EXTENDS UnitStates

MCUnits == {chrony, timesyncd, rsyslog}
MCCondition == <<Absent, "timesyncd", "chrony", "timesyncd", "rsyslog", "journald">>
MCSubject == <<{chrony, timesyncd}, {timesyncd}, {chrony}, {timesyncd}, {rsyslog}, {}>>
=============================================================================
