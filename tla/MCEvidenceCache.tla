-------------------------- MODULE MCEvidenceCache --------------------------
(* A small wiring of EvidenceCache: an outer key that falls back from one  *)
(* inner key to another and tolerates their failure (advanced_option over  *)
(* vim-cmd and esxcli), and an inner key of another collector.             *)
EXTENDS EvidenceCache, TLC

CONSTANTS outer, inner, other, settings, host, file, tool

MCKeys == {outer, inner, other}
MCCollectors == {settings, host}
MCSources == {file}
MCCommands == {tool}
MCCollectorOf == outer :> settings @@ inner :> settings @@ other :> host
MCAsks == outer :> {inner, other} @@ inner :> {} @@ other :> {}
MCTolerant == {outer}
MCSourceOf == file :> host @@ tool :> host
=============================================================================
