------------------------------ MODULE MCEngine ------------------------------
(* Three controls, the second outside the profile, the third without       *)
(* conditions, two manual recommendations of which one is outside the      *)
(* selected section, over an outer key that may fall back on an inner one. *)
EXTENDS Engine, TLC

CONSTANTS outer, inner, settings, host, file, tool, one, two

MCKeys == {outer, inner}
MCCollectors == {settings, host}
MCSources == {file}
MCCommands == {tool}
MCCollectorOf == outer :> settings @@ inner :> host
MCAsks == outer :> {inner} @@ inner :> {}
MCTolerant == {outer}
MCSourceOf == file :> host @@ tool :> host

MCConditions == <<1, 0, 0>>
MCSections == {one, two}
MCSectionOf == <<one, one, two, one, two>>
MCIdOf == <<1, 2, 3, 1, 5>>
MCInScope == {1, 2, 3, 4}
MCInProfile == {1, 3, 4, 5}
=============================================================================
