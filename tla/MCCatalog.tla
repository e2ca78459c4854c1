----------------------------- MODULE MCCatalog ------------------------------
(* Two definitions, a builder for each of them, one audit.                 *)
EXTENDS Catalog

MCOrder == <<"CIS_Debian", "CIS_ESXi">>
MCFiles == {"CIS_Debian", "CIS_ESXi"}
CONSTANTS b1, b2
MCOutput == [b \in Builders |-> IF b = b1 THEN "CIS_Debian" ELSE "CIS_ESXi"]
=============================================================================
