---------------------------- MODULE MCReportRun -----------------------------
(* Two assessments that may read the same second, one regeneration of      *)
(* whichever is published, two formats.                                    *)
EXTENDS ReportRun, TLC

MCFormats == <<"json", "html">>
Symm == Permutations(Mains) \cup Permutations(Seconds)
=============================================================================
