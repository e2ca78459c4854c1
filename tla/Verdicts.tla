------------------------------ MODULE Verdicts ------------------------------
(***************************************************************************)
(* What Engine.run promises (lsa/engine.py:3-8): every item of the         *)
(* definition gets exactly one verdict, in the definition's order, a       *)
(* verdict once given is never revised, and no item is left out.           *)
(***************************************************************************)
EXTENDS Integers

CONSTANTS
  Count,     \* number of items: controls, then manual recommendations
  Statuses,  \* the six verdicts
  Pending    \* no verdict yet; not a status

VARIABLE verdict

Items == 1 .. Count

VerdictsInit == verdict = [i \in Items |-> Pending]

Decide(i, s) ==
  /\ verdict[i] = Pending
  /\ \A j \in Items : j < i => verdict[j] # Pending
  /\ verdict' = [verdict EXCEPT ![i] = s]

VerdictsNext == \E i \in Items, s \in Statuses : Decide(i, s)

VerdictsSafety == VerdictsInit /\ [][VerdictsNext]_verdict
VerdictsSpec == VerdictsSafety /\ WF_verdict(VerdictsNext)
=============================================================================
