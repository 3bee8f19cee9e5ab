------------------------------- MODULE Ledger -------------------------------
(***************************************************************************)
(* What the result set of one model, benchmark tool and environment        *)
(* promises (RFC-0001, C-RUN-OUTPUT): a measurement identity, a pair of a  *)
(* configuration and a workload point, is recorded once and stays          *)
(* recorded, however often the search is run, extended or cut short; only  *)
(* an invocation that asks for re-measurement discards what is there.      *)
(***************************************************************************)
EXTENDS Sequences, SequencesExt

CONSTANT Identities

VARIABLES
  recorded,  \* the identities recorded, in the order they were measured
  forced     \* whether the invocation under way asks for re-measurement

vars == <<recorded, forced>>

Init == recorded = << >> /\ forced = FALSE

\* An invocation begins or ends.
Turn ==
  /\ forced' \in BOOLEAN
  /\ UNCHANGED recorded

\* A measurement that is not recorded yet is recorded; the invocation may end
\* with that.
Record ==
  /\ \E id \in Identities \ Range(recorded) : recorded' = Append(recorded, id)
  /\ forced' \in BOOLEAN

\* An explicit re-measurement starts from nothing.
Discard ==
  /\ forced
  /\ recorded' = << >>
  /\ UNCHANGED forced

Next == Turn \/ Record \/ Discard

Spec == Init /\ [][Next]_vars
=============================================================================
