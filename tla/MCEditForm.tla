----------------------------- MODULE MCEditForm -----------------------------
(* EditForm on two people's forms and two fields of one record. *)
EXTENDS EditForm, TLC

CONSTANTS f1, f2, u1, u2, k1, k2

MCFields == {f1, f2}
MCForms == {u1, u2}
MCCalls == {k1, k2}
MCValues == 0 .. 2
MCBlank == 0

Symmetry == Permutations(MCFields) \cup Permutations(MCForms) \cup Permutations(MCCalls)
=============================================================================
