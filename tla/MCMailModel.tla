----------------------------- MODULE MCMailModel -----------------------------
(***************************************************************************)
(* Two workers on a repository with main and another branch of the user,   *)
(* and up to two series.                                                   *)
(***************************************************************************)
EXTENDS MailModel, TLC

CONSTANTS w1, w2, main, dev, s1, s2

MCCallers == {w1, w2}
MCBases   == {main, dev}
MCSeries  == {s1, s2}

\* Most properties say nothing of what follows a stale step.  AtHome and
\* RerollKeepsSeries do, and are proved without this constraint (MailModelProofs).
Fresh == ~stale

Symmetry == Permutations(MCCallers) \cup Permutations(MCSeries)
=============================================================================
