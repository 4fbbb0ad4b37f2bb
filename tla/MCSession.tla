----------------------------- MODULE MCSession -----------------------------
(* Values of the constants for the runs of WebSession. *)
EXTENDS WebSession, TLC

\* All tabs in one browser.
MCBrowserOf == [t \in Tab |-> CHOOSE b \in Browser : TRUE]

\* Which name is used, and in which order the forms of a tab are submitted, makes
\* no difference.
MCSymmetry == Permutations(Name) \cup Permutations(Slot)
=============================================================================
