---------------------------- MODULE MCOnboarding ----------------------------
(* Small instances of Onboarding for TLC. *)
EXTENDS Onboarding, TLC

\* Permission codes, activation calls and logins are interchangeable: for
\* the runs without fairness.
CallSymmetry == Permutations(Activations) \cup Permutations(Logins)
                  \cup Permutations(Permissions)
=============================================================================
