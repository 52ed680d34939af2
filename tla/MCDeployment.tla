----------------------------- MODULE MCDeployment -----------------------------
(* Deployment on a small instance. *)
EXTENDS Deployment, TLC

\* Requests are alike, and neither the fairness nor the liveness property is
\* about them.
CheckSymmetry == Permutations(Checks)
=============================================================================
