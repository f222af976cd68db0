----------------------------- MODULE MCAuthClient -----------------------------
(***************************************************************************)
(* The module TLC checks.  The .cfg files give the constants: which calls, *)
(* messages and other tabs there are, and the topology of the deployment.  *)
(* The operations keep the names the configurations give them, so that a   *)
(* counterexample reads as a story about r1, c1 and p1.                     *)
(***************************************************************************)
EXTENDS AuthClientProps, TLC

\* Calls differ in nothing but their names, and so do the logouts of other tabs.
\* Used by runs that check no liveness.
RefresherSymmetry == Permutations(Refreshers)
PeerSymmetry      == Permutations(PeerKeys)
==============================================================================
