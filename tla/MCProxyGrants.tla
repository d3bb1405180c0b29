---------------------------- MODULE MCProxyGrants ----------------------------
(***************************************************************************)
(* Instance of ProxyGrants for TLC: see grants.cfg for the bounds.         *)
(***************************************************************************)
EXTENDS ProxyGrants, TLC

Symmetry == Permutations(Runs) \union Permutations(Calls)

=============================================================================
