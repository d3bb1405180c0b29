------------------------------ MODULE MCBackups ------------------------------
(***************************************************************************)
(* Instance of Backups for TLC: see backups.cfg for the bounds.            *)
(***************************************************************************)
EXTENDS Backups, TLC

\* Chats, manual dumps and restores are interchangeable.
Symmetric == Permutations(Chats) \cup Permutations(Manuals) \cup Permutations(Restorers)

=============================================================================
