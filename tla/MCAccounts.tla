----------------------------- MODULE MCAccounts -----------------------------
(***************************************************************************)
(* Accounts for TLC: two connections that compete for two ids and *)
(* two nicknames.  Connections, ids and nicknames are interchangeable.     *)
(***************************************************************************)
EXTENDS Accounts, TLC

AnyName == Permutations(Session) \cup Permutations(Id) \cup Permutations(Nick)

=============================================================================
