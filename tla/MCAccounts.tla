----------------------------- MODULE MCAccounts -----------------------------
(***************************************************************************)
(* Accounts on a small instance: two handlers at a time, two accounts, one *)
(* wallet between them, and one campaign allowed at a time.                *)
(***************************************************************************)
EXTENDS Accounts, TLC

Interchangeable == Permutations(API) \cup Permutations(Emails)
=============================================================================
