----------------------------- MODULE MCAccounts -----------------------------
(* Passwords are only compared with each other. *)
EXTENDS AccountsProps, TLC

Symmetry == Permutations(Password)
=============================================================================
