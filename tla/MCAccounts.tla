------------------------------ MODULE MCAccounts ------------------------------
(* Instances of Accounts.  Requests of one kind, and emails, are symmetric.  *)
EXTENDS Accounts, TLC

\* Registrations draw the same matter number, or one does another.
Drawn ==
  LET one == CHOOSE t \in Registrations : TRUE
  IN  [t \in Registrations |-> IF t = one THEN {1} ELSE {1, 2}]

Symmetry ==
  Permutations(Registrations) \union Permutations(Logins)
    \union Permutations(Logouts) \union Permutations(Visits) \union Permutations(Emails)
=============================================================================
