------------------------------ MODULE MCAccounts ------------------------------
EXTENDS Accounts, TLC

\* Requests and passwords are interchangeable.
Symmetry == Permutations(Requests) \union Permutations(Passwords)
=============================================================================
