----------------------------- MODULE MCAccounts -----------------------------
\* Instances of Accounts for TLC.
EXTENDS Accounts

CONSTANTS ann, e1, e2

FirstAddress == [p \in Person |-> e1]
============================================================================
