---------------------------- MODULE MCDbAccounts ----------------------------
\* Small instances of DbAccounts for TLC.
EXTENDS DbAccounts, TLC

Symmetry == Permutations(Requests) \union Permutations(Tokens)
              \union Permutations(Passwords) \union Permutations(Jtis)
=============================================================================
