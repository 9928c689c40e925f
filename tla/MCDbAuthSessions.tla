-------------------------- MODULE MCDbAuthSessions --------------------------
\* Small instances of DbAuthSessions for TLC.
EXTENDS DbAuthSessions, TLC

Symmetry == Permutations(Requests) \union Permutations(Jtis)
=============================================================================
