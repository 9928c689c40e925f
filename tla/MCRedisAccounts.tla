-------------------------- MODULE MCRedisAccounts --------------------------
\* Small instances of RedisAccounts for TLC.
EXTENDS RedisAccounts, TLC

Symmetry == Permutations(Requests) \union Permutations(Codes)
              \union Permutations(Passwords)
=============================================================================
