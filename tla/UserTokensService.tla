-------------------------- MODULE UserTokensService --------------------------
(***************************************************************************)
(* src/psql-tokens/user-tokens.service.ts, one operator per SQL statement: *)
(* the rows of "verification_tokens" of one user, by their token, which is *)
(* unique.  type and otpCode are left out: they are stored and never read. *)
(***************************************************************************)
CONSTANT Tokens       \* the tokens that generateToken ever makes, all distinct

VARIABLE tokens       \* tokens[t]: the row of t; "used" once usedAt is set,
                      \* "lapsed" if expiresAt passed before

TokensTypeOK == tokens \in [Tokens -> {"absent", "stored", "lapsed", "used"}]

TokensInit == tokens = [t \in Tokens |-> "absent"]

Rows == {t \in Tokens : tokens[t] # "absent"}

\* Slips: usedAt would not be asked for, or a saved token deleted at once.
RowIsFound(t) == tokens[t] \in {"stored", "used"}
SaveThenDelete(t) == t \in Tokens /\ tokens' = [u \in Tokens |-> "absent"]

\* checkVerificationTokenIsValid returns the row: the callers' own test of
\* usedAt is never reached.
TokenIsValid(t) == tokens[t] = "stored"

\* createVerificationToken's DELETE, and deleteAllVerificationTokens.
DeleteTokens == tokens' = [t \in Tokens |-> "absent"]

\* createVerificationToken's save.
SaveToken(t) == tokens' = [tokens EXCEPT ![t] = "stored"]

\* An UPDATE, without any effect when there is no such row.
MarkTokenAsUsed(t) ==
  tokens' = IF t \in Rows THEN [tokens EXCEPT ![t] = "used"] ELSE tokens
=============================================================================
