---------------------------- MODULE MCOtpService ----------------------------
\* Small instances of OtpService for TLC.
EXTENDS OtpService, TLC

Symmetry == Permutations(Requests) \union Permutations(Codes)
=============================================================================
