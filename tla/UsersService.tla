---------------------------- MODULE UsersService ----------------------------
(***************************************************************************)
(* src/user/user.service.ts for one email address, whose row of "users" is *)
(* created once and never deleted: one operator per SQL statement that     *)
(* writes it.                                                              *)
(*                                                                         *)
(* argon2 is symbolic: a stored password is a text and how often it has    *)
(* been hashed, and a hash verifies only what it is the hash of.  Salts    *)
(* are left out: hashes are verified, never compared with each other.      *)
(***************************************************************************)
EXTENDS Naturals

CONSTANTS Passwords, None

ASSUME PasswordsAssumption == None \notin Passwords

VARIABLE user         \* the row

Secret == [text: Passwords \union {None}, rounds: Nat]
Plain(p) == [text |-> p, rounds |-> 0]

User == [registered: BOOLEAN, activated: BOOLEAN, password: Secret]
NoUser == [registered |-> FALSE, activated |-> FALSE, password |-> Plain(None)]

\* hashPassword, and argon2.hash.
Hash(secret) == [secret EXCEPT !.rounds = @ + 1]

\* argon2.verify(user.password, p).
PasswordIs(p) == user.password = Hash(Plain(p))

\* A slip: email would have no unique index.
NoUniqueIndex == TRUE

\* The unique index on email lets one INSERT through.
EmailFree == ~user.registered

\* A slip: the password would be stored as it came.
InsertUnhashed(p) ==
  /\ EmailFree
  /\ user' = [registered |-> TRUE, activated |-> FALSE, password |-> p]

\* createUser, once findOneBy has found no such user.
InsertUser(p) ==
  /\ EmailFree
  /\ user' = [registered |-> TRUE, activated |-> FALSE, password |-> Hash(Plain(p))]

ActivateUser == user' = [user EXCEPT !.activated = TRUE]

\* updateUserPassword hashes what it is given, whatever the caller did to it.
UpdateUserPassword(newPassword) ==
  user' = [user EXCEPT !.password = Hash(newPassword)]
=============================================================================
