---------------------------- MODULE RedisService ----------------------------
(***************************************************************************)
(* The part of src/redis/redis.service.ts the stores above it rely on:     *)
(* every command is atomic at the Redis server, and SET ... EX gives a key *)
(* a deadline after which GET answers null.  A key is represented by that  *)
(* deadline, Gone when it was never set or was deleted, so expiry needs no *)
(* step of its own: it happens as time passes.                             *)
(***************************************************************************)
EXTENDS Naturals

VARIABLE now          \* the clock, in seconds (the resolution of EX and iat)

Gone == 0

\* A slip ExpiresIn must not take: the TTL counted backwards.
ExpiredSince(ttl) == now - ttl

\* set(key, value, ttlSeconds): every caller passes a TTL.
ExpiresIn(ttl) == now + ttl

\* get(key) answers the value, not null.
Alive(deadline) == now < deadline
=============================================================================
