----------------------------- MODULE RedisKeys -----------------------------
(* A Redis key as the services use it: a number, and whether the key is     *)
(* absent, will reach an expiry, or has none.  How long a key lives is left *)
(* open: the modules that use it let it expire at any moment.               *)
EXTENDS Integers

Absent == [val |-> 0, ttl |-> "absent"]
Key(v) == [val |-> v, ttl |-> "expires"]

RedisKey == [val: Nat, ttl: {"absent", "expires", "never"}]

Present(k) == k.ttl # "absent"
SetKeepTtl(k, v) == [val |-> v, ttl |-> IF Present(k) THEN k.ttl ELSE "never"]
Incr(k) == SetKeepTtl(k, k.val + 1)
Expire(k) == IF Present(k) THEN Key(k.val) ELSE Absent
=============================================================================
