----------------------- MODULE MCRedisDistributedLock -----------------------
(* TLC instance of RedisDistributedLock. *)
EXTENDS RedisDistributedLock, TLC

Symmetry == Permutations(Tasks) \cup Permutations(Holders)
=============================================================================
