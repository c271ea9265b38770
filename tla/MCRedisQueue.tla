---------------------------- MODULE MCRedisQueue ----------------------------
EXTENDS RedisQueue, TLC

Symmetry == Permutations(Jobs) \cup Permutations(Workers) \cup Permutations(Requeuers)
=============================================================================
