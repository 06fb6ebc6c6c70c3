------------------------------ MODULE MCNSLock -------------------------------
(* Three user partitions, one of them trusted and one without an init        *)
(* function, called by two threads in both isolation levels, in a memory of  *)
(* sixteen addresses.                                                        *)
EXTENDS NSLock, MemCheck

LowCode == 0 .. 3
LowData == 4 .. 7
HighData == 10 .. 13
Middle == 11 .. 12
==============================================================================
