---------------------------- MODULE MCCompaction ----------------------------
(***************************************************************************)
(* a and b sync and compact; c is a laptop that stays switched off.        *)
(***************************************************************************)
EXTENDS Compaction

CONSTANTS a, b, c

Per(x, y, z) == [d \in Devices |-> IF d = a THEN x ELSE IF d = b THEN y ELSE z]

OnceEach == Per(1, 1, 0)

\* Everybody has the first events.  b has one more that it has not pushed and
\* mints a third, which may end up above a floor that hides the second.
StartAll == Per(1, 1, 1)
OfflineB == Per(1, 2, 1)
LimitThree == Per(1, 3, 1)

\* c has just joined: nobody has its first event yet.
StartNew == Per(1, 1, 0)
LimitOne == Per(1, 1, 1)
=============================================================================
