--------------------------- MODULE MCMatchmaking ---------------------------
(* Two-player rooms and a few connections for TLC. *)
EXTENDS Matchmaking

CONSTANTS a, b, c, x1, x2, x3

TwoSessions == {a, b}
ThreeSessions == {a, b, c}

\* Every connection has a handle of its own.
OwnSocket == [s \in Session |-> CASE s = a -> x1 [] s = b -> x2 [] OTHER -> x3]

\* c is accepted on the handle of b, once b is gone.
ReusedSocket == [s \in Session |-> IF s = a THEN x1 ELSE x2]

\* Threads started in different seconds, and all in the same one.
OwnSecond == [t \in Thread |-> t]
SameSecond == [t \in Thread |-> 0]

\* Filter is SelectSeq.
ASSUME FilterIsSelectSeq ==
    \A n \in 0 .. 4 : \A q \in [1 .. n -> 1 .. 3], S \in SUBSET (1 .. 3) :
        Filter(q, S) = SelectSeq(q, LAMBDA e : e \in S)
=============================================================================
