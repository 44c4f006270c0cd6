----------------------------- MODULE MCGameRoom -----------------------------
(* Small rooms for TLC: two or three players a team and boards of four    *)
(* cards.                                                                  *)
EXTENDS GameRoom

CONSTANTS s1, s2, s3, s4, s5, s6, apple, bread, cloud

FourSessions == {s1, s2, s3, s4}
FourRoster == <<s1, s2, s3, s4>>

SixSessions == {s1, s2, s3, s4, s5, s6}
SixRoster == <<s1, s2, s3, s4, s5, s6>>

DistinctNicks == [s \in SixSessions |-> s]

\* Two people play under one account: s2 and s3 are agents of one team.
SharedNicks == [s \in SixSessions |-> IF s = s3 THEN s2 ELSE s]

\* The numbers the client lets through, and what any program can send.
ClientHints == {1, 2}
AnyHints == {-1, 2}

Words == {apple, bread, cloud}

\* Two cards share a word; words.txt is not checked for repetitions.
RepeatedWords ==
    [c \in Card |-> CASE c \in {0, 2} -> apple
                      [] c = 1 -> bread
                      [] OTHER -> cloud]
=============================================================================
