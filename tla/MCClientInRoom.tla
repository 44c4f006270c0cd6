--------------------------- MODULE MCClientInRoom ---------------------------
(* The client of a spymaster or an agent, and two small boards, for TLC. *)
EXTENDS ClientInRoom

CONSTANTS apple, bread

Agent == [team |-> "RED", leader |-> FALSE, known |-> TRUE]
Spymaster == [team |-> "RED", leader |-> TRUE, known |-> TRUE]

\* An agent whose nickname is not the name he logs in with.
Stranger == [team |-> "BLUE", leader |-> FALSE, known |-> FALSE]

Seats == {Agent, Spymaster, Stranger}
StrangerOnly == {Stranger}
SpymasterOnly == {Spymaster}

OneBoard == {[c \in Card |-> IF c = 1 THEN "BLUE" ELSE "RED"]}

Hints == {1, 2}

Words == {apple, bread}

\* Cards 0 and 2 share a word.
RepeatedWords == [c \in Card |-> IF c \in {0, 2} THEN apple ELSE bread]
=============================================================================
