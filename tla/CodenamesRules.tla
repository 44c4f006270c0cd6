--------------------------- MODULE CodenamesRules ---------------------------
(***************************************************************************)
(* What a room promises its six players, without sessions, packets,        *)
(* scores or locks: a board, the cards uncovered so far, whose turn it is, *)
(* how many guesses the team has left, and how the game came out.          *)
(* GameRoom is shown to implement this specification.                      *)
(***************************************************************************)
EXTENDS Integers

CONSTANTS
    Card,           \* the positions on the table
    Boards,         \* the keys the cards may be dealt with
    NoBoard,        \* the key before the deal
    ClueNumber      \* the numbers, above zero, a spymaster may attach to a hint

Other(t) == IF t = "RED" THEN "BLUE" ELSE "RED"

VARIABLES
    key,        \* the type of every card
    revealed,   \* the cards uncovered so far
    turn,       \* the team that plays
    guesses,    \* guesses left in this turn; 0 while the hint is awaited
    result      \* "setup", "playing", the winning team, or "aborted"

vars == <<key, revealed, turn, guesses, result>>

\* All cards of team t of board k lie in R.
Complete(k, R, t) == \A c \in Card : k[c] = t => c \in R

\* Who has won when the cards R of board k lie open on the turn of team t.
Outcome(k, R, t) ==
    IF \E c \in R : k[c] = "ASSASSIN" THEN Other(t)
    ELSE IF Complete(k, R, "RED") THEN "RED"
    ELSE IF Complete(k, R, "BLUE") THEN "BLUE"
    ELSE "playing"

Init ==
    /\ key = NoBoard
    /\ revealed = {}
    /\ turn = "RED"
    /\ guesses = 0
    /\ result = "setup"

Deal ==
    /\ result = "setup"
    /\ key' \in Boards
    /\ result' = "playing"
    /\ UNCHANGED <<revealed, turn, guesses>>

Clue ==
    /\ result = "playing"
    /\ guesses = 0
    /\ guesses' \in ClueNumber
    /\ UNCHANGED <<key, revealed, turn, result>>

\* A card of the guessing team costs one guess; any other card, or the last
\* guess, hands the turn over.  A finished game keeps no guesses.
Guess(c) ==
    /\ result = "playing"
    /\ guesses > 0
    /\ c \notin revealed
    /\ revealed' = revealed \cup {c}
    /\ result' = Outcome(key, revealed', turn)
    /\ \/ /\ result' # "playing"
          /\ guesses' = 0
          /\ UNCHANGED turn
       \/ /\ result' = "playing"
          /\ key[c] = turn /\ guesses > 1
          /\ guesses' = guesses - 1
          /\ UNCHANGED turn
       \/ /\ result' = "playing"
          /\ key[c] # turn \/ guesses = 1
          /\ guesses' = 0
          /\ turn' = Other(turn)
    /\ UNCHANGED key

Abort ==
    /\ result \in {"setup", "playing"}
    /\ result' = "aborted"
    /\ guesses' = 0
    /\ UNCHANGED <<key, revealed, turn>>

Next == Deal \/ Clue \/ (\E c \in Card : Guess(c)) \/ Abort

Spec == Init /\ [][Next]_vars
=============================================================================
