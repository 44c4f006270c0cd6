--------------------------- MODULE CodenamesBoard ---------------------------
(***************************************************************************)
(* The cards of a Codenames game and the ways AssignCards can lay them     *)
(* out.                                                                    *)
(***************************************************************************)
EXTENDS Integers, FiniteSets

CONSTANTS
    Card,             \* indices into cards_, 0 .. MAX_CARDS-1 in the code
    RED_CARDS,        \* 9 in the code
    BLUE_CARDS,       \* 8
    NEUTRAL_CARDS,    \* 7
    ASSASSIN_CARDS    \* 1

ASSUME CardAssumption == Card \subseteq Nat /\ IsFiniteSet(Card)

ASSUME CountAssumption ==
    /\ RED_CARDS \in Nat \ {0}
    /\ BLUE_CARDS \in Nat \ {0}
    /\ NEUTRAL_CARDS \in Nat
    /\ ASSASSIN_CARDS \in Nat

Team == {"RED", "BLUE"}

Other(t) == IF t = "RED" THEN "BLUE" ELSE "RED"

CardType == {"RED", "BLUE", "NEUTRAL", "ASSASSIN"}

OfType(key, t) == {c \in Card : key[c] = t}

\* The keys the shuffle of AssignCards can produce.
Deals ==
    {key \in [Card -> CardType] :
        /\ Cardinality(OfType(key, "RED")) = RED_CARDS
        /\ Cardinality(OfType(key, "BLUE")) = BLUE_CARDS
        /\ Cardinality(OfType(key, "NEUTRAL")) = NEUTRAL_CARDS
        /\ Cardinality(OfType(key, "ASSASSIN")) = ASSASSIN_CARDS}

\* The cards of a room that has been constructed but not started.
BlankKey == [c \in Card |-> "NEUTRAL"]
=============================================================================
