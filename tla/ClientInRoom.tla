---------------------------- MODULE ClientInRoom ----------------------------
(***************************************************************************)
(* A room and the client of one of its players: what the room sends to the *)
(* player's seat travels to the client in order, and what the player types *)
(* travels back.  The room is the one of CodenamesRules, which GameRoom    *)
(* implements, with the messages GameRoom sends for each of its steps; the *)
(* other players do what the rules allow.                                  *)
(*                                                                         *)
(* Matchmaking sends to the same connection: the worker that counted the   *)
(* waiting players posts WAIT_REPLY or QUEUE_FULL to everybody it counted, *)
(* the latter after it has started the thread that fills the room, so      *)
(* either may arrive behind GAME_START.                                    *)
(***************************************************************************)
EXTENDS CodenamesRules, Sequences, FiniteSets

CONSTANTS
    Word, WordOf,
    Watched,      \* the seats whose client is looked at, one in a run
    Jammed,       \* those that one receive may hand several messages
    Noticed,      \* those that matching messages are still sent to
    MaxTogether,  \* bound: messages in one receive
    MaxTyped,     \* bound: packets on the way to the server
    MaxInFlight,  \* bound: messages on the way to the client
    MaxNotices    \* bound: matching messages

\* known: the player's nickname is the name he logs in with, which is all
\* the client has to find its seat by.
ASSUME ClientAssumption ==
    /\ Watched \subseteq [team : {"RED", "BLUE"}, leader : BOOLEAN, known : BOOLEAN]
    /\ Jammed \subseteq Watched /\ Noticed \subseteq Watched
    /\ Card \subseteq Int /\ ClueNumber \subseteq Nat \ {0}
    /\ WordOf \in [Card -> Word]
    /\ {MaxTogether, MaxTyped, MaxInFlight} \subseteq Nat \ {0}
    /\ MaxNotices \in Nat

VARIABLES
    seat,      \* the player whose client this is
    notices,   \* matching messages sent; bounds the model only
    late,      \* history: one of them was sent when the game had started
    inbox, upstream, view, mode, running, scene, entering, staleEsc, lost,
    restarted

\* Players may also type a zero.
Client == INSTANCE GameClient WITH Number <- ClueNumber \cup {0}

all == <<vars, seat, notices, late, Client!clientVars>>

JointInit ==
    /\ Init /\ Client!ClientInit
    /\ seat \in Watched
    /\ notices = 0 /\ late = FALSE

-----------------------------------------------------------------------------
(* From the room to the client.                                            *)

Deliver(messages) ==
    /\ inbox' = inbox \o messages
    /\ Len(inbox') <= MaxInFlight

Chat == [type |-> "CHAT"]

GameInit ==
    [type |-> "GAME_INIT", team |-> IF seat.known THEN seat.team ELSE "none",
     leader |-> seat.leader]

Score(t) == Cardinality({c \in revealed : key[c] = t})

TurnUpdate(phase) ==
    [type |-> "TURN_UPDATE", turn |-> turn', phase |-> phase,
     red |-> Score("RED")', blue |-> Score("BLUE")']

GameOver == [type |-> "GAME_OVER"]

CardUpdate(c) ==
    [type |-> "CARD_UPDATE", card |-> c,
     tries |-> IF key[c] = turn THEN guesses - 1 ELSE guesses]

DealAndTell ==
    /\ Deal
    /\ Deliver(<<[type |-> "GAME_START"], GameInit, Chat,
                 [type |-> "ALL_CARDS"], TurnUpdate("HINT_PHASE")>>)

ClueAndTell ==
    /\ Clue
    /\ Deliver(<<[type |-> "HINT", number |-> guesses'],
                 TurnUpdate("GUESS_PHASE")>>)

GuessAndTell(c) ==
    /\ Guess(c)
    /\ Deliver(<<CardUpdate(c), Chat>> \o
               (IF result' # "playing" THEN <<Chat, GameOver>>
                ELSE IF guesses' = 0 THEN <<TurnUpdate("HINT_PHASE")>>
                ELSE <<>>))

\* Only a room that has not finished tells its players that it goes.
AbortAndTell == Abort /\ Deliver(<<Chat, GameOver>>)

\* bound: they come before the first hint.
MatchNotice(type) ==
    /\ notices < MaxNotices /\ notices' = notices + 1
    /\ seat \in Noticed
    /\ revealed = {} /\ guesses = 0 /\ result \in {"setup", "playing"}
    /\ Deliver(<<[type |-> type]>>)
    /\ late' = (late \/ result # "setup")
    /\ UNCHANGED vars

-----------------------------------------------------------------------------
(* From the client to the room.                                            *)

MyTurn == result = "playing" /\ turn = seat.team

CanHint == MyTurn /\ guesses = 0 /\ seat.leader

CanAnswer == MyTurn /\ guesses > 0 /\ ~seat.leader

Candidates(w) == {c \in Card : WordOf[c] = w /\ c \notin revealed}

HintTaken(p) == p.type = "HINT" /\ CanHint /\ ClueAndTell /\ guesses' = p.number

AnswerTaken(p) ==
    /\ p.type = "ANSWER" /\ CanAnswer
    /\ \E c \in Candidates(p.word) :
          /\ \A d \in Candidates(p.word) : c <= d
          /\ GuessAndTell(c)

AnswerInvalid(p) ==
    /\ p.type = "ANSWER" /\ CanAnswer
    /\ Candidates(p.word) = {}
    /\ Deliver(<<[type |-> "ANSWER_RESULT"]>>)
    /\ UNCHANGED vars

ChatTaken(p) ==
    /\ p.type = "CHAT" /\ result \in {"setup", "playing"}
    /\ Deliver(<<Chat>>)
    /\ UNCHANGED vars

\* A validator says no, the game is over, or the lobby reads the packet.
Refused(p) ==
    /\ \/ p.type = "QUERY_WAIT"
       \/ p.type = "HINT" /\ ~CanHint
       \/ p.type = "ANSWER" /\ ~CanAnswer
       \/ p.type = "CHAT" /\ result # "playing"
    /\ UNCHANGED <<vars, inbox>>

ReadPacket ==
    /\ upstream # <<>> /\ upstream' = Tail(upstream)
    /\ LET p == Head(upstream)
       IN  HintTaken(p) \/ AnswerTaken(p) \/ AnswerInvalid(p) \/ ChatTaken(p)
           \/ Refused(p)
    /\ UNCHANGED late

\* A team has another agent, but no other spymaster.
OthersMove ==
    /\ UNCHANGED <<upstream, late>>
    /\ \/ DealAndTell \/ AbortAndTell
       \/ ClueAndTell /\ ~CanHint
       \/ \E c \in Card : GuessAndTell(c)

RoomStep ==
    /\ OthersMove \/ ReadPacket
    /\ UNCHANGED <<seat, notices, view, mode, running, scene, entering, staleEsc,
                   lost, restarted>>

NoticeStep ==
    /\ \E type \in {"WAIT_REPLY", "QUEUE_FULL"} : MatchNotice(type)
    /\ UNCHANGED <<seat, upstream, view, mode, running, scene, entering, staleEsc,
                   lost, restarted>>

ClientAlone == UNCHANGED <<vars, seat, notices, late>>

JointNext ==
    \/ RoomStep \/ NoticeStep
    \/ Client!ClientNext /\ ClientAlone /\ (lost' => seat \in Jammed)

JointSpec == JointInit /\ [][JointNext]_all

\* The main thread runs on, and a player whose game is over presses a key.
ClientFairness ==
    /\ WF_all(Client!Loop /\ ClientAlone /\ (lost' => seat \in Jammed))
    /\ WF_all(Client!LeaveGame /\ ClientAlone)

FairJointSpec == JointSpec /\ ClientFairness

-----------------------------------------------------------------------------
(* Invariants.                                                             *)

\* The variables of both sides hold values of their types.
JointTypeOK ==
    /\ Client!ClientTypeOK
    /\ seat \in Watched /\ notices \in 0 .. MaxNotices /\ late \in BOOLEAN
    /\ Len(inbox) <= MaxInFlight

\* The game runs, and everything the room has sent is on the screen.
UpToDate == result = "playing" /\ inbox = <<>> /\ ~lost

\* A client that has read everything, each message alone, shows the cards,
\* the turn, the phase, the guesses left and, until the first guess of a
\* turn, the score as the room has them, whatever an earlier game left on its
\* screen.
ScreenShowsRoom ==
    UpToDate =>
        /\ view.cards = "new" /\ view.revealed = revealed
        /\ view.turn = turn
        /\ view.step = IF guesses = 0 THEN "HINT_PHASE" ELSE "GUESS_PHASE"
        /\ IF guesses > 0 THEN view.tries = guesses
           ELSE view.red = Score("RED") /\ view.blue = Score("BLUE")

\* Messages that are swallowed hide cards of this game, but never show one
\* that is not open.
NothingShownTooEarly == view.cards = "new" => view.revealed \subseteq revealed

\* A client that is up to date and knows its player's name asks him for a
\* hint or an answer exactly when the room would take one from him: nobody
\* types in vain, and nobody is left without a prompt (TAB brings it back).
PromptMatchesRoom ==
    (UpToDate /\ seat.known /\ upstream = <<>>) =>
        /\ Client!AutoMode(view) = IF CanHint THEN "HINT_WORD"
                                   ELSE IF CanAnswer THEN "ANSWER" ELSE "NONE"
        /\ scene = "GAME" /\ ~entering =>
              /\ mode \in {"HINT_WORD", "HINT_COUNT"} => CanHint
              /\ mode = "ANSWER" => CanAnswer

\* A player who waited in the matching screen gets to the table: once all is
\* read, nothing but a matching message behind GAME_START, or the player
\* himself, takes the client off the phase PLAYING of a running game.
StartedGameIsShown ==
    (UpToDate /\ ~late /\ ~restarted) => view.phase = "PLAYING"

-----------------------------------------------------------------------------
(* What the documentation says and the code does not do.                   *)

\* The matching screen waits until the phase is PLAYING and reads WAIT_REPLY
\* and GAME_START on the way: a game that has started is not waited for.
WaitingEndsWithStart ==
    (UpToDate /\ ~restarted) =>
        ~ (scene = "MATCHING" /\ view.phase = "MATCHING")

-----------------------------------------------------------------------------
(* Liveness.                                                               *)

\* A player who sits at the table when the room says that the game is over
\* leaves it, unless GAME_OVER was swallowed.
EndedGameIsLeft ==
    (scene = "GAME" /\ result \notin {"setup", "playing"})
        ~> (scene # "GAME" \/ lost)
=============================================================================
