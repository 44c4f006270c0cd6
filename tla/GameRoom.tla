------------------------------ MODULE GameRoom ------------------------------
(***************************************************************************)
(* One GameManager of the server: the seats, the cards and the turn, the   *)
(* packets of the players that reach it from the worker threads, and the   *)
(* thread of IOCPServer::CreateGameRoom that seats the players.            *)
(*                                                                         *)
(* gameMutex_ makes ProcessHint, ProcessAnswer and ProcessChat atomic, so  *)
(* each is one action.  Three things are not atomic and are modelled step  *)
(* by step: a worker decides that a packet is a game packet (Dispatch)     *)
(* before it takes the mutex; the players are seated one by one; and       *)
(* EndGame, which holds the mutex, writes the results to the database and  *)
(* gives the sessions back to the lobby one by one while the other workers *)
(* keep reading the sessions' state.                                       *)
(*                                                                         *)
(* A definition named after another with a twist (MayActAfterTheEnd before *)
(* MayAct) is a fault one could make in that code; nothing uses it but the *)
(* mutation runs, which put it in the place of the definition that follows *)
(* to see that the properties notice.                                      *)
(***************************************************************************)
EXTENDS CodenamesBoard, Sequences

CONSTANTS
    Session,      \* the connections known to the room
    NoSession,    \* nullptr
    Roster,       \* the sessions handed to CreateGameRoom, in queue order
    Nick,         \* username_ of every session
    TeamSize,     \* players of a team, 3 in the code
    Unstable,     \* the sessions whose connection may drop
    Unsaved,      \* the seats for which the database may refuse the result
    HintNumber,   \* the numbers that arrive in HINT packets
    Word,         \* the words that arrive in ANSWER packets
    WordOf,       \* wordList_
    NoWord        \* "", the word of every card before the deal

MaxPlayers == 2 * TeamSize
Slot == 0 .. MaxPlayers - 1

ASSUME RoomAssumption ==
    /\ TeamSize \in Nat \ {0}
    /\ NoSession \notin Session
    /\ Roster \in [1 .. MaxPlayers -> Session]
    /\ Unstable \subseteq Session
    /\ Unsaved \subseteq Slot
    /\ HintNumber \subseteq Int
    /\ NoWord \notin Word
    /\ WordOf \in [Card -> Word]
    /\ Cardinality(Card) =
         RED_CARDS + BLUE_CARDS + NEUTRAL_CARDS + ASSASSIN_CARDS

TeamOf(i) == IF i < TeamSize THEN "RED" ELSE "BLUE"

IsSpymaster(i) == i = 0 \/ i = TeamSize

VARIABLES
    stage,           \* "seating", "started", "destroyed"
    seated,          \* how many players of the roster are dealt with
    slot,            \* players_[i].session
    cardType,        \* cards_[c].type
    used,            \* the cards with isUsed
    currentTurn, currentPhase, redScore, blueScore,
    remainingTries, hintCount, gameOver,
    winner,          \* the argument of EndGame, "SYSTEM" before
    lockOwner,       \* the session whose handler is inside EndGame
    endStep,         \* where EndGame's two loops over the players are
    recorded,        \* what SaveGameResult did for each seat
    attached,        \* sessions with state IN_GAME and this gameManager_
    open,            \* sessions with isClosed_ false
    dispatched,      \* sessions with a packet on its way into the room
    outbox           \* what the last step sent, in order

seats == <<stage, seated, slot>>
board == <<cardType, used, redScore, blueScore>>
flow == <<currentTurn, currentPhase, remainingTries, hintCount>>
ending == <<gameOver, winner, lockOwner, endStep, recorded>>
links == <<attached, open, dispatched>>
vars == <<seats, board, flow, ending, links, outbox>>

Phase == {"HINT_PHASE", "GUESS_PHASE"}
Verdict == {"none", "WIN", "LOSS", "FAILED"}

-----------------------------------------------------------------------------
(* What the room sends.  A message goes to seats, so a session that sits   *)
(* twice gets it twice; wording is left out.                               *)

Listeners == {i \in Slot : slot[i] # NoSession /\ slot[i] \in open}

Broadcast(m) == [to |-> Listeners, msg |-> m]

Chat == [type |-> "CHAT"]

TurnUpdate(turn, phase, red, blue) ==
    [type |-> "TURN_UPDATE", turn |-> turn, phase |-> phase,
     red |-> red, blue |-> blue]

GameOverMsg(team) == [type |-> "GAME_OVER", winner |-> team]

-----------------------------------------------------------------------------
Init ==
    /\ stage = "seating" /\ seated = 0
    /\ slot = [i \in Slot |-> NoSession]
    /\ cardType = BlankKey /\ used = {}
    /\ redScore = 0 /\ blueScore = 0
    /\ currentTurn = "RED" /\ currentPhase = "HINT_PHASE"
    /\ remainingTries = 0 /\ hintCount = 0
    /\ gameOver = FALSE /\ winner = "SYSTEM"
    /\ lockOwner = NoSession /\ endStep = 0
    /\ recorded = [i \in Slot |-> "none"]
    /\ attached = {} /\ open = Session /\ dispatched = {}
    /\ outbox = <<>>

LockFree == lockOwner = NoSession

-----------------------------------------------------------------------------
(* Seating and starting: the thread of CreateGameRoom.                     *)

IsFirstEmpty(i) ==
    /\ slot[i] = NoSession
    /\ \A j \in Slot : j < i => slot[j] # NoSession

SeatPlayer ==
    /\ stage = "seating" /\ seated < MaxPlayers
    /\ Roster[seated + 1] \in open
    /\ \E i \in Slot :
          /\ IsFirstEmpty(i)
          /\ slot' = [slot EXCEPT ![i] = Roster[seated + 1]]
    /\ seated' = seated + 1
    /\ attached' = attached \cup {Roster[seated + 1]}
    /\ outbox' = <<>>
    /\ UNCHANGED <<stage, board, flow, ending, open, dispatched>>

SkipClosedPlayer ==
    /\ stage = "seating" /\ seated < MaxPlayers
    /\ Roster[seated + 1] \notin open
    /\ seated' = seated + 1
    /\ outbox' = <<>>
    /\ UNCHANGED <<stage, slot, board, flow, ending, links>>

\* The shuffle, and every card face down again.
AssignCardsKeepingUsed == cardType' \in Deals /\ UNCHANGED used
AssignCardsOneByOne == cardType' \in [Card -> CardType] /\ used' = {}
AssignCards == cardType' \in Deals /\ used' = {}

AllSeated == \A i \in Slot : slot[i] # NoSession

StartGame ==
    /\ stage = "seating" /\ seated = MaxPlayers /\ AllSeated
    /\ stage' = "started"
    /\ AssignCards
    /\ redScore' = 0 /\ blueScore' = 0
    /\ currentTurn' = "RED" /\ currentPhase' = "HINT_PHASE"
    /\ remainingTries' = 0 /\ hintCount' = 0
    /\ gameOver' = FALSE
    /\ outbox' = <<Broadcast([type |-> "GAME_START"]),
                   Broadcast([type |-> "GAME_INIT"]),
                   Broadcast(Chat),
                   Broadcast([type |-> "ALL_CARDS"]),
                   Broadcast(TurnUpdate("RED", "HINT_PHASE", 0, 0))>>
    /\ UNCHANGED <<seated, slot, winner, lockOwner, endStep, recorded, links>>

\* ~GameManager.  It takes no lock: a destructor that ran under a worker
\* inside the room would be undefined behaviour, so the model lets it run
\* only when no packet is on its way in.
Destroy ==
    /\ dispatched = {}
    /\ stage' = "destroyed"
    /\ slot' = [i \in Slot |-> NoSession]
    /\ attached' = {}
    /\ outbox' = IF gameOver THEN <<>>
                 ELSE <<Broadcast(Chat), Broadcast(GameOverMsg("nobody"))>>
    /\ UNCHANGED <<seated, board, flow, ending, open, dispatched>>

\* StartGame returns false, and CreateGameRoom erases the room again.
StartGameFails ==
    /\ stage = "seating" /\ seated = MaxPlayers /\ ~AllSeated
    /\ Destroy

\* activeGames_ drops a running or finished room: IOCPServer::Stop, or
\* another room created under the same id.
RoomErased ==
    /\ stage = "started"
    /\ Destroy

-----------------------------------------------------------------------------
(* Connections and packets.                                                *)

\* Session::Close.  The seat keeps its pointer: nobody calls RemovePlayer.
Disconnect(s) ==
    /\ s \in open \cap Unstable
    /\ open' = open \ {s}
    /\ outbox' = <<>>
    /\ UNCHANGED <<seats, board, flow, ending, attached, dispatched>>

\* A worker has read IN_GAME and gameManager_ and calls HandleGamePacket.
\* One receive is outstanding per session, so one packet at most.
Dispatch(s) ==
    /\ s \in (attached \cap open) \ dispatched
    /\ dispatched' = dispatched \cup {s}
    /\ outbox' = <<>>
    /\ UNCHANGED <<seats, board, flow, ending, attached, open>>

\* FindPlayerIndex: the first seat whose session has the sender's nickname.
HasNickOf(i, s) == slot[i] # NoSession /\ Nick[slot[i]] = Nick[s]

IsIndexOf(i, s) ==
    /\ HasNickOf(i, s)
    /\ \A j \in Slot : HasNickOf(j, s) => i <= j

\* The checks the two validators share; IsClosed is read of the session in
\* the seat, which need not be the sender.
MayActAfterTheEnd(i) ==
    slot[i] # NoSession /\ slot[i] \in open /\ TeamOf(i) = currentTurn
MayActOutOfTurn(i) == ~gameOver /\ slot[i] # NoSession /\ slot[i] \in open
MayAct(i) ==
    /\ ~gameOver
    /\ slot[i] # NoSession
    /\ slot[i] \in open
    /\ TeamOf(i) = currentTurn

IsValidPlayerForHint(i) ==
    MayAct(i) /\ currentPhase = "HINT_PHASE" /\ IsSpymaster(i)

IsValidPlayerForAnswer(i) ==
    /\ MayAct(i) /\ currentPhase = "GUESS_PHASE" /\ ~IsSpymaster(i)
    /\ remainingTries > 0

\* The sender was still open when HandleGamePacket looked, and the mutex is
\* free now.
Handling(s) == s \in dispatched /\ s \in open /\ LockFree

Done(s) == dispatched' = dispatched \ {s}

\* A packet without effect: closed sender, unknown type, unparsable number,
\* or a validator that says no.
PacketIgnored(s) ==
    /\ s \in dispatched /\ s # lockOwner
    /\ Done(s)
    /\ outbox' = <<>>
    /\ UNCHANGED <<seats, board, flow, ending, attached, open>>

ProcessChat(s) ==
    /\ Handling(s) /\ ~gameOver
    /\ \E i \in Slot : IsIndexOf(i, s) /\ slot[i] \in open
    /\ Done(s)
    /\ outbox' = <<Broadcast(Chat)>>
    /\ UNCHANGED <<seats, board, flow, ending, attached, open>>

SwitchPhase ==
    currentPhase' = IF currentPhase = "HINT_PHASE"
                    THEN "GUESS_PHASE" ELSE "HINT_PHASE"

\* The number of the hint is not checked here.
ProcessHint(s, n) ==
    /\ Handling(s)
    /\ \E i \in Slot : IsIndexOf(i, s) /\ IsValidPlayerForHint(i)
    /\ hintCount' = n /\ remainingTries' = n
    /\ SwitchPhase
    /\ Done(s)
    /\ outbox' = <<Broadcast([type |-> "HINT", team |-> currentTurn,
                              number |-> n]),
                   Broadcast(TurnUpdate(currentTurn, currentPhase',
                                        redScore, blueScore))>>
    /\ UNCHANGED <<seats, board, currentTurn, ending, attached, open>>

-----------------------------------------------------------------------------
(* ProcessAnswer.                                                          *)

WordAt(c) == IF stage = "seating" THEN NoWord ELSE WordOf[c]

Candidates(w) == {c \in Card : WordAt(c) = w /\ c \notin used}

\* The loop over the cards stops at the first match.
IsAnswer(c, w) == c \in Candidates(w) /\ \A d \in Candidates(w) : c <= d

AnswersFrom(s, i) == IsIndexOf(i, s) /\ IsValidPlayerForAnswer(i)

AnswerInvalid(s, w) ==
    /\ Handling(s) /\ Candidates(w) = {}
    /\ \E i \in Slot :
          /\ AnswersFrom(s, i)
          /\ outbox' = <<[to |-> {i}, msg |-> [type |-> "ANSWER_RESULT"]]>>
    /\ Done(s)
    /\ UNCHANGED <<seats, board, flow, ending, attached, open>>

Own(c) == cardType[c] = currentTurn

RedAfterOwnTurn(c) ==
    redScore + (IF cardType[c] = "RED" /\ currentTurn = "RED" THEN 1 ELSE 0)
RedAfter(c) == redScore + (IF cardType[c] = "RED" THEN 1 ELSE 0)
BlueAfter(c) == blueScore + (IF cardType[c] = "BLUE" THEN 1 ELSE 0)
TriesAfter(c) == remainingTries - (IF Own(c) THEN 1 ELSE 0)

TurnEndsOneLate(c) ==
    cardType[c] # "ASSASSIN" /\ (Own(c) => TriesAfter(c) < 0)
TurnEnds(c) ==
    cardType[c] # "ASSASSIN" /\ (Own(c) => TriesAfter(c) <= 0)

CheckWinnerOneLate(red, blue) ==
    IF red > RED_CARDS THEN "RED"
    ELSE IF blue > BLUE_CARDS THEN "BLUE" ELSE "SYSTEM"
CheckWinner(red, blue) ==
    IF red >= RED_CARDS THEN "RED"
    ELSE IF blue >= BLUE_CARDS THEN "BLUE" ELSE "SYSTEM"

GameEnds(c) ==
    \/ cardType[c] = "ASSASSIN"
    \/ CheckWinner(RedAfter(c), BlueAfter(c)) # "SYSTEM"

WinnerBy(c) ==
    IF cardType[c] = "ASSASSIN" THEN Other(currentTurn)
    ELSE CheckWinner(RedAfter(c), BlueAfter(c))

\* What every uncovered card does: isUsed, the score of the card's colour
\* whoever plays, CARD_UPDATE and the chat line.
Uncover(s, w, c) ==
    /\ Handling(s) /\ IsAnswer(c, w)
    /\ \E i \in Slot : AnswersFrom(s, i)
    /\ used' = used \cup {c}
    /\ redScore' = RedAfter(c) /\ blueScore' = BlueAfter(c)
    /\ UNCHANGED <<seats, cardType, attached, open>>

CardUpdateBeforeCount(c) ==
    <<Broadcast([type |-> "CARD_UPDATE", card |-> c, tries |-> remainingTries]),
      Broadcast(Chat)>>
CardUpdate(c) ==
    <<Broadcast([type |-> "CARD_UPDATE", card |-> c, tries |-> TriesAfter(c)]),
      Broadcast(Chat)>>

AnswerContinues(s, w, c) ==
    /\ Uncover(s, w, c) /\ ~GameEnds(c) /\ ~TurnEnds(c)
    /\ remainingTries' = TriesAfter(c)
    /\ Done(s)
    /\ outbox' = CardUpdate(c)
    /\ UNCHANGED <<currentTurn, currentPhase, hintCount, ending>>

\* SwitchTurn.
AnswerEndsTurn(s, w, c) ==
    /\ Uncover(s, w, c) /\ ~GameEnds(c) /\ TurnEnds(c)
    /\ currentTurn' = Other(currentTurn)
    /\ currentPhase' = "HINT_PHASE"
    /\ remainingTries' = 0 /\ hintCount' = 0
    /\ Done(s)
    /\ outbox' = CardUpdate(c) \o
                 <<Broadcast(TurnUpdate(currentTurn', "HINT_PHASE",
                                        redScore', blueScore'))>>
    /\ UNCHANGED ending

\* EndGame up to its first loop.  The handler keeps gameMutex_, and its
\* session's next receive is not posted, until EndGameReturns.
AnswerEndsGame(s, w, c) ==
    /\ Uncover(s, w, c) /\ GameEnds(c)
    /\ remainingTries' = TriesAfter(c)
    /\ gameOver' = TRUE
    /\ winner' = WinnerBy(c)
    /\ lockOwner' = s /\ endStep' = 0
    /\ outbox' = CardUpdate(c) \o
                 <<Broadcast(Chat), Broadcast(GameOverMsg(winner'))>>
    /\ UNCHANGED <<currentTurn, currentPhase, hintCount, recorded, dispatched>>

ProcessAnswer(s, w) ==
    \/ AnswerInvalid(s, w)
    \/ \E c \in Card : \/ AnswerContinues(s, w, c)
                       \/ AnswerEndsTurn(s, w, c)
                       \/ AnswerEndsGame(s, w, c)

-----------------------------------------------------------------------------
(* The two loops of EndGame, one seat per step.                            *)

ResultByTurn(i) == IF TeamOf(i) = currentTurn THEN "WIN" ELSE "LOSS"
Result(i) == IF TeamOf(i) = winner THEN "WIN" ELSE "LOSS"

\* One loop instead of two.
SaveAndRelease(verdict) ==
    /\ lockOwner # NoSession /\ endStep < MaxPlayers
    /\ verdict = Result(endStep)
    /\ recorded' = [recorded EXCEPT ![endStep] = verdict]
    /\ attached' = attached \ {slot[endStep]}
    /\ endStep' = endStep + 1
    /\ outbox' = <<>>
    /\ UNCHANGED <<seats, board, flow, gameOver, winner, lockOwner, open,
                   dispatched>>

\* SaveGameResult may fail for one player and succeed for the next.
SaveResult(verdict) ==
    /\ lockOwner # NoSession /\ endStep < MaxPlayers
    /\ slot[endStep] # NoSession
    /\ \/ verdict = Result(endStep)
       \/ verdict = "FAILED" /\ endStep \in Unsaved
    /\ recorded' = [recorded EXCEPT ![endStep] = verdict]
    /\ endStep' = endStep + 1
    /\ outbox' = <<>>
    /\ UNCHANGED <<seats, board, flow, gameOver, winner, lockOwner, links>>

ReleaseOpenPlayer ==
    /\ lockOwner # NoSession
    /\ endStep \in MaxPlayers .. 2 * MaxPlayers - 1
    /\ slot[endStep - MaxPlayers] \in open
    /\ attached' = attached \ {slot[endStep - MaxPlayers]}
    /\ endStep' = endStep + 1
    /\ outbox' = <<>>
    /\ UNCHANGED <<seats, board, flow, gameOver, winner, lockOwner, recorded,
                   open, dispatched>>
ReleasePlayer ==
    /\ lockOwner # NoSession
    /\ endStep \in MaxPlayers .. 2 * MaxPlayers - 1
    /\ slot[endStep - MaxPlayers] # NoSession
    /\ attached' = attached \ {slot[endStep - MaxPlayers]}
    /\ endStep' = endStep + 1
    /\ outbox' = <<>>
    /\ UNCHANGED <<seats, board, flow, gameOver, winner, lockOwner, recorded,
                   open, dispatched>>

EndGameReturns ==
    /\ lockOwner # NoSession /\ endStep = 2 * MaxPlayers
    /\ lockOwner' = NoSession
    /\ Done(lockOwner)
    /\ outbox' = <<>>
    /\ UNCHANGED <<seats, board, flow, gameOver, winner, endStep, recorded,
                   attached, open>>

EndGameStep ==
    (\E v \in Verdict : SaveResult(v)) \/ ReleasePlayer \/ EndGameReturns

-----------------------------------------------------------------------------
Setup == SeatPlayer \/ SkipClosedPlayer \/ StartGame \/ StartGameFails

Packet(s) ==
    \/ Dispatch(s)
    \/ PacketIgnored(s)
    \/ ProcessChat(s)
    \/ \E n \in HintNumber : ProcessHint(s, n)
    \/ \E w \in Word \cup {NoWord} : ProcessAnswer(s, w)

Next ==
    \/ Setup
    \/ RoomErased
    \/ EndGameStep
    \/ \E s \in Session : Disconnect(s) \/ Packet(s)

Spec == Init /\ [][Next]_vars

\* A worker that holds the mutex and the thread that fills the room go on
\* running.
ServerFairness == WF_vars(Setup) /\ WF_vars(EndGameStep)

\* Players who keep playing: each keeps sending packets, and hints and
\* answers that would count do not stay away for ever.
PlayerFairness ==
    /\ \A s \in Session : WF_vars(Dispatch(s))
    /\ SF_vars(\E s \in Session, n \in HintNumber : ProcessHint(s, n))
    /\ SF_vars(\E s \in Session, w \in Word, c \in Card :
                  \/ AnswerContinues(s, w, c)
                  \/ AnswerEndsTurn(s, w, c)
                  \/ AnswerEndsGame(s, w, c))

FairSpec == Spec /\ ServerFairness /\ PlayerFairness

-----------------------------------------------------------------------------
(* Invariants.                                                             *)

\* The variables hold values of the types GameManager.h declares.
TypeOK ==
    /\ stage \in {"seating", "started", "destroyed"}
    /\ seated \in 0 .. MaxPlayers
    /\ slot \in [Slot -> Session \cup {NoSession}]
    /\ cardType \in Deals \cup {BlankKey}
    /\ used \in SUBSET Card
    /\ redScore \in Nat /\ blueScore \in Nat
    /\ currentTurn \in Team /\ currentPhase \in Phase
    /\ remainingTries \in Int /\ hintCount \in Int
    /\ gameOver \in BOOLEAN /\ winner \in Team \cup {"SYSTEM"}
    /\ lockOwner \in Session \cup {NoSession}
    /\ endStep \in 0 .. 2 * MaxPlayers
    /\ recorded \in [Slot -> Verdict]
    /\ attached \in SUBSET Session
    /\ open \in SUBSET Session
    /\ dispatched \in SUBSET Session

Dealt == cardType # BlankKey

AssassinOpen == \E c \in used : cardType[c] = "ASSASSIN"

AllOpen(t) == OfType(cardType, t) \subseteq used

\* The score counters of ProcessAnswer, which are all CheckWinner looks at,
\* agree with the uncovered cards, whichever team uncovered them and whatever
\* was played before StartGame reset the room.
ScoreMatchesBoard ==
    /\ redScore = Cardinality(used \cap OfType(cardType, "RED"))
    /\ blueScore = Cardinality(used \cap OfType(cardType, "BLUE"))

\* EndGame has been called exactly when the board is decided, and with the
\* right team: the other one if the assassin lies open, else the one team
\* whose cards are all uncovered, even if the opponent uncovered the last.
OutcomeMatchesBoard ==
    Dealt =>
        /\ gameOver <=> AssassinOpen \/ AllOpen("RED") \/ AllOpen("BLUE")
        /\ ~ (AllOpen("RED") /\ AllOpen("BLUE"))
        /\ gameOver => winner = IF AssassinOpen THEN Other(currentTurn)
                                ELSE IF AllOpen("RED") THEN "RED" ELSE "BLUE"

CanHint(s) ==
    \E i \in Slot : IsIndexOf(i, s) /\ IsValidPlayerForHint(i)

CanAnswer(s) ==
    /\ \E i \in Slot : IsIndexOf(i, s) /\ IsValidPlayerForAnswer(i)
    /\ \E w \in Word : Candidates(w) # {}

\* As long as everybody is connected, a game that is not over has a player
\* whose next packet moves it on: no phase without its player, no guessing
\* phase without guesses or without cards.
NoStall ==
    (stage = "started" /\ ~gameOver /\ open = Session) =>
        \E s \in attached : CanHint(s) \/ CanAnswer(s)

\* SaveGameResult gets WIN for the players of the winning team and LOSS for
\* the others, only for a finished game, and for everybody before EndGame is
\* left.
ResultsMatchOutcome ==
    \A i \in Slot :
        /\ recorded[i] # "none" => gameOver
        /\ recorded[i] = "WIN" => TeamOf(i) = winner
        /\ recorded[i] = "LOSS" => TeamOf(i) # winner
        /\ (gameOver /\ LockFree) => recorded[i] # "none"

\* A player of a started room is back in the lobby, where the next match can
\* be asked for, only after the results of the whole room were handed to the
\* database.
LobbyAfterResults ==
    \A i \in Slot :
        (stage = "started" /\ slot[i] \notin attached) =>
            \A j \in Slot : recorded[j] # "none"

\* What makes the two board invariants inductive: nothing is over, and
\* nothing dealt, while the room is being filled.
BoardInv ==
    /\ TypeOK
    /\ ScoreMatchesBoard
    /\ OutcomeMatchesBoard
    /\ gameOver => Dealt
    /\ stage = "seating" => ~Dealt
    /\ stage = "started" => Dealt

\* What makes the two result invariants inductive: how far the loops of
\* EndGame are says which seats are recorded and which are released.
EndGameInv ==
    /\ lockOwner # NoSession => lockOwner \in dispatched /\ gameOver
    /\ gameOver /\ lockOwner = NoSession => endStep = 2 * MaxPlayers
    /\ ~gameOver => endStep = 0
    /\ stage = "started" => AllSeated
    /\ \A i \in Slot :
          /\ recorded[i] # "none" <=> i < endStep
          /\ recorded[i] = "WIN" => TeamOf(i) = winner
          /\ recorded[i] = "LOSS" => TeamOf(i) # winner
          /\ (stage # "destroyed" /\ slot[i] \notin attached) =>
                slot[i] = NoSession \/ endStep > MaxPlayers

\* With hint numbers above zero: the guessing phase of a running game always
\* has a guess left, and the hint phase none.  A destroyed room has no seats.
TurnInv ==
    /\ (stage = "started" /\ ~gameOver) =>
          IF currentPhase = "HINT_PHASE" THEN remainingTries = 0
                                         ELSE remainingTries > 0
    /\ stage = "destroyed" => \A i \in Slot : slot[i] = NoSession

\* Players of the roster are told apart by their nicknames.
NickInv ==
    /\ \A i \in Slot :
          slot[i] # NoSession => \E k \in 1 .. seated : slot[i] = Roster[k]
    /\ \A i, j \in Slot :
          (HasNickOf(i, slot[j]) /\ slot[j] # NoSession) => i = j

-----------------------------------------------------------------------------
(* Action properties.                                                      *)

\* A packet that was on its way when the game ended changes nothing of it.
FinishedGameIsFrozen ==
    [][gameOver => UNCHANGED <<board, flow, gameOver, winner>>]_vars

\* A card is uncovered only by a packet of a player who sits, as an agent, in
\* the team on turn: the nickname lookup credits no other seat.
OnlyAgentsOnTurnUncover ==
    [][used' \ used # {} =>
          \E s \in dispatched, i \in Slot :
              /\ s \notin dispatched' \/ lockOwner' = s
              /\ slot[i] = s
              /\ TeamOf(i) = currentTurn /\ ~IsSpymaster(i)]_vars

\* Told(m): the last thing the step sent, to everybody connected, was m.
Told(m) == outbox' # <<>> /\ outbox'[Len(outbox')] = [to |-> Listeners, msg |-> m]

\* A client that follows the packets can follow the room: whatever the
\* handler that changes it, a card is told with the guesses that are left, a
\* new turn or phase with the score, and the end of the game with its winner,
\* after everything else the handler sends.
ChangesAreTold ==
    [][/\ \A c \in used' \ used :
             \E k \in DOMAIN outbox' :
                 /\ outbox'[k].to = Listeners
                 /\ outbox'[k].msg.type = "CARD_UPDATE"
                 /\ outbox'[k].msg.card = c
                 /\ currentTurn' = currentTurn =>
                       outbox'[k].msg.tries = remainingTries'
       /\ <<currentTurn, currentPhase>>' # <<currentTurn, currentPhase>> =>
             Told(TurnUpdate(currentTurn', currentPhase', redScore', blueScore'))
       /\ gameOver' # gameOver => Told(GameOverMsg(winner'))]_vars

\* No seat is credited twice for one game.
ResultWrittenOnce ==
    [][\A i \in Slot : recorded[i] # "none" => recorded'[i] = recorded[i]]_vars

-----------------------------------------------------------------------------
(* Liveness and refinement.                                                *)

\* EndGame, once entered, records everybody and gives every session back to
\* the lobby.
EndGameCompletes ==
    gameOver ~> (LockFree /\ attached = {})

\* When the players keep playing and stay connected, the game ends.
GameFinishes ==
    (stage = "started") ~>
        (gameOver \/ stage = "destroyed" \/ open # Session)

\* Packets handled while the players are still being seated can move turn,
\* phase and cards, but StartGame wipes all of it; towards the rules such a
\* room is a board that has not been dealt.
Rules == INSTANCE CodenamesRules WITH
    Boards <- Deals, NoBoard <- BlankKey,
    ClueNumber <- HintNumber,
    key <- cardType,
    revealed <- IF Dealt THEN used ELSE {},
    turn <- IF Dealt THEN currentTurn ELSE "RED",
    guesses <- IF stage = "started" /\ ~gameOver THEN remainingTries ELSE 0,
    result <- IF gameOver THEN winner
              ELSE IF stage = "seating" THEN "setup"
              ELSE IF stage = "started" THEN "playing" ELSE "aborted"

\* The room implements the rules of the game.
RulesSpec == Rules!Spec
=============================================================================
