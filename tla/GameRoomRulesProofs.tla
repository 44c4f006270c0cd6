------------------------ MODULE GameRoomRulesProofs ------------------------
(***************************************************************************)
(* GameRoom implements CodenamesRules, and never leaves its players        *)
(* without a move.  Both need what the server takes on trust from its      *)
(* clients: hint numbers above zero, and (for the second) players with     *)
(* different nicknames.                                                    *)
(***************************************************************************)
EXTENDS GameRoomProofs

PositiveHints == HintNumber \subseteq Nat \ {0}

\* The steps that neither start nor destroy the room, give a hint nor
\* uncover a card.
LEMMA QuietTurnStep ==
    ASSUME TurnInv,
           UNCHANGED <<stage, slot, gameOver, currentPhase, remainingTries>>
    PROVE  TurnInv'
  BY DEF TurnInv

\* Init establishes the turn invariant.
LEMMA TurnInit == Init => TurnInv
  BY DEF Init, TurnInv

\* Every step preserves the turn invariant.
LEMMA TurnStep ==
    ASSUME PositiveHints
    PROVE  BoardInv /\ TurnInv /\ [Next]_vars => TurnInv'
  <1> SUFFICES ASSUME BoardInv, TurnInv, [Next]_vars PROVE TurnInv'
    OBVIOUS
  <1>0. TypeOK
    BY DEF BoardInv
  <1>1. CASE SeatPlayer
    BY <1>1 DEF SeatPlayer, TurnInv
  <1>2. CASE SkipClosedPlayer
    BY <1>2, QuietTurnStep DEF SkipClosedPlayer, flow, ending
  <1>3. CASE StartGame
    BY <1>3 DEF StartGame, AssignCards, TurnInv
  <1>4. CASE Destroy
    BY <1>4 DEF Destroy, TurnInv
  <1>5. CASE EndGameStep
    BY <1>5, QuietTurnStep
    DEF EndGameStep, SaveResult, ReleasePlayer, EndGameReturns, seats, flow
  <1>6. ASSUME NEW s \in Session, Disconnect(s) PROVE TurnInv'
    BY <1>6, QuietTurnStep DEF Disconnect, seats, flow, ending
  <1>7. ASSUME NEW s \in Session, Packet(s) PROVE TurnInv'
    <2>1. CASE Dispatch(s) \/ PacketIgnored(s) \/ ProcessChat(s)
      BY <2>1, QuietTurnStep
      DEF Dispatch, PacketIgnored, ProcessChat, seats, flow, ending
    <2>2. ASSUME NEW n \in HintNumber, ProcessHint(s, n) PROVE TurnInv'
      <3>1. n > 0
        BY DEF PositiveHints
      <3>2. currentPhase' = "GUESS_PHASE" /\ remainingTries' = n
        BY <2>2 DEF ProcessHint, SwitchPhase, IsValidPlayerForHint
      <3> QED
        BY <2>2, <3>1, <3>2 DEF ProcessHint, TurnInv, seats, ending
    <2>3. ASSUME NEW w, AnswerInvalid(s, w) PROVE TurnInv'
      BY <2>3, QuietTurnStep DEF AnswerInvalid, seats, flow, ending
    <2>4. ASSUME NEW w, NEW c \in Card, AnswerContinues(s, w, c)
          PROVE  TurnInv'
      <3>1. currentPhase = "GUESS_PHASE" /\ UNCHANGED <<stage, slot>>
        BY <2>4
        DEF AnswerContinues, Uncover, AnswersFrom, IsValidPlayerForAnswer,
            seats
      <3>2. remainingTries' > 0
        BY <1>0, <2>4
        DEF AnswerContinues, TurnEnds, GameEnds, TriesAfter, TypeOK
      <3> QED
        BY <2>4, <3>1, <3>2 DEF AnswerContinues, TurnInv
    <2>5. ASSUME NEW w, NEW c \in Card, AnswerEndsTurn(s, w, c)
          PROVE  TurnInv'
      BY <2>5 DEF AnswerEndsTurn, Uncover, TurnInv, seats
    <2>6. ASSUME NEW w, NEW c \in Card, AnswerEndsGame(s, w, c)
          PROVE  TurnInv'
      BY <2>6 DEF AnswerEndsGame, Uncover, TurnInv, seats
    <2> QED
      BY <1>7, <2>1, <2>2, <2>3, <2>4, <2>5, <2>6 DEF Packet, ProcessAnswer
  <1>8. CASE UNCHANGED vars
    BY <1>8, QuietTurnStep DEF vars, seats, flow, ending
  <1> QED
    BY <1>1, <1>2, <1>3, <1>4, <1>5, <1>6, <1>7, <1>8
    DEF Next, Setup, StartGameFails, RoomErased

\* The turn invariant holds throughout.
LEMMA TurnCorrect ==
    ASSUME PositiveHints PROVE Spec => []TurnInv
  <1> QED
    BY TurnInit, TurnStep, BoardCorrect, PTL DEF Spec

-----------------------------------------------------------------------------
(* The refinement.                                                         *)

\* What the rules see of the room.
SeenRevealed == IF Dealt THEN used ELSE {}
SeenTurn == IF Dealt THEN currentTurn ELSE "RED"
SeenGuesses ==
    IF stage = "started" /\ ~gameOver THEN remainingTries ELSE 0
SeenResult ==
    IF gameOver THEN winner
    ELSE IF stage = "seating" THEN "setup"
    ELSE IF stage = "started" THEN "playing" ELSE "aborted"

\* A step that changes nothing the rules see.
LEMMA UnseenStep ==
    ASSUME UNCHANGED <<cardType, SeenRevealed, SeenTurn, SeenGuesses,
                       SeenResult>>
    PROVE  UNCHANGED Rules!vars
  BY DEF Rules!vars, SeenRevealed, SeenTurn, SeenGuesses, SeenResult

\* A step that moves neither the stage nor a running game.
LEMMA IdleStep ==
    ASSUME UNCHANGED <<stage, cardType, used, currentTurn, gameOver, winner>>,
           stage = "started" /\ ~gameOver => UNCHANGED remainingTries
    PROVE  UNCHANGED Rules!vars
  BY UnseenStep
  DEF SeenRevealed, SeenTurn, SeenGuesses, SeenResult, Dealt

\* Initial rooms are boards that have not been dealt.
LEMMA RulesInit == Init => Rules!Init
  BY DEF Init, Rules!Init, Dealt

\* The rules read the outcome off the board as the room does.
LEMMA RulesOutcome ==
    ASSUME NEW k, NEW R, NEW t
    PROVE  Rules!Outcome(k, R, t) =
             IF \E c \in R : k[c] = "ASSASSIN" THEN Other(t)
             ELSE IF OfType(k, "RED") \subseteq R THEN "RED"
             ELSE IF OfType(k, "BLUE") \subseteq R THEN "BLUE"
             ELSE "playing"
  BY DEF Rules!Outcome, Rules!Other, Other, Rules!Complete, OfType

\* StartGame deals.
LEMMA StartDeals ==
    ASSUME BoardInv, StartGame PROVE Rules!Deal
  <1>1. ~gameOver /\ ~Dealt /\ stage = "seating"
    BY DEF StartGame, AssignCards, BoardInv
  <1>2. /\ stage' = "started" /\ gameOver' = FALSE /\ used' = {}
        /\ currentTurn' = "RED" /\ remainingTries' = 0
    BY DEF StartGame, AssignCards
  <1>3. cardType' \in Deals /\ Dealt'
    BY DealFacts DEF StartGame, AssignCards, Dealt
  <1> QED
    BY <1>1, <1>2, <1>3 DEF Rules!Deal

\* A packet handled in a room that is being filled is invisible: what it may
\* have changed is wiped by StartGame.
LEMMA SeatingUnseen ==
    ASSUME BoardInv, stage = "seating", UNCHANGED <<stage, cardType, gameOver>>
    PROVE  UNCHANGED Rules!vars
  <1>1. ~gameOver /\ ~gameOver' /\ ~Dealt /\ ~Dealt' /\ stage' = "seating"
    BY DEF BoardInv, Dealt
  <1> QED
    BY <1>1, UnseenStep DEF SeenRevealed, SeenTurn, SeenGuesses, SeenResult

\* ProcessHint in a started room is a clue.
LEMMA HintIsClue ==
    ASSUME BoardInv, TurnInv, stage = "started",
           NEW s \in Session, NEW n \in HintNumber, ProcessHint(s, n)
    PROVE  Rules!Clue
  <1>1. ~gameOver /\ currentPhase = "HINT_PHASE"
    BY DEF ProcessHint, IsValidPlayerForHint, MayAct
  <1>2. remainingTries = 0
    BY <1>1 DEF TurnInv
  <1>3. /\ remainingTries' = n
        /\ UNCHANGED <<stage, cardType, used, currentTurn, gameOver, winner>>
    BY DEF ProcessHint, seats, board, ending
  <1>4. ~gameOver' /\ stage' = "started" /\ (Dealt' <=> Dealt)
    BY <1>1, <1>3 DEF Dealt
  <1>5. UNCHANGED <<SeenRevealed, SeenTurn>>
    BY <1>3, <1>4 DEF SeenRevealed, SeenTurn
  <1> QED
    BY <1>1, <1>2, <1>3, <1>4, <1>5
    DEF Rules!Clue, SeenRevealed, SeenTurn

\* What an answer that uncovers a card of a started room starts from.
LEMMA UncoverStarted ==
    ASSUME BoardInv, stage = "started",
           NEW s, NEW w, NEW c \in Card, Uncover(s, w, c)
    PROVE  /\ ~gameOver /\ remainingTries \in Int /\ remainingTries > 0
           /\ c \notin used /\ used' = used \cup {c}
           /\ UNCHANGED <<stage, cardType>>
  <1>1. remainingTries > 0
    BY DEF Uncover, AnswersFrom, IsValidPlayerForAnswer
  <1> QED
    BY <1>1, AnswererPlays, UncoverFresh DEF Uncover, seats, BoardInv, TypeOK

\* An uncovered card of a started room is a guess.
LEMMA AnswerIsGuess ==
    ASSUME BoardInv, BoardInv', TurnInv, stage = "started", Dealt,
           NEW s \in Session, NEW w, NEW c \in Card,
           \/ AnswerContinues(s, w, c)
           \/ AnswerEndsTurn(s, w, c)
           \/ AnswerEndsGame(s, w, c)
    PROVE  Rules!Guess(c)
  <1>1. Uncover(s, w, c)
    BY DEF AnswerContinues, AnswerEndsTurn, AnswerEndsGame
  <1>2. /\ ~gameOver /\ remainingTries \in Int /\ remainingTries > 0
        /\ c \notin used /\ used' = used \cup {c}
        /\ UNCHANGED <<stage, cardType>>
    BY <1>1, UncoverStarted
  <1>3. Dealt' /\ stage' = "started"
    BY <1>2 DEF Dealt
  <1> DEFINE outcome == Rules!Outcome(cardType, used', currentTurn)
  <1>4. outcome = IF gameOver' THEN WinnerBy(c) ELSE "playing"
    <2>1. gameOver' <=> GameEnds(c)
      BY <1>2 DEF AnswerContinues, AnswerEndsTurn, AnswerEndsGame, ending
    <2>2. outcome = IF AssassinOpen' THEN Other(currentTurn)
                    ELSE IF AllOpen("RED")' THEN "RED"
                    ELSE IF AllOpen("BLUE")' THEN "BLUE" ELSE "playing"
      BY <1>2, RulesOutcome DEF AssassinOpen, AllOpen
    <2> QED
      BY <1>1, <1>2, <2>1, <2>2, UncoverDecides
  <1>5. WinnerBy(c) # "playing"
    BY OtherTeam DEF WinnerBy, CheckWinner, BoardInv, TypeOK, Team
  <1>6. CASE AnswerEndsGame(s, w, c)
    <2>1. /\ gameOver' = TRUE /\ winner' = WinnerBy(c)
          /\ currentTurn' = currentTurn
      BY <1>6 DEF AnswerEndsGame
    <2> QED
      BY <1>2, <1>3, <1>4, <1>5, <2>1 DEF Rules!Guess
  <1>7. CASE AnswerContinues(s, w, c)
    <2>1. /\ ~gameOver' /\ currentTurn' = currentTurn
          /\ remainingTries' = TriesAfter(c)
          /\ ~TurnEnds(c) /\ ~GameEnds(c)
      BY <1>2, <1>7 DEF AnswerContinues, ending
    <2>2. /\ cardType[c] = currentTurn
          /\ remainingTries' = remainingTries - 1 /\ remainingTries > 1
      BY <1>2, <2>1 DEF TurnEnds, GameEnds, TriesAfter, Own
    <2> QED
      BY <1>2, <1>3, <1>4, <2>1, <2>2 DEF Rules!Guess
  <1>8. CASE AnswerEndsTurn(s, w, c)
    <2>1. /\ ~gameOver' /\ currentTurn' = Other(currentTurn)
          /\ remainingTries' = 0 /\ TurnEnds(c)
      BY <1>2, <1>8 DEF AnswerEndsTurn, ending
    <2>2. cardType[c] # currentTurn \/ remainingTries = 1
      BY <1>2, <2>1 DEF TurnEnds, TriesAfter, Own
    <2>3. Rules!Other(currentTurn) = Other(currentTurn)
      BY DEF Rules!Other, Other
    <2> QED
      BY <1>2, <1>3, <1>4, <2>1, <2>2, <2>3 DEF Rules!Guess
  <1> QED
    BY <1>6, <1>7, <1>8

\* ~GameManager aborts a game that is not over, and is invisible otherwise.
LEMMA DestroyAborts ==
    ASSUME BoardInv, Destroy, stage # "destroyed"
    PROVE  Rules!Abort \/ UNCHANGED Rules!vars
  <1>1. /\ stage' = "destroyed"
        /\ UNCHANGED <<cardType, used, currentTurn, gameOver, winner>>
    BY DEF Destroy, board, flow, ending
  <1>2. UNCHANGED <<SeenRevealed, SeenTurn>>
    BY <1>1 DEF SeenRevealed, SeenTurn, Dealt
  <1>3. CASE gameOver
    <2>1. UNCHANGED <<SeenGuesses, SeenResult>>
      BY <1>1, <1>3 DEF SeenGuesses, SeenResult
    <2> QED
      BY <1>1, <1>2, <2>1, UnseenStep
  <1>4. CASE ~gameOver
    <2>1. SeenResult \in {"setup", "playing"} /\ SeenResult' = "aborted"
          /\ SeenGuesses' = 0
      BY <1>1, <1>4 DEF SeenResult, SeenGuesses, BoardInv, TypeOK
    <2> QED
      BY <1>1, <1>2, <2>1
      DEF Rules!Abort, SeenRevealed, SeenTurn, SeenGuesses, SeenResult
  <1> QED
    BY <1>3, <1>4

\* An answer, wherever it arrives, is a guess or invisible.
LEMMA AnswerRefines ==
    ASSUME BoardInv, BoardInv', TurnInv,
           NEW s \in Session, NEW w, ProcessAnswer(s, w)
    PROVE  (\E c \in Card : Rules!Guess(c)) \/ UNCHANGED Rules!vars
  <1>1. CASE AnswerInvalid(s, w)
    BY <1>1, IdleStep DEF AnswerInvalid, seats, board, flow, ending
  <1>2. ASSUME NEW c \in Card,
               \/ AnswerContinues(s, w, c)
               \/ AnswerEndsTurn(s, w, c)
               \/ AnswerEndsGame(s, w, c)
        PROVE  Rules!Guess(c) \/ UNCHANGED Rules!vars
    <2>1. Uncover(s, w, c)
      BY <1>2 DEF AnswerContinues, AnswerEndsTurn, AnswerEndsGame
    <2>2. stage # "destroyed"
      BY <2>1 DEF Uncover, AnswersFrom, IsIndexOf, HasNickOf, TurnInv
    <2>3. CASE Dealt
      <3>1. stage = "started"
        BY <2>2, <2>3 DEF BoardInv, TypeOK
      <3> QED
        BY <1>2, <2>3, <3>1, AnswerIsGuess
    <2>4. CASE ~Dealt
      <3>1. UNCHANGED <<stage, cardType>> /\ ~gameOver
        BY <2>1, AnswererPlays DEF Uncover, seats
      <3>2. UNCHANGED gameOver
        <4>1. ~GameEnds(c)
          BY <2>1, <2>4, <3>1, UncoverDecides
        <4> QED
          BY <1>2, <4>1
          DEF AnswerContinues, AnswerEndsTurn, AnswerEndsGame, ending
      <3>3. ~Dealt'
        BY <2>4, <3>1 DEF Dealt
      <3>4. stage = "seating"
        BY <2>2, <2>4 DEF BoardInv, TypeOK
      <3> QED
        BY <3>1, <3>2, <3>4, SeatingUnseen
    <2> QED
      BY <2>3, <2>4
  <1> QED
    BY <1>1, <1>2 DEF ProcessAnswer

\* Every step of the room is a step of the rules or invisible to them.
LEMMA RulesStep ==
    BoardInv /\ BoardInv' /\ TurnInv /\ [Next]_vars =>
      Rules!Next \/ UNCHANGED Rules!vars
  <1> SUFFICES ASSUME BoardInv, BoardInv', TurnInv, [Next]_vars
               PROVE  Rules!Next \/ UNCHANGED Rules!vars
    OBVIOUS
  <1>1. CASE SeatPlayer \/ SkipClosedPlayer
    BY <1>1, IdleStep DEF SeatPlayer, SkipClosedPlayer, board, flow, ending
  <1>2. CASE StartGame
    BY <1>2, StartDeals DEF Rules!Next
  <1>3. CASE StartGameFails \/ RoomErased
    <2>1. Destroy /\ stage # "destroyed"
      BY <1>3 DEF StartGameFails, RoomErased
    <2> QED
      BY <2>1, DestroyAborts DEF Rules!Next
  <1>4. CASE EndGameStep
    BY <1>4, IdleStep
    DEF EndGameStep, SaveResult, ReleasePlayer, EndGameReturns,
        seats, board, flow
  <1>5. ASSUME NEW s \in Session, Disconnect(s)
        PROVE  UNCHANGED Rules!vars
    BY <1>5, IdleStep DEF Disconnect, seats, board, flow, ending
  <1>6. ASSUME NEW s \in Session, Packet(s)
        PROVE  Rules!Next \/ UNCHANGED Rules!vars
    <2>1. CASE Dispatch(s) \/ PacketIgnored(s) \/ ProcessChat(s)
      BY <2>1, IdleStep
      DEF Dispatch, PacketIgnored, ProcessChat, seats, board, flow, ending
    <2>2. ASSUME NEW n \in HintNumber, ProcessHint(s, n)
          PROVE  Rules!Next \/ UNCHANGED Rules!vars
      <3>1. stage # "destroyed"
        BY <2>2 DEF ProcessHint, IsIndexOf, HasNickOf, TurnInv
      <3>2. CASE stage = "started"
        BY <2>2, <3>2, HintIsClue DEF Rules!Next
      <3>3. CASE stage = "seating"
        BY <2>2, <3>3, SeatingUnseen DEF ProcessHint, seats, board, ending
      <3> QED
        BY <3>1, <3>2, <3>3 DEF BoardInv, TypeOK
    <2>3. ASSUME NEW w, ProcessAnswer(s, w)
          PROVE  Rules!Next \/ UNCHANGED Rules!vars
      BY <2>3, AnswerRefines DEF Rules!Next
    <2> QED
      BY <1>6, <2>1, <2>2, <2>3 DEF Packet
  <1>7. CASE UNCHANGED vars
    BY <1>7, IdleStep DEF vars, seats, board, flow, ending
  <1> QED
    BY <1>1, <1>2, <1>3, <1>4, <1>5, <1>6, <1>7 DEF Next, Setup

\* With hint numbers above zero a room implements the rules of the game: no
\* interleaving of packets, disconnections, seating and destruction shows the
\* players a turn, a card or an outcome the rules do not allow.
THEOREM RefinesRules ==
    ASSUME PositiveHints PROVE Spec => RulesSpec
  <1> QED
    BY RulesInit, RulesStep, BoardCorrect, TurnCorrect, PTL
    DEF Spec, RulesSpec, Rules!Spec

-----------------------------------------------------------------------------
(* No stall.                                                               *)

\* Every account plays once.
DistinctPlayers ==
    \A j, k \in 1 .. MaxPlayers : Nick[Roster[j]] = Nick[Roster[k]] => j = k

\* Every account plays once, and a team has an agent.
FairRoster == TeamSize > 1 /\ DistinctPlayers

\* Init establishes the invariant of the seats.
LEMMA NickInit == Init => NickInv
  BY DEF Init, NickInv, HasNickOf

\* Every step preserves the invariant of the seats.
LEMMA NickStep ==
    ASSUME DistinctPlayers
    PROVE  TypeOK /\ NickInv /\ [Next]_vars => NickInv'
  <1> SUFFICES ASSUME TypeOK, NickInv, [Next]_vars PROVE NickInv'
    OBVIOUS
  <1>1. CASE SeatPlayer
    <2> DEFINE s == Roster[seated + 1]
    <2>1. PICK i \in Slot : slot[i] = NoSession /\ slot' = [slot EXCEPT ![i] = s]
      BY <1>1 DEF SeatPlayer, IsFirstEmpty
    <2>2. /\ seated \in 0 .. MaxPlayers - 1 /\ seated' = seated + 1
          /\ s \in Session /\ s # NoSession
      BY <1>1, SlotFacts, RoomAssumption DEF SeatPlayer, TypeOK
    <2>3. \A j \in Slot : slot'[j] = IF j = i THEN s ELSE slot[j]
      BY <2>1 DEF TypeOK
    <2>4. \A k \in 1 .. seated : Nick[Roster[k]] # Nick[s]
      BY <2>2, SlotFacts DEF DistinctPlayers
    <2>5. \A j \in Slot : slot[j] # NoSession => Nick[slot[j]] # Nick[s]
      BY <2>4 DEF NickInv
    <2>6. \A j \in Slot :
             slot'[j] # NoSession => \E k \in 1 .. seated' : slot'[j] = Roster[k]
      <3>1. seated + 1 \in 1 .. seated' /\ \A k \in 1 .. seated : k \in 1 .. seated'
        BY <2>2, SlotFacts
      <3> QED
        BY <2>3, <3>1 DEF NickInv
    <2> QED
      BY <2>3, <2>5, <2>6 DEF NickInv, HasNickOf
  <1>2. CASE SkipClosedPlayer
    <2>1. \A k \in 1 .. seated : k \in 1 .. seated'
      BY <1>2 DEF SkipClosedPlayer, TypeOK
    <2> QED
      BY <1>2, <2>1 DEF SkipClosedPlayer, NickInv, HasNickOf
  <1>3. CASE Destroy
    BY <1>3 DEF Destroy, NickInv, HasNickOf
  <1>4. CASE UNCHANGED <<slot, seated>>
    BY <1>4 DEF NickInv, HasNickOf
  <1>5. ASSUME NEW s \in Session, Packet(s) PROVE UNCHANGED <<slot, seated>>
    BY <1>5
    DEF Packet, Dispatch, PacketIgnored, ProcessChat, ProcessHint,
        ProcessAnswer, AnswerInvalid, Uncover, AnswerContinues,
        AnswerEndsTurn, AnswerEndsGame, seats
  <1>6. SeatPlayer \/ SkipClosedPlayer \/ Destroy \/ UNCHANGED <<slot, seated>>
    BY <1>5
    DEF Next, Setup, StartGame, StartGameFails, RoomErased, EndGameStep,
        SaveResult, ReleasePlayer, EndGameReturns, Disconnect, vars, seats
  <1> QED
    BY <1>1, <1>2, <1>3, <1>4, <1>6

\* The seats' invariant holds throughout.
LEMMA NickCorrect ==
    ASSUME DistinctPlayers PROVE Spec => []NickInv
  <1> QED
    BY NickInit, NickStep, TypeCorrect, PTL DEF Spec

\* With players who are told apart, a running game whose players are all
\* connected always has a player whose packet moves it on.
THEOREM NeverStalls ==
    ASSUME PositiveHints, FairRoster
    PROVE  Spec => []NoStall
  <1>1. BoardInv /\ EndGameInv /\ TurnInv /\ NickInv => NoStall
    <2> SUFFICES ASSUME BoardInv, EndGameInv, TurnInv, NickInv,
                        stage = "started", ~gameOver, open = Session
                 PROVE  \E s \in attached : CanHint(s) \/ CanAnswer(s)
      BY DEF NoStall
    <2>0. TypeOK
      BY DEF BoardInv
    <2>1. ASSUME NEW i \in Slot
          PROVE  /\ slot[i] \in Session /\ slot[i] \in attached
                 /\ slot[i] # NoSession /\ IsIndexOf(i, slot[i])
      <3>1. slot[i] \in Session /\ slot[i] # NoSession
        BY <2>0 DEF EndGameInv, AllSeated, TypeOK
      <3>2. slot[i] \in attached
        BY <3>1, SlotFacts DEF EndGameInv
      <3>3. IsIndexOf(i, slot[i])
        <4>1. HasNickOf(i, slot[i])
          BY <3>1 DEF HasNickOf
        <4>2. ASSUME NEW j \in Slot, HasNickOf(j, slot[i]) PROVE i <= j
          <5>1. j = i
            BY <3>1, <4>2 DEF NickInv
          <5> QED
            BY <5>1, SlotFacts
        <4> QED
          BY <4>1, <4>2 DEF IsIndexOf
      <3> QED
        BY <3>1, <3>2, <3>3
    <2>2. /\ 0 \in Slot /\ TeamSize \in Slot
          /\ 1 \in Slot /\ TeamSize + 1 \in Slot
          /\ TeamOf(0) = "RED" /\ TeamOf(1) = "RED"
          /\ TeamOf(TeamSize) = "BLUE" /\ TeamOf(TeamSize + 1) = "BLUE"
          /\ IsSpymaster(0) /\ IsSpymaster(TeamSize)
          /\ ~IsSpymaster(1) /\ ~IsSpymaster(TeamSize + 1)
      BY SlotFacts DEF FairRoster, MaxPlayers, Slot, TeamOf, IsSpymaster
    <2>3. CASE currentPhase = "HINT_PHASE"
      <3>1. PICK i \in Slot : TeamOf(i) = currentTurn /\ IsSpymaster(i)
        BY <2>0, <2>2 DEF TypeOK, Team
      <3> QED
        BY <2>1, <2>3, <3>1 DEF CanHint, IsValidPlayerForHint, MayAct
    <2>4. CASE currentPhase = "GUESS_PHASE"
      <3>1. PICK i \in Slot : TeamOf(i) = currentTurn /\ ~IsSpymaster(i)
        BY <2>0, <2>2 DEF TypeOK, Team
      <3>2. remainingTries > 0
        BY <2>4 DEF TurnInv
      <3>3. PICK c \in Card : c \notin used
        BY DEF BoardInv, OutcomeMatchesBoard, AllOpen, OfType
      <3>4. WordOf[c] \in Word /\ c \in Candidates(WordOf[c])
        BY <3>3, RoomAssumption DEF Candidates, WordAt
      <3>5. CanAnswer(slot[i])
        BY <2>1, <2>4, <3>1, <3>2, <3>4
        DEF CanAnswer, IsValidPlayerForAnswer, MayAct
      <3> QED
        BY <2>1, <3>5
    <2> QED
      BY <2>0, <2>3, <2>4 DEF TypeOK, Phase
  <1> QED
    BY <1>1, BoardCorrect, EndGameCorrect, TurnCorrect, NickCorrect, PTL
    DEF FairRoster

-----------------------------------------------------------------------------
(* Whose packets uncover cards.                                            *)

\* A packet on its way into the room, and a session in a game with this room
\* as its gameManager_, belongs to somebody who sits there.
SenderSits == \A s \in attached \cup dispatched : \E i \in Slot : slot[i] = s

\* Init establishes that senders sit.
LEMMA SenderInit == Init => SenderSits
  BY DEF Init, SenderSits

\* Every step preserves it: seats are filled once and emptied together, when
\* no packet is on its way.
LEMMA SenderStep == TypeOK /\ SenderSits /\ [Next]_vars => SenderSits'
  <1> SUFFICES ASSUME TypeOK, SenderSits, [Next]_vars PROVE SenderSits'
    OBVIOUS
  <1>1. ASSUME UNCHANGED slot, attached' \cup dispatched' \subseteq
                                  attached \cup dispatched
        PROVE  SenderSits'
    BY <1>1 DEF SenderSits
  <1>2. CASE SeatPlayer
    <2> DEFINE s == Roster[seated + 1]
    <2>1. PICK i \in Slot : slot[i] = NoSession /\ slot' = [slot EXCEPT ![i] = s]
      BY <1>2 DEF SeatPlayer, IsFirstEmpty
    <2>2. /\ attached' = attached \cup {s} /\ UNCHANGED dispatched
      BY <1>2 DEF SeatPlayer
    <2>3. \A j \in Slot : slot'[j] = IF j = i THEN s ELSE slot[j]
      BY <2>1 DEF TypeOK
    <2>4. NoSession \notin attached \cup dispatched
      BY RoomAssumption DEF TypeOK
    <2> HIDE DEF s
    <2>5. ASSUME NEW q \in attached \cup dispatched
          PROVE  \E j \in Slot : slot'[j] = q
      <3>1. PICK j \in Slot : slot[j] = q
        BY DEF SenderSits
      <3> QED
        BY <2>1, <2>3, <2>4, <3>1
    <2> QED
      BY <2>1, <2>2, <2>3, <2>5 DEF SenderSits
  <1>3. CASE Destroy
    BY <1>3 DEF Destroy, SenderSits
  <1>4. CASE SkipClosedPlayer \/ StartGame
    BY <1>1, <1>4 DEF SkipClosedPlayer, StartGame, links
  <1>5. CASE EndGameStep
    BY <1>1, <1>5
    DEF EndGameStep, SaveResult, ReleasePlayer, EndGameReturns, Done, seats,
        links
  <1>6. ASSUME NEW s \in Session, Disconnect(s) PROVE SenderSits'
    BY <1>1, <1>6 DEF Disconnect, seats
  <1>7. ASSUME NEW s \in Session, Packet(s) PROVE SenderSits'
    BY <1>1, <1>7
    DEF Packet, Dispatch, PacketIgnored, ProcessChat, ProcessHint,
        ProcessAnswer, AnswerInvalid, Uncover, AnswerContinues,
        AnswerEndsTurn, AnswerEndsGame, Done, seats
  <1>8. CASE UNCHANGED vars
    BY <1>1, <1>8 DEF vars, seats, links
  <1> QED
    BY <1>2, <1>3, <1>4, <1>5, <1>6, <1>7, <1>8
    DEF Next, Setup, StartGameFails, RoomErased

\* With players who are told apart the nickname lookup finds the sender's own
\* seat.
LEMMA IndexIsSeat ==
    ASSUME TypeOK, NickInv, SenderSits,
           NEW s \in dispatched, NEW i \in Slot, IsIndexOf(i, s)
    PROVE  slot[i] = s
  <1>1. PICK j \in Slot : slot[j] = s
    BY DEF SenderSits
  <1>2. s # NoSession
    BY RoomAssumption DEF TypeOK
  <1> QED
    BY <1>1, <1>2 DEF IsIndexOf, NickInv

\* A card is uncovered only by the packet of an agent of the team on turn, and
\* the seat the room credits is the sender's: no other handler, no seat found
\* under the same name and no packet left over from another turn uncovers one.
THEOREM AgentsOnTurn ==
    ASSUME DistinctPlayers PROVE Spec => OnlyAgentsOnTurnUncover
  <1> DEFINE ByAgent == used' \ used # {} =>
                 \E s \in dispatched, i \in Slot :
                     /\ s \notin dispatched' \/ lockOwner' = s
                     /\ slot[i] = s
                     /\ TeamOf(i) = currentTurn /\ ~IsSpymaster(i)
  <1>1. TypeOK /\ NickInv /\ SenderSits /\ [Next]_vars => ByAgent
    <2> SUFFICES ASSUME TypeOK, NickInv, SenderSits, [Next]_vars,
                        used' \ used # {}
                 PROVE  \E s \in dispatched, i \in Slot :
                            /\ s \notin dispatched' \/ lockOwner' = s
                            /\ slot[i] = s
                            /\ TeamOf(i) = currentTurn /\ ~IsSpymaster(i)
      OBVIOUS
    <2>1. \E s \in Session, w \in Word \cup {NoWord}, c \in Card :
             \/ AnswerContinues(s, w, c)
             \/ AnswerEndsTurn(s, w, c)
             \/ AnswerEndsGame(s, w, c)
      BY DEF Next, Setup, SeatPlayer, SkipClosedPlayer, StartGame, AssignCards,
             StartGameFails, RoomErased, Destroy, EndGameStep, SaveResult,
             ReleasePlayer, EndGameReturns, Disconnect, Packet, Dispatch,
             PacketIgnored, ProcessChat, ProcessHint, ProcessAnswer,
             AnswerInvalid, vars, board
    <2>2. PICK s \in Session, w \in Word \cup {NoWord}, c \in Card :
             \/ AnswerContinues(s, w, c)
             \/ AnswerEndsTurn(s, w, c)
             \/ AnswerEndsGame(s, w, c)
      BY <2>1
    <2>3. Uncover(s, w, c) /\ (s \notin dispatched' \/ lockOwner' = s)
      BY <2>2 DEF AnswerContinues, AnswerEndsTurn, AnswerEndsGame, Done
    <2>4. PICK i \in Slot : AnswersFrom(s, i)
      BY <2>3 DEF Uncover
    <2>5. s \in dispatched
      BY <2>3 DEF Uncover, Handling
    <2>6. slot[i] = s
      BY <2>4, <2>5, IndexIsSeat DEF AnswersFrom
    <2>7. TeamOf(i) = currentTurn /\ ~IsSpymaster(i)
      BY <2>4 DEF AnswersFrom, IsValidPlayerForAnswer, MayAct
    <2> QED
      BY <2>3, <2>5, <2>6, <2>7
  <1>2. Spec => []SenderSits
    BY SenderInit, SenderStep, TypeCorrect, PTL DEF Spec
  <1> QED
    BY <1>1, <1>2, TypeCorrect, NickCorrect, PTL
    DEF Spec, OnlyAgentsOnTurnUncover
=============================================================================
