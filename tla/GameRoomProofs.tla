--------------------------- MODULE GameRoomProofs ---------------------------
(***************************************************************************)
(* Proofs about GameRoom, for every board, roster and number of players.   *)
(***************************************************************************)
EXTENDS GameRoom, FiniteSetTheorems, TLAPS

\* The seats are an interval of naturals and every seat has a team.
LEMMA SlotFacts ==
    /\ TeamSize \in Nat \ {0}
    /\ MaxPlayers \in Nat /\ MaxPlayers > 0
    /\ Slot \subseteq Nat
    /\ \A i \in Slot : i < MaxPlayers
    /\ \A i \in Slot : TeamOf(i) \in Team
  BY RoomAssumption DEF MaxPlayers, Slot, TeamOf, Team

LEMMA OtherTeam == \A t \in Team : Other(t) \in Team /\ Other(t) # t
  BY DEF Other, Team

\* Init establishes the type invariant.
LEMMA TypeInit == Init => TypeOK
  <1> SUFFICES ASSUME Init PROVE TypeOK
    OBVIOUS
  <1>1. 0 \in 0 .. MaxPlayers /\ 0 \in 0 .. 2 * MaxPlayers
    BY SlotFacts
  <1>2. cardType \in Deals \cup {BlankKey} /\ used \in SUBSET Card
    BY DEF Init
  <1>3. recorded \in [Slot -> Verdict] /\ slot \in [Slot -> Session \cup {NoSession}]
    BY DEF Init, Verdict
  <1>4. gameOver \in BOOLEAN /\ winner \in Team \cup {"SYSTEM"}
    BY DEF Init
  <1> QED
    BY <1>1, <1>2, <1>3, <1>4 DEF Init, TypeOK, Phase, Team

\* The cards and scores an answer leaves behind have the right types.
LEMMA UncoverType ==
    ASSUME TypeOK, NEW s \in Session, NEW w, NEW c \in Card, Uncover(s, w, c)
    PROVE  /\ used' \in SUBSET Card
           /\ redScore' \in Nat /\ blueScore' \in Nat
           /\ TriesAfter(c) \in Int
           /\ WinnerBy(c) \in Team \cup {"SYSTEM"}
  BY OtherTeam
  DEF TypeOK, Uncover, RedAfter, BlueAfter, TriesAfter, WinnerBy,
      CheckWinner, Team

\* Every step preserves the type invariant.
LEMMA TypeStep == TypeOK /\ [Next]_vars => TypeOK'
  <1> SUFFICES ASSUME TypeOK, [Next]_vars PROVE TypeOK'
    OBVIOUS
  <1> USE SlotFacts DEF TypeOK
  <1>1. CASE SeatPlayer
    <2>1. Roster[seated + 1] \in Session
      BY <1>1, RoomAssumption DEF SeatPlayer
    <2>2. PICK i \in Slot : slot' = [slot EXCEPT ![i] = Roster[seated + 1]]
      BY <1>1 DEF SeatPlayer
    <2>3. slot' \in [Slot -> Session \cup {NoSession}]
      BY <2>1, <2>2
    <2>4. seated' \in 0 .. MaxPlayers
      BY <1>1 DEF SeatPlayer
    <2> QED
      BY <1>1, <2>1, <2>3, <2>4 DEF SeatPlayer, board, flow, ending
  <1>2. CASE SkipClosedPlayer
    BY <1>2 DEF SkipClosedPlayer, board, flow, ending, links
  <1>3. CASE StartGame
    <2>1. gameOver' \in BOOLEAN
      BY <1>3 DEF StartGame, AssignCards
    <2>2. cardType' \in Deals \cup {BlankKey} /\ used' \in SUBSET Card
      BY <1>3 DEF StartGame, AssignCards
    <2>3. UNCHANGED <<seated, slot, winner, lockOwner, endStep, recorded,
                      attached, open, dispatched>>
      BY <1>3 DEF StartGame, AssignCards, links
    <2> QED
      BY <1>3, <2>1, <2>2, <2>3 DEF StartGame, AssignCards, Team, Phase
  <1>4. CASE Destroy
    BY <1>4 DEF Destroy, board, flow, ending
  <1>5. CASE EndGameStep
    <2>1. ASSUME NEW v \in Verdict, SaveResult(v) PROVE TypeOK'
      <3>1. endStep \in Slot /\ endStep + 1 \in 0 .. 2 * MaxPlayers
        BY <2>1 DEF SaveResult, Slot
      <3> QED
        BY <2>1, <3>1 DEF SaveResult, seats, board, flow, links
    <2>2. CASE ReleasePlayer
      BY <2>2 DEF ReleasePlayer, seats, board, flow
    <2>3. CASE EndGameReturns
      BY <2>3 DEF EndGameReturns, seats, board, flow, Done
    <2> QED
      BY <1>5, <2>1, <2>2, <2>3 DEF EndGameStep
  <1>6. ASSUME NEW s \in Session, Disconnect(s) PROVE TypeOK'
    BY <1>6 DEF Disconnect, seats, board, flow, ending
  <1>7. ASSUME NEW s \in Session, Packet(s) PROVE TypeOK'
    <2>1. CASE Dispatch(s)
      BY <2>1 DEF Dispatch, seats, board, flow, ending
    <2>2. CASE PacketIgnored(s)
      BY <2>2 DEF PacketIgnored, Done, seats, board, flow, ending
    <2>3. CASE ProcessChat(s)
      BY <2>3 DEF ProcessChat, Done, seats, board, flow, ending
    <2>4. ASSUME NEW n \in HintNumber, ProcessHint(s, n) PROVE TypeOK'
      <3>1. n \in Int
        BY RoomAssumption
      <3> QED
        BY <2>4, <3>1
        DEF ProcessHint, SwitchPhase, Phase, Done, seats, board, ending
    <2>5. ASSUME NEW w \in Word \cup {NoWord}, AnswerInvalid(s, w)
          PROVE  TypeOK'
      BY <2>5 DEF AnswerInvalid, Done, seats, board, flow, ending
    <2>6. ASSUME NEW w \in Word \cup {NoWord}, NEW c \in Card,
                 AnswerContinues(s, w, c)
          PROVE  TypeOK'
      <3>1. Uncover(s, w, c)
        BY <2>6 DEF AnswerContinues
      <3> QED
        BY <2>6, <3>1, UncoverType
        DEF AnswerContinues, Uncover, Done, seats, ending
    <2>7. ASSUME NEW w \in Word \cup {NoWord}, NEW c \in Card,
                 AnswerEndsTurn(s, w, c)
          PROVE  TypeOK'
      <3>1. Uncover(s, w, c)
        BY <2>7 DEF AnswerEndsTurn
      <3> QED
        BY <2>7, <3>1, UncoverType, OtherTeam
        DEF AnswerEndsTurn, Uncover, Done, Phase, seats, ending
    <2>8. ASSUME NEW w \in Word \cup {NoWord}, NEW c \in Card,
                 AnswerEndsGame(s, w, c)
          PROVE  TypeOK'
      <3>1. Uncover(s, w, c)
        BY <2>8 DEF AnswerEndsGame
      <3> QED
        BY <2>8, <3>1, UncoverType
        DEF AnswerEndsGame, Uncover, seats
    <2> QED
      BY <1>7, <2>1, <2>2, <2>3, <2>4, <2>5, <2>6, <2>7, <2>8
      DEF Packet, ProcessAnswer
  <1>8. CASE UNCHANGED vars
    BY <1>8 DEF vars, seats, board, flow, ending, links
  <1> QED
    BY <1>1, <1>2, <1>3, <1>4, <1>5, <1>6, <1>7, <1>8
    DEF Next, Setup, StartGameFails, RoomErased

\* The room's variables keep the types GameManager.h declares.
THEOREM TypeCorrect == Spec => []TypeOK
  <1> QED
    BY TypeInit, TypeStep, PTL DEF Spec

-----------------------------------------------------------------------------
(* Counting cards.                                                         *)

\* Uncovering one more card adds one to the count of its own colour only.
LEMMA CountOneMore ==
    ASSUME NEW U \in SUBSET Card, NEW T \in SUBSET Card, NEW c \in Card \ U
    PROVE  Cardinality((U \cup {c}) \cap T) =
             Cardinality(U \cap T) + (IF c \in T THEN 1 ELSE 0)
  <1>1. IsFiniteSet(U \cap T) /\ Cardinality(U \cap T) \in Nat
    BY CardAssumption, FS_Subset, FS_CardinalityType
  <1>2. CASE c \in T
    <2>1. (U \cup {c}) \cap T = (U \cap T) \cup {c}
      BY <1>2
    <2>2. c \notin U \cap T
      OBVIOUS
    <2> QED
      BY <1>1, <1>2, <2>1, <2>2, FS_AddElement
  <1>3. CASE c \notin T
    <2>1. (U \cup {c}) \cap T = U \cap T
      BY <1>3
    <2> QED
      BY <1>1, <1>3, <2>1
  <1> QED
    BY <1>2, <1>3

\* All cards of T are uncovered exactly when as many are uncovered as T has.
LEMMA CountAll ==
    ASSUME NEW U \in SUBSET Card, NEW T \in SUBSET Card
    PROVE  Cardinality(U \cap T) >= Cardinality(T) <=> T \subseteq U
  <1>1. IsFiniteSet(T) /\ Cardinality(T) \in Nat
    BY CardAssumption, FS_Subset, FS_CardinalityType
  <1>2. /\ Cardinality(U \cap T) \in Nat
        /\ Cardinality(U \cap T) <= Cardinality(T)
        /\ Cardinality(T) = Cardinality(U \cap T) => T = U \cap T
    BY <1>1, FS_Subset, FS_CardinalityType
  <1>3. T \subseteq U => U \cap T = T
    OBVIOUS
  <1> QED
    BY <1>1, <1>2, <1>3

\* A dealt board has cards of both teams, a blank one of neither.
LEMMA DealFacts ==
    /\ \A k \in Deals :
          /\ k \in [Card -> CardType]
          /\ Cardinality(OfType(k, "RED")) = RED_CARDS
          /\ Cardinality(OfType(k, "BLUE")) = BLUE_CARDS
          /\ OfType(k, "RED") # {} /\ OfType(k, "BLUE") # {}
          /\ k # BlankKey
    /\ OfType(BlankKey, "RED") = {} /\ OfType(BlankKey, "BLUE") = {}
    /\ \A c \in Card : BlankKey[c] = "NEUTRAL"
  <1>1. ASSUME NEW k \in Deals
        PROVE  /\ k \in [Card -> CardType]
               /\ Cardinality(OfType(k, "RED")) = RED_CARDS
               /\ Cardinality(OfType(k, "BLUE")) = BLUE_CARDS
    BY DEF Deals
  <1>2. ASSUME NEW k \in Deals
        PROVE  OfType(k, "RED") # {} /\ OfType(k, "BLUE") # {}
    BY <1>1, FS_EmptySet, CountAssumption
  <1>3. OfType(BlankKey, "RED") = {} /\ OfType(BlankKey, "BLUE") = {}
    BY DEF OfType, BlankKey
  <1>4. \A c \in Card : BlankKey[c] = "NEUTRAL"
    BY DEF BlankKey
  <1> QED
    BY <1>1, <1>2, <1>3, <1>4

\* OfType yields sets of cards and sorts the cards by their type.
LEMMA OfTypeFacts ==
    /\ \A t : OfType(cardType, t) \in SUBSET Card
    /\ \A t : \A c \in Card : c \in OfType(cardType, t) <=> cardType[c] = t
  BY DEF OfType

-----------------------------------------------------------------------------
(* The scores and the outcome.                                             *)

\* Init establishes the board invariant.
LEMMA BoardInit == Init => BoardInv
  <1> SUFFICES ASSUME Init PROVE BoardInv
    OBVIOUS
  <1>1. TypeOK
    BY TypeInit
  <1>2. ScoreMatchesBoard
    <2>1. \A T : {} \cap T = {}
      OBVIOUS
    <2> QED
      BY <2>1, FS_EmptySet DEF Init, ScoreMatchesBoard
  <1>3. ~Dealt /\ gameOver = FALSE /\ stage = "seating"
    BY DEF Init, Dealt
  <1> QED
    BY <1>1, <1>2, <1>3 DEF BoardInv, OutcomeMatchesBoard

\* An uncovered card was covered before.
LEMMA UncoverFresh ==
    ASSUME NEW s, NEW w, NEW c \in Card, Uncover(s, w, c)
    PROVE  c \notin used
  BY DEF Uncover, IsAnswer, Candidates

\* The scores follow an uncovered card.
LEMMA UncoverScore ==
    ASSUME TypeOK, ScoreMatchesBoard,
           NEW s, NEW w, NEW c \in Card, Uncover(s, w, c)
    PROVE  ScoreMatchesBoard'
  <1>1. c \in Card \ used /\ used \in SUBSET Card
    BY UncoverFresh DEF TypeOK
  <1>2. used' = used \cup {c} /\ cardType' = cardType
    BY DEF Uncover
  <1>3. ASSUME NEW t
        PROVE  Cardinality(used' \cap OfType(cardType', t)) =
                 Cardinality(used \cap OfType(cardType, t)) +
                 (IF cardType[c] = t THEN 1 ELSE 0)
    BY <1>1, <1>2, CountOneMore, OfTypeFacts
  <1> QED
    BY <1>3 DEF Uncover, ScoreMatchesBoard, RedAfter, BlueAfter

\* CheckWinner, given the scores after the card, decides what the rules say.
LEMMA UncoverDecides ==
    ASSUME BoardInv, ~gameOver,
           NEW s, NEW w, NEW c \in Card, Uncover(s, w, c)
    PROVE  /\ GameEnds(c) => Dealt
           /\ Dealt => (GameEnds(c) <=>
                          (AssassinOpen \/ AllOpen("RED") \/ AllOpen("BLUE"))')
           /\ Dealt => ~ (AllOpen("RED") /\ AllOpen("BLUE"))'
           /\ GameEnds(c) => WinnerBy(c) =
                IF AssassinOpen' THEN Other(currentTurn)
                ELSE IF AllOpen("RED")' THEN "RED" ELSE "BLUE"
  <1>1. /\ used' = used \cup {c} /\ cardType' = cardType
        /\ used \in SUBSET Card /\ used' \in SUBSET Card
        /\ redScore' = RedAfter(c) /\ blueScore' = BlueAfter(c)
        /\ redScore \in Nat /\ blueScore \in Nat
    BY DEF Uncover, BoardInv, TypeOK
  <1>2. ScoreMatchesBoard'
    BY UncoverScore DEF BoardInv
  <1>3. GameEnds(c) => Dealt
    <2>1. SUFFICES ASSUME ~Dealt PROVE ~GameEnds(c)
      OBVIOUS
    <2>2. cardType = BlankKey
      BY <2>1 DEF Dealt
    <2>3. used' \cap OfType(cardType', "RED") = {}
          /\ used' \cap OfType(cardType', "BLUE") = {}
      BY <1>1, <2>2, DealFacts
    <2>4. redScore' = 0 /\ blueScore' = 0
      BY <1>2, <2>3, FS_EmptySet DEF ScoreMatchesBoard
    <2>5. cardType[c] = "NEUTRAL"
      BY <2>2, DealFacts
    <2> QED
      BY <1>1, <2>4, <2>5, CountAssumption DEF GameEnds, CheckWinner
  <1>4. SUFFICES ASSUME Dealt
        PROVE  /\ GameEnds(c) <=>
                    (AssassinOpen \/ AllOpen("RED") \/ AllOpen("BLUE"))'
               /\ ~ (AllOpen("RED") /\ AllOpen("BLUE"))'
               /\ GameEnds(c) => WinnerBy(c) =
                    IF AssassinOpen' THEN Other(currentTurn)
                    ELSE IF AllOpen("RED")' THEN "RED" ELSE "BLUE"
    BY <1>3
  <1>5. cardType \in Deals
    BY <1>4 DEF BoardInv, TypeOK, Dealt
  <1>6. ~AssassinOpen /\ ~AllOpen("RED") /\ ~AllOpen("BLUE")
    BY <1>4 DEF BoardInv, OutcomeMatchesBoard
  <1>7. AssassinOpen' <=> cardType[c] = "ASSASSIN"
    BY <1>1, <1>6 DEF AssassinOpen
  <1>8. AllOpen("RED")' <=> RedAfter(c) >= RED_CARDS
    BY <1>1, <1>2, <1>5, DealFacts, CountAll, OfTypeFacts
    DEF ScoreMatchesBoard, AllOpen
  <1>9. AllOpen("BLUE")' <=> BlueAfter(c) >= BLUE_CARDS
    BY <1>1, <1>2, <1>5, DealFacts, CountAll, OfTypeFacts
    DEF ScoreMatchesBoard, AllOpen
  <1>10. AllOpen("RED")' => cardType[c] = "RED"
    BY <1>1, <1>6 DEF AllOpen, OfType
  <1>11. AllOpen("BLUE")' => cardType[c] = "BLUE"
    BY <1>1, <1>6 DEF AllOpen, OfType
  <1> QED
    BY <1>7, <1>8, <1>9, <1>10, <1>11 DEF GameEnds, WinnerBy, CheckWinner

\* A step that touches neither the cards nor the outcome preserves the board
\* invariant.
LEMMA QuietStep ==
    ASSUME BoardInv, TypeOK',
           UNCHANGED <<cardType, used, redScore, blueScore,
                       currentTurn, gameOver, winner>>,
           stage' \in {stage, "destroyed"}
    PROVE  BoardInv'
  BY DEF BoardInv, ScoreMatchesBoard, OutcomeMatchesBoard, Dealt,
         AssassinOpen, AllOpen, OfType

\* StartGame deals a board nobody has won.
LEMMA StartStep ==
    ASSUME BoardInv, TypeOK', StartGame
    PROVE  BoardInv'
  <1>1. /\ cardType' \in Deals /\ used' = {} /\ gameOver' = FALSE
        /\ redScore' = 0 /\ blueScore' = 0 /\ stage' = "started"
    BY DEF StartGame, AssignCards
  <1>2. ScoreMatchesBoard'
    <2>1. \A T : {} \cap T = {}
      OBVIOUS
    <2> QED
      BY <1>1, <2>1, FS_EmptySet DEF ScoreMatchesBoard
  <1>3. ~AssassinOpen' /\ ~AllOpen("RED")' /\ ~AllOpen("BLUE")'
    BY <1>1, DealFacts DEF AssassinOpen, AllOpen
  <1>4. OutcomeMatchesBoard'
    BY <1>1, <1>3 DEF OutcomeMatchesBoard
  <1>5. Dealt'
    BY <1>1, DealFacts DEF Dealt
  <1> QED
    BY <1>1, <1>2, <1>4, <1>5 DEF BoardInv

\* A card that does not end the game.
LEMMA PlayOnStep ==
    ASSUME BoardInv, TypeOK', NEW s, NEW w, NEW c \in Card,
           Uncover(s, w, c), ~gameOver, ~GameEnds(c), UNCHANGED gameOver
    PROVE  BoardInv'
  <1>1. ScoreMatchesBoard'
    BY UncoverScore DEF BoardInv
  <1>2. Dealt' <=> Dealt
    BY DEF Uncover, Dealt
  <1>3. (stage' = "seating" => ~Dealt') /\ (stage' = "started" => Dealt')
    BY <1>2 DEF Uncover, seats, BoardInv
  <1>4. OutcomeMatchesBoard'
    BY <1>2, UncoverDecides DEF OutcomeMatchesBoard
  <1> QED
    BY <1>1, <1>3, <1>4 DEF BoardInv

\* The card that ends the game.
LEMMA LastCardStep ==
    ASSUME BoardInv, TypeOK', NEW s, NEW w, NEW c \in Card,
           AnswerEndsGame(s, w, c), ~gameOver
    PROVE  BoardInv'
  <1>1. /\ Uncover(s, w, c) /\ GameEnds(c)
        /\ gameOver' = TRUE /\ winner' = WinnerBy(c)
        /\ currentTurn' = currentTurn
    BY DEF AnswerEndsGame
  <1>2. ScoreMatchesBoard'
    BY <1>1, UncoverScore DEF BoardInv
  <1>3. Dealt /\ Dealt' /\ stage' # "seating"
    BY <1>1, UncoverDecides DEF Uncover, seats, Dealt, BoardInv
  <1>4. OutcomeMatchesBoard'
    BY <1>1, <1>3, UncoverDecides DEF OutcomeMatchesBoard
  <1> QED
    BY <1>2, <1>3, <1>4 DEF BoardInv

\* Whoever answers finds a game that is not over.
LEMMA AnswererPlays ==
    ASSUME NEW s, NEW w, NEW c, Uncover(s, w, c) PROVE ~gameOver
  BY DEF Uncover, AnswersFrom, IsValidPlayerForAnswer, MayAct

\* Every step preserves the board invariant.
LEMMA BoardStep == BoardInv /\ [Next]_vars => BoardInv'
  <1> SUFFICES ASSUME BoardInv, [Next]_vars PROVE BoardInv'
    OBVIOUS
  <1>0. TypeOK /\ TypeOK'
    BY TypeStep DEF BoardInv
  <1>1. CASE SeatPlayer \/ SkipClosedPlayer
    BY <1>0, <1>1, QuietStep
    DEF SeatPlayer, SkipClosedPlayer, board, flow, ending
  <1>2. CASE StartGame
    BY <1>0, <1>2, StartStep
  <1>3. CASE Destroy
    BY <1>0, <1>3, QuietStep DEF Destroy, board, flow, ending
  <1>4. CASE EndGameStep
    BY <1>0, <1>4, QuietStep
    DEF EndGameStep, SaveResult, ReleasePlayer, EndGameReturns,
        seats, board, flow
  <1>5. ASSUME NEW s \in Session, Disconnect(s) PROVE BoardInv'
    BY <1>0, <1>5, QuietStep DEF Disconnect, seats, board, flow, ending
  <1>6. ASSUME NEW s \in Session, Packet(s) PROVE BoardInv'
    <2>1. CASE Dispatch(s) \/ PacketIgnored(s) \/ ProcessChat(s)
      BY <1>0, <2>1, QuietStep
      DEF Dispatch, PacketIgnored, ProcessChat, seats, board, flow, ending
    <2>2. ASSUME NEW n \in HintNumber, ProcessHint(s, n) PROVE BoardInv'
      BY <1>0, <2>2, QuietStep DEF ProcessHint, seats, board, ending
    <2>3. ASSUME NEW w \in Word \cup {NoWord}, AnswerInvalid(s, w)
          PROVE  BoardInv'
      BY <1>0, <2>3, QuietStep DEF AnswerInvalid, seats, board, flow, ending
    <2>4. ASSUME NEW w \in Word \cup {NoWord}, NEW c \in Card,
                 AnswerContinues(s, w, c) \/ AnswerEndsTurn(s, w, c)
          PROVE  BoardInv'
      BY <1>0, <2>4, PlayOnStep, AnswererPlays
      DEF AnswerContinues, AnswerEndsTurn, ending
    <2>5. ASSUME NEW w \in Word \cup {NoWord}, NEW c \in Card,
                 AnswerEndsGame(s, w, c)
          PROVE  BoardInv'
      <3>1. ~gameOver
        BY <2>5, AnswererPlays DEF AnswerEndsGame
      <3> QED
        BY <1>0, <2>5, <3>1, LastCardStep
    <2> QED
      BY <1>6, <2>1, <2>2, <2>3, <2>4, <2>5 DEF Packet, ProcessAnswer
  <1>7. CASE UNCHANGED vars
    BY <1>0, <1>7, QuietStep DEF vars, seats, board, flow, ending
  <1> QED
    BY <1>1, <1>2, <1>3, <1>4, <1>5, <1>6, <1>7
    DEF Next, Setup, StartGameFails, RoomErased

\* The board invariant holds throughout.
LEMMA BoardCorrect == Spec => []BoardInv
  <1> QED
    BY BoardInit, BoardStep, PTL DEF Spec

\* The score counters always equal the number of uncovered cards of their
\* colour, also when a packet was handled before StartGame.
THEOREM ScoresCorrect == Spec => []ScoreMatchesBoard
  <1>1. BoardInv => ScoreMatchesBoard
    BY DEF BoardInv
  <1> QED
    BY <1>1, BoardCorrect, PTL

\* A game is over exactly when its board is decided, and EndGame was called
\* with the team the board names.
THEOREM OutcomeCorrect == Spec => []OutcomeMatchesBoard
  <1>1. BoardInv => OutcomeMatchesBoard
    BY DEF BoardInv
  <1> QED
    BY <1>1, BoardCorrect, PTL

-----------------------------------------------------------------------------
(* The end of a game.                                                      *)

\* While a room is being filled nothing is over, so a finished game is never
\* restarted, and its packets are all turned away.
LEMMA FrozenStep ==
    BoardInv /\ [Next]_vars =>
      (gameOver => UNCHANGED <<board, flow, gameOver, winner>>)
  <1> SUFFICES ASSUME BoardInv, [Next]_vars, gameOver
               PROVE  UNCHANGED <<board, flow, gameOver, winner>>
    OBVIOUS
  <1>1. ~StartGame
    BY DEF StartGame, AssignCards, BoardInv
  <1>2. CASE SeatPlayer \/ SkipClosedPlayer \/ Destroy
    BY <1>2 DEF SeatPlayer, SkipClosedPlayer, Destroy, ending
  <1>3. CASE EndGameStep
    BY <1>3 DEF EndGameStep, SaveResult, ReleasePlayer, EndGameReturns
  <1>4. ASSUME NEW s \in Session, Disconnect(s)
        PROVE  UNCHANGED <<board, flow, gameOver, winner>>
    BY <1>4 DEF Disconnect, ending
  <1>5. ASSUME NEW s \in Session, Packet(s)
        PROVE  UNCHANGED <<board, flow, gameOver, winner>>
    <2>1. CASE Dispatch(s) \/ PacketIgnored(s) \/ ProcessChat(s)
      BY <2>1 DEF Dispatch, PacketIgnored, ProcessChat, ending
    <2>2. \A n \in HintNumber : ~ProcessHint(s, n)
      BY DEF ProcessHint, IsValidPlayerForHint, MayAct
    <2>3. \A w \in Word \cup {NoWord} : ~ProcessAnswer(s, w)
      BY AnswererPlays
      DEF ProcessAnswer, AnswerInvalid, AnswerContinues, AnswerEndsTurn,
          AnswerEndsGame, AnswersFrom, IsValidPlayerForAnswer, MayAct
    <2> QED
      BY <1>5, <2>1, <2>2, <2>3 DEF Packet
  <1>6. CASE UNCHANGED vars
    BY <1>6 DEF vars, ending
  <1> QED
    BY <1>1, <1>2, <1>3, <1>4, <1>5, <1>6
    DEF Next, Setup, StartGameFails, RoomErased

\* A packet dispatched before the end of the game and handled after it changes
\* no card, score, turn or winner.
THEOREM FinishedGameFrozen == Spec => FinishedGameIsFrozen
  <1> QED
    BY BoardCorrect, FrozenStep, PTL DEF Spec, FinishedGameIsFrozen

\* Init establishes the invariant of the end of the game.
LEMMA EndGameInit == Init => EndGameInv
  BY SlotFacts DEF Init, EndGameInv

\* A step outside EndGame keeps its records and hands no session back.
LEMMA NoEndGameStep ==
    ASSUME EndGameInv,
           UNCHANGED <<ending, attached, slot>>, stage' = stage,
           lockOwner \in dispatched => lockOwner \in dispatched'
    PROVE  EndGameInv'
  BY DEF EndGameInv, ending, AllSeated

\* Every step preserves the invariant of the end of the game.
LEMMA EndGameStepInv ==
    BoardInv /\ EndGameInv /\ [Next]_vars => EndGameInv'
  <1> SUFFICES ASSUME BoardInv, EndGameInv, [Next]_vars PROVE EndGameInv'
    OBVIOUS
  <1>0. TypeOK
    BY DEF BoardInv
  <1>1. CASE SeatPlayer
    <2>1. PICK i \in Slot : slot' = [slot EXCEPT ![i] = Roster[seated + 1]]
      BY <1>1 DEF SeatPlayer
    <2>2. \A j \in Slot : slot'[j] = slot[j] \/ slot'[j] \in attached'
      BY <1>0, <1>1, <2>1 DEF SeatPlayer, TypeOK
    <2> QED
      BY <1>1, <2>2 DEF SeatPlayer, EndGameInv, ending
  <1>2. CASE SkipClosedPlayer
    BY <1>2, NoEndGameStep DEF SkipClosedPlayer, links
  <1>3. CASE StartGame
    <2>1. ~gameOver /\ ~gameOver'
      BY <1>3 DEF StartGame, AssignCards, BoardInv
    <2> QED
      BY <1>3, <2>1 DEF StartGame, AssignCards, EndGameInv, AllSeated, links
  <1>4. CASE Destroy
    BY <1>4 DEF Destroy, EndGameInv, ending
  <1>5. CASE EndGameStep
    <2>1. ASSUME NEW v \in Verdict, SaveResult(v) PROVE EndGameInv'
      <3>1. endStep \in Slot /\ endStep' = endStep + 1
        BY <1>0, <2>1, SlotFacts DEF SaveResult, TypeOK, Slot
      <3>2. v # "none" /\ (v = "WIN" => TeamOf(endStep) = winner)
                       /\ (v = "LOSS" => TeamOf(endStep) # winner)
        BY <2>1 DEF SaveResult, Result
      <3>3. \A j \in Slot : recorded'[j] = IF j = endStep THEN v
                                            ELSE recorded[j]
        BY <1>0, <2>1 DEF SaveResult, TypeOK
      <3>4. \A j \in Slot : j < endStep' <=> j < endStep \/ j = endStep
        BY <3>1, SlotFacts
      <3>5. gameOver /\ lockOwner # NoSession
        BY <2>1 DEF SaveResult, EndGameInv
      <3>6. endStep > MaxPlayers => endStep' > MaxPlayers
        BY <3>1, SlotFacts
      <3> QED
        BY <2>1, <3>1, <3>2, <3>3, <3>4, <3>5, <3>6
        DEF SaveResult, EndGameInv, seats, links, AllSeated
    <2>2. CASE ReleasePlayer
      <3>1. /\ endStep \in MaxPlayers .. 2 * MaxPlayers - 1
            /\ endStep' = endStep + 1
        BY <2>2 DEF ReleasePlayer
      <3>2. endStep' > MaxPlayers /\ \A j \in Slot : j < endStep /\ j < endStep'
        BY <3>1, SlotFacts
      <3>3. gameOver /\ lockOwner # NoSession
        BY <2>2 DEF ReleasePlayer, EndGameInv
      <3> QED
        BY <2>2, <3>2, <3>3 DEF ReleasePlayer, EndGameInv, seats, AllSeated
    <2>3. CASE EndGameReturns
      BY <2>3 DEF EndGameReturns, EndGameInv, seats, AllSeated
    <2> QED
      BY <1>5, <2>1, <2>2, <2>3 DEF EndGameStep
  <1>6. ASSUME NEW s \in Session, Disconnect(s) PROVE EndGameInv'
    BY <1>6, NoEndGameStep DEF Disconnect, seats
  <1>7. ASSUME NEW s \in Session, Packet(s) PROVE EndGameInv'
    <2>1. CASE Dispatch(s)
      BY <2>1, NoEndGameStep DEF Dispatch, seats
    <2>2. CASE PacketIgnored(s)
      BY <2>2, NoEndGameStep DEF PacketIgnored, seats, Done
    <2>3. Handling(s) => lockOwner = NoSession /\ lockOwner \notin dispatched
      BY <1>0, RoomAssumption DEF Handling, LockFree, TypeOK
    <2>4. CASE ProcessChat(s)
      BY <2>3, <2>4, NoEndGameStep DEF ProcessChat, seats
    <2>5. ASSUME NEW n \in HintNumber, ProcessHint(s, n) PROVE EndGameInv'
      BY <2>3, <2>5, NoEndGameStep DEF ProcessHint, seats
    <2>6. ASSUME NEW w, AnswerInvalid(s, w) PROVE EndGameInv'
      BY <2>3, <2>6, NoEndGameStep DEF AnswerInvalid, AnswersFrom, seats
    <2>7. ASSUME NEW w, NEW c \in Card, Uncover(s, w, c)
          PROVE  /\ Handling(s) /\ ~gameOver
                 /\ UNCHANGED <<stage, slot, attached>>
      BY <2>7, AnswererPlays DEF Uncover, AnswersFrom, seats
    <2>8. ASSUME NEW w, NEW c \in Card,
                 AnswerContinues(s, w, c) \/ AnswerEndsTurn(s, w, c)
          PROVE  EndGameInv'
      BY <2>3, <2>7, <2>8, NoEndGameStep DEF AnswerContinues, AnswerEndsTurn
    <2>9. ASSUME NEW w, NEW c \in Card, AnswerEndsGame(s, w, c)
          PROVE  EndGameInv'
      <3>1. /\ Handling(s) /\ ~gameOver /\ endStep = 0
            /\ UNCHANGED <<stage, slot, attached>>
        BY <2>7, <2>9 DEF AnswerEndsGame, EndGameInv
      <3>2. \A j \in Slot : ~(j < 0) /\ recorded[j] = "none"
        BY <3>1, SlotFacts DEF EndGameInv
      <3>3. s # NoSession
        BY RoomAssumption
      <3> QED
        BY <2>9, <3>1, <3>2, <3>3
        DEF AnswerEndsGame, EndGameInv, Handling, AllSeated
    <2> QED
      BY <1>7, <2>1, <2>2, <2>4, <2>5, <2>6, <2>8, <2>9
      DEF Packet, ProcessAnswer
  <1>8. CASE UNCHANGED vars
    BY <1>8, NoEndGameStep DEF vars, seats, links
  <1> QED
    BY <1>1, <1>2, <1>3, <1>4, <1>5, <1>6, <1>7, <1>8
    DEF Next, Setup, StartGameFails, RoomErased

\* The invariant of the end of the game holds throughout.
LEMMA EndGameCorrect == Spec => []EndGameInv
  <1> QED
    BY EndGameInit, EndGameStepInv, BoardCorrect, PTL DEF Spec

\* EndGame records WIN for the winning team and LOSS for the other, only for a
\* finished game and, once it is left, for every seat.
THEOREM ResultsCorrect == Spec => []ResultsMatchOutcome
  <1>1. TypeOK /\ EndGameInv => ResultsMatchOutcome
    <2> SUFFICES ASSUME TypeOK, EndGameInv, NEW i \in Slot
                 PROVE  /\ recorded[i] # "none" => gameOver
                        /\ recorded[i] = "WIN" => TeamOf(i) = winner
                        /\ recorded[i] = "LOSS" => TeamOf(i) # winner
                        /\ gameOver /\ LockFree => recorded[i] # "none"
      BY DEF ResultsMatchOutcome
    <2>1. ~(i < 0) /\ i < 2 * MaxPlayers
      BY SlotFacts
    <2> QED
      BY <2>1 DEF EndGameInv, LockFree
  <1> QED
    BY <1>1, TypeCorrect, EndGameCorrect, PTL

\* Nobody is back in the lobby before the whole room has been recorded.
THEOREM LobbyCorrect == Spec => []LobbyAfterResults
  <1>1. TypeOK /\ EndGameInv => LobbyAfterResults
    <2> SUFFICES ASSUME TypeOK, EndGameInv, NEW i \in Slot, NEW j \in Slot,
                        stage = "started", slot[i] \notin attached
                 PROVE  recorded[j] # "none"
      BY DEF LobbyAfterResults
    <2>1. endStep > MaxPlayers
      BY DEF EndGameInv, AllSeated
    <2>2. j < endStep
      BY <2>1, SlotFacts DEF TypeOK
    <2> QED
      BY <2>2 DEF EndGameInv
  <1> QED
    BY <1>1, TypeCorrect, EndGameCorrect, PTL

\* No seat's result is ever overwritten: EndGame runs once.
THEOREM WrittenOnce == Spec => ResultWrittenOnce
  <1> DEFINE Once == \A i \in Slot : recorded[i] # "none" =>
                                        recorded'[i] = recorded[i]
  <1>1. TypeOK /\ EndGameInv /\ [Next]_vars => Once
    <2> SUFFICES ASSUME TypeOK, EndGameInv, [Next]_vars, NEW i \in Slot,
                        recorded[i] # "none"
                 PROVE  recorded'[i] = recorded[i]
      OBVIOUS
    <2>1. CASE \E v \in Verdict : SaveResult(v)
      <3>1. PICK v \in Verdict : SaveResult(v)
        BY <2>1
      <3>2. i # endStep
        BY SlotFacts DEF EndGameInv, TypeOK
      <3>3. recorded' = [recorded EXCEPT ![endStep] = v]
        BY <3>1 DEF SaveResult
      <3>4. recorded \in [Slot -> Verdict]
        BY DEF TypeOK
      <3> QED
        BY <3>2, <3>3, <3>4
    <2>2. CASE UNCHANGED recorded
      BY <2>2
    <2>3. (\E v \in Verdict : SaveResult(v)) \/ UNCHANGED recorded
      <3>1. CASE Setup \/ RoomErased
        BY <3>1 DEF Setup, SeatPlayer, SkipClosedPlayer, StartGame,
                    StartGameFails, RoomErased, Destroy, ending
      <3>2. CASE EndGameStep
        BY <3>2 DEF EndGameStep, ReleasePlayer, EndGameReturns, Destroy
      <3>3. CASE \E t \in Session : Disconnect(t)
        BY <3>3 DEF Disconnect, ending
      <3>4. ASSUME NEW t \in Session, Packet(t)
            PROVE  UNCHANGED recorded
        BY <3>4 DEF Packet, Dispatch, PacketIgnored, ProcessChat,
                    ProcessHint, ProcessAnswer, AnswerInvalid, AnswerContinues,
                    AnswerEndsTurn, AnswerEndsGame, ending, vars
      <3>5. CASE UNCHANGED vars
        BY <3>5 DEF vars, ending
      <3> QED
        BY <3>1, <3>2, <3>3, <3>4, <3>5 DEF Next
    <2> QED
      BY <2>1, <2>2, <2>3
  <1> QED
    BY <1>1, TypeCorrect, EndGameCorrect, PTL DEF Spec, ResultWrittenOnce

-----------------------------------------------------------------------------
(* What the clients are told.                                              *)

\* What `\o' makes of the two messages of CardUpdate and what follows them.
LEMMA AfterCardUpdate ==
    ASSUME NEW a, NEW b, NEW m, NEW n
    PROVE  /\ <<a, b>>[1] = a
           /\ (<<a, b>> \o <<m>>)[1] = a
           /\ Len(<<a, b>> \o <<m>>) = 3
           /\ (<<a, b>> \o <<m>>)[3] = m
           /\ (<<a, b>> \o <<m, n>>)[1] = a
           /\ Len(<<a, b>> \o <<m, n>>) = 4
           /\ (<<a, b>> \o <<m, n>>)[4] = n
  OBVIOUS

\* The CARD_UPDATE of a card, as the clients read it.
CardTold(c, sent) ==
    \E k \in DOMAIN sent :
        /\ sent[k].to = Listeners
        /\ sent[k].msg.type = "CARD_UPDATE"
        /\ sent[k].msg.card = c
        /\ sent[k].msg.tries = TriesAfter(c)

\* Every answer that uncovers a card sends the card first.
LEMMA AnswerTellsCard ==
    ASSUME NEW s, NEW w, NEW c \in Card,
           \/ AnswerContinues(s, w, c)
           \/ AnswerEndsTurn(s, w, c)
           \/ AnswerEndsGame(s, w, c)
    PROVE  CardTold(c, outbox')
  <1> DEFINE update == [type |-> "CARD_UPDATE", card |-> c,
                        tries |-> TriesAfter(c)]
  <1>1. CardUpdate(c) = <<Broadcast(update), Broadcast(Chat)>>
    BY DEF CardUpdate
  <1>2. 1 \in DOMAIN outbox' /\ outbox'[1] = Broadcast(update)
    BY <1>1, AfterCardUpdate
    DEF AnswerContinues, AnswerEndsTurn, AnswerEndsGame
  <1>3. /\ Broadcast(update).to = Listeners
        /\ Broadcast(update).msg = update
        /\ update.type = "CARD_UPDATE" /\ update.card = c
        /\ update.tries = TriesAfter(c)
    BY DEF Broadcast
  <1> QED
    BY <1>2, <1>3 DEF CardTold

\* An answer changes turn and phase only together with the last message of
\* SwitchTurn, and ends the game only with the last message of EndGame.
LEMMA AnswerTellsRest ==
    ASSUME NEW s, NEW w, NEW c \in Card,
           \/ AnswerContinues(s, w, c)
           \/ AnswerEndsTurn(s, w, c)
           \/ AnswerEndsGame(s, w, c)
    PROVE  /\ <<currentTurn, currentPhase>>' # <<currentTurn, currentPhase>> =>
                 Told(TurnUpdate(currentTurn', currentPhase',
                                 redScore', blueScore'))
           /\ gameOver' # gameOver => Told(GameOverMsg(winner'))
  <1>1. CASE AnswerContinues(s, w, c)
    BY <1>1 DEF AnswerContinues, ending
  <1>2. CASE AnswerEndsTurn(s, w, c)
    <2> DEFINE m == Broadcast(TurnUpdate(currentTurn', "HINT_PHASE",
                                         redScore', blueScore'))
    <2>1. outbox' = CardUpdate(c) \o <<m>> /\ UNCHANGED gameOver
          /\ currentPhase' = "HINT_PHASE"
      BY <1>2 DEF AnswerEndsTurn, ending
    <2>2. outbox' # <<>> /\ outbox'[Len(outbox')] = m
      BY <2>1, AfterCardUpdate DEF CardUpdate
    <2> QED
      BY <2>1, <2>2 DEF Told, Broadcast
  <1>3. CASE AnswerEndsGame(s, w, c)
    <2> DEFINE m == Broadcast(GameOverMsg(winner'))
    <2>1. /\ outbox' = CardUpdate(c) \o <<Broadcast(Chat), m>>
          /\ UNCHANGED <<currentTurn, currentPhase>>
      BY <1>3 DEF AnswerEndsGame
    <2>2. outbox' # <<>> /\ outbox'[Len(outbox')] = m
      BY <2>1, AfterCardUpdate DEF CardUpdate
    <2> QED
      BY <2>1, <2>2 DEF Told, Broadcast
  <1> QED
    BY <1>1, <1>2, <1>3

\* What a step has to tell.
ToldStep ==
    /\ \A c \in used' \ used :
          \E k \in DOMAIN outbox' :
              /\ outbox'[k].to = Listeners
              /\ outbox'[k].msg.type = "CARD_UPDATE"
              /\ outbox'[k].msg.card = c
              /\ currentTurn' = currentTurn =>
                    outbox'[k].msg.tries = remainingTries'
    /\ <<currentTurn, currentPhase>>' # <<currentTurn, currentPhase>> =>
          Told(TurnUpdate(currentTurn', currentPhase', redScore', blueScore'))
    /\ gameOver' # gameOver => Told(GameOverMsg(winner'))

\* A step that leaves the cards, the turn and the outcome alone has nothing to
\* tell.
LEMMA NothingToTell ==
    ASSUME used' \subseteq used, UNCHANGED <<currentTurn, currentPhase, gameOver>>
    PROVE  ToldStep
  BY DEF ToldStep

\* Every step tells what it changes.
LEMMA ToldStepHolds == BoardInv /\ [Next]_vars => ToldStep
  <1> SUFFICES ASSUME BoardInv, [Next]_vars PROVE ToldStep
    OBVIOUS
  <1>0. TypeOK
    BY DEF BoardInv
  <1>1. CASE SeatPlayer \/ SkipClosedPlayer \/ Destroy
    BY <1>1, NothingToTell
    DEF SeatPlayer, SkipClosedPlayer, Destroy, board, flow, ending
  <1>2. CASE StartGame
    <2> DEFINE m == Broadcast(TurnUpdate("RED", "HINT_PHASE", 0, 0))
    <2>1. used' \ used = {} /\ ~gameOver /\ ~gameOver'
      BY <1>2 DEF StartGame, AssignCards, BoardInv
    <2>2. /\ currentTurn' = "RED" /\ currentPhase' = "HINT_PHASE"
          /\ redScore' = 0 /\ blueScore' = 0
      BY <1>2 DEF StartGame
    <2>3. outbox' # <<>> /\ outbox'[Len(outbox')] = m
      BY <1>2 DEF StartGame
    <2>4. gameOver \in BOOLEAN /\ gameOver' \in BOOLEAN
      BY <1>0, <1>2 DEF StartGame, TypeOK
    <2>5. Told(TurnUpdate(currentTurn', currentPhase', redScore', blueScore'))
      BY <2>2, <2>3 DEF Told, Broadcast
    <2>6. gameOver' = gameOver
      BY <2>1, <2>4
    <2> QED
      BY <2>1, <2>5, <2>6 DEF ToldStep
  <1>3. CASE EndGameStep
    BY <1>3, NothingToTell
    DEF EndGameStep, SaveResult, ReleasePlayer, EndGameReturns, board, flow
  <1>4. ASSUME NEW s \in Session, Disconnect(s) PROVE ToldStep
    BY <1>4, NothingToTell DEF Disconnect, board, flow, ending
  <1>5. ASSUME NEW s \in Session, Packet(s) PROVE ToldStep
    <2>1. CASE Dispatch(s) \/ PacketIgnored(s) \/ ProcessChat(s)
      BY <2>1, NothingToTell
      DEF Dispatch, PacketIgnored, ProcessChat, board, flow, ending
    <2>2. ASSUME NEW n \in HintNumber, ProcessHint(s, n) PROVE ToldStep
      <3> DEFINE m == TurnUpdate(currentTurn, currentPhase', redScore, blueScore)
      <3>1. /\ UNCHANGED <<used, currentTurn, gameOver, redScore, blueScore>>
            /\ outbox' # <<>> /\ outbox'[Len(outbox')] = Broadcast(m)
        BY <2>2 DEF ProcessHint, board, ending
      <3>2. Told(m)
        BY <3>1 DEF Told, Broadcast
      <3> QED
        BY <3>1, <3>2 DEF ToldStep
    <2>3. ASSUME NEW w, AnswerInvalid(s, w) PROVE ToldStep
      BY <2>3, NothingToTell DEF AnswerInvalid, board, flow, ending
    <2>4. ASSUME NEW w, NEW c \in Card,
                 \/ AnswerContinues(s, w, c)
                 \/ AnswerEndsTurn(s, w, c)
                 \/ AnswerEndsGame(s, w, c)
          PROVE  ToldStep
      <3>1. CardTold(c, outbox')
        BY <2>4, AnswerTellsCard
      <3>2. used' = used \cup {c}
        BY <2>4
        DEF AnswerContinues, AnswerEndsTurn, AnswerEndsGame, Uncover
      <3>3. currentTurn' = currentTurn => remainingTries' = TriesAfter(c)
        BY <1>0, <2>4, OtherTeam
        DEF AnswerContinues, AnswerEndsTurn, AnswerEndsGame, TypeOK
      <3>4. \E k \in DOMAIN outbox' :
               /\ outbox'[k].to = Listeners
               /\ outbox'[k].msg.type = "CARD_UPDATE"
               /\ outbox'[k].msg.card = c
               /\ currentTurn' = currentTurn =>
                     outbox'[k].msg.tries = remainingTries'
        BY <3>1, <3>3 DEF CardTold
      <3> QED
        BY <2>4, <3>2, <3>4, AnswerTellsRest DEF ToldStep
    <2> QED
      BY <1>5, <2>1, <2>2, <2>3, <2>4 DEF Packet, ProcessAnswer
  <1>6. CASE UNCHANGED vars
    BY <1>6, NothingToTell DEF vars, board, flow, ending
  <1> QED
    BY <1>1, <1>2, <1>3, <1>4, <1>5, <1>6
    DEF Next, Setup, StartGameFails, RoomErased

\* Whichever handler changes the room, everybody connected is told: the card
\* with the guesses that are left, the new turn or phase with the score, the
\* end of the game with its winner.
THEOREM ChangesTold == Spec => ChangesAreTold
  <1> QED
    BY BoardCorrect, ToldStepHolds, PTL DEF Spec, ChangesAreTold, ToldStep
=============================================================================
