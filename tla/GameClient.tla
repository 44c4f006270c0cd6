----------------------------- MODULE GameClient -----------------------------
(***************************************************************************)
(* The client of one player from the matching screen to the result screen: *)
(* PacketHandler and GameState, the scenes of GUIManager and the input     *)
(* modes of GameScreen.                                                    *)
(*                                                                         *)
(* inbox holds what the server sent and the main thread has not handled:   *)
(* the TCP stream and g_packetQueue in one, because nothing but the main   *)
(* thread looks at the queue, and at most to find it empty.  The receive   *)
(* thread passes on whatever one receive returns as one packet, and        *)
(* ProcessPacket handles the first message of a packet only.               *)
(*                                                                         *)
(* A definition named after another with a twist stands before the one it  *)
(* replaces in a mutation run.                                             *)
(***************************************************************************)
EXTENDS Integers, Sequences

CONSTANTS
    Card,         \* indices into the cards of ALL_CARDS
    Word,         \* what a player may type as an answer
    WordOf,       \* the words of the cards
    Number,       \* what a player may type as the number of a hint
    MaxTogether,  \* bound: messages that one receive returns
    MaxTyped      \* bound: packets sent that the server has not read

VARIABLES
    inbox,     \* messages from the server
    upstream,  \* packets to the server
    view,      \* the fields of GameState
    mode,      \* inputMode_
    running,   \* gameRunning_
    scene,     \* currentScene_
    entering,  \* Run has left a scene and is about to enter the next
    staleEsc,  \* inputEvents_ holds the ESC that ended the last game's thread
    lost,      \* history: a packet held more than one message
    restarted  \* history: the player has been back to the menu and matches anew

table == <<view, mode, running>>
clientVars == <<inbox, upstream, table, scene, entering, staleEsc, lost, restarted>>

GamePhase == {"MATCHING", "PLAYING", "RESULT"}
Mode == {"NONE", "HINT_WORD", "HINT_COUNT", "ANSWER", "CHAT"}
Scene == {"MAIN_MENU", "MATCHING", "GAME", "RESULT", "EXIT"}

\* The fields that decide what the player sees and may do.  team is "none"
\* until GAME_INIT names the player.  cards is "old" while the cards of an
\* earlier game lie on the table, which the code cannot tell from new ones.
FirstGame ==
    [phase |-> "MATCHING", team |-> "none", leader |-> FALSE,
     cards |-> "none", revealed |-> {},
     turn |-> "RED", step |-> "HINT_PHASE", tries |-> 0, red |-> 0, blue |-> 0]

\* GameState::Reset is never called: an earlier game, played as the guessing
\* agent of the blue team, leaves everything behind.
Leftover ==
    [phase |-> "MATCHING", team |-> "BLUE", leader |-> FALSE,
     cards |-> "old", revealed |-> Card,
     turn |-> "BLUE", step |-> "GUESS_PHASE", tries |-> 1, red |-> 1, blue |-> 1]

ClientInit ==
    /\ inbox = <<>> /\ upstream = <<>>
    /\ view \in {FirstGame, Leftover}
    /\ mode = "NONE" /\ running = FALSE
    /\ scene = "MATCHING" /\ entering = FALSE
    /\ staleEsc \in {FALSE, view = Leftover}
    /\ lost = FALSE /\ restarted = FALSE

\* UpdateInputModeBasedOnGameState.
AutoModeOfAnyTurn(v) ==
    IF v.step = "HINT_PHASE" /\ v.leader THEN "HINT_WORD"
    ELSE IF v.step = "GUESS_PHASE" /\ ~v.leader THEN "ANSWER" ELSE "NONE"
AutoMode(v) ==
    IF v.turn # v.team THEN "NONE"
    ELSE IF v.step = "HINT_PHASE" /\ v.leader THEN "HINT_WORD"
    ELSE IF v.step = "GUESS_PHASE" /\ ~v.leader THEN "ANSWER" ELSE "NONE"

-----------------------------------------------------------------------------
(* The handlers of PacketHandler, with the callbacks of GameScreen.        *)

\* SetPhase and OnPhaseChanged.
SetPhase(p) ==
    /\ view' = [view EXCEPT !.phase = p]
    /\ mode' = IF view.phase = p THEN mode
               ELSE IF p = "PLAYING" THEN AutoMode(view) ELSE "NONE"
    /\ UNCHANGED running

HandleWaitReply == SetPhase("MATCHING")

HandleQueueFull == SetPhase("MATCHING")

HandleGameStartTooEarly == HandleWaitReply
HandleGameStart == SetPhase("PLAYING")

\* m.team is "none" when no seat bears the name the player logged in with;
\* then everything stays as it was.
HandleGameInit(m) ==
    /\ view' = IF m.team = "none" THEN view
               ELSE [view EXCEPT !.team = m.team, !.leader = m.leader]
    /\ UNCHANGED <<mode, running>>

HandleAllCardsFaceUp ==
    /\ view' = [view EXCEPT !.cards = "new"]
    /\ UNCHANGED <<mode, running>>
HandleAllCards ==
    /\ view' = [view EXCEPT !.cards = "new", !.revealed = {}]
    /\ UNCHANGED <<mode, running>>

HandleTurnUpdate(m) ==
    /\ view' = [view EXCEPT !.turn = m.turn, !.step = m.phase,
                            !.red = m.red, !.blue = m.blue]
    /\ mode' = AutoMode(view')
    /\ UNCHANGED running

HandleHintMsg(m) ==
    /\ view' = [view EXCEPT !.tries = m.number]
    /\ UNCHANGED <<mode, running>>

\* RevealCard ignores an index beyond the cards it has.
HandleCardUpdateKeepingTries(m) ==
    /\ view' = [view EXCEPT
                   !.revealed = IF view.cards = "none" THEN @ ELSE @ \cup {m.card}]
    /\ UNCHANGED <<mode, running>>
HandleCardUpdate(m) ==
    /\ view' = [view EXCEPT
                   !.revealed = IF view.cards = "none" THEN @ ELSE @ \cup {m.card},
                   !.tries = m.tries]
    /\ UNCHANGED <<mode, running>>

\* OnGameOver sets the phase without telling OnPhaseChanged.
HandleGameOverQuietly ==
    /\ running' = FALSE
    /\ UNCHANGED <<view, mode>>
HandleGameOver ==
    /\ view' = [view EXCEPT !.phase = "RESULT"]
    /\ running' = FALSE
    /\ UNCHANGED mode

\* Chat lines only scroll by; ANSWER_RESULT and the like have no handler.
HandleNothing == UNCHANGED <<view, mode, running>>

Handle(m) ==
    \/ m.type = "WAIT_REPLY" /\ HandleWaitReply
    \/ m.type = "QUEUE_FULL" /\ HandleQueueFull
    \/ m.type = "GAME_START" /\ HandleGameStart
    \/ m.type = "GAME_INIT" /\ HandleGameInit(m)
    \/ m.type = "ALL_CARDS" /\ HandleAllCards
    \/ m.type = "TURN_UPDATE" /\ HandleTurnUpdate(m)
    \/ m.type = "HINT" /\ HandleHintMsg(m)
    \/ m.type = "CARD_UPDATE" /\ HandleCardUpdate(m)
    \/ m.type = "GAME_OVER" /\ HandleGameOver
    \/ m.type \in {"CHAT", "ANSWER_RESULT"} /\ HandleNothing

\* A message that has no '|' of its own swallows the type of its successor.
HasFields(m) == m.type # "QUEUE_FULL"

\* The main thread reads packets in the matching and the game scene, until
\* ESC has left it, and between two scenes.  n messages have come together.
ProcessPacket(n) ==
    /\ \/ entering \/ scene = "MATCHING"
       \/ scene = "GAME" /\ (running \/ view.phase = "RESULT")
    /\ n <= Len(inbox) /\ (n = 1 \/ ~lost)   \* bound: once in a run
    /\ IF n = 1 \/ HasFields(Head(inbox)) THEN Handle(Head(inbox))
                                         ELSE HandleNothing
    /\ inbox' = SubSeq(inbox, n + 1, Len(inbox))
    /\ lost' = (lost \/ n > 1)
    /\ UNCHANGED <<upstream, scene, entering, staleEsc, restarted>>

-----------------------------------------------------------------------------
(* Scenes.                                                                 *)

Goto(s) == scene' = s /\ entering' = TRUE

\* MatchingSceneLoop leaves when it finds the phase PLAYING, or on ESC,
\* which tells the server nothing.
MatchFound ==
    /\ scene = "MATCHING" /\ ~entering /\ view.phase = "PLAYING"
    /\ Goto("GAME")
    /\ UNCHANGED <<inbox, upstream, table, staleEsc, lost, restarted>>

LeaveMatching ==
    /\ scene = "MATCHING" /\ ~entering
    /\ Goto("MAIN_MENU")
    /\ UNCHANGED <<inbox, upstream, table, staleEsc, lost, restarted>>

\* GameScreen::Show begins, and first looks whether the game is over.
EnterGame ==
    /\ scene = "GAME" /\ entering
    /\ entering' = FALSE
    /\ running' = (view.phase # "RESULT")
    /\ mode' = AutoMode(view)
    /\ UNCHANGED <<inbox, upstream, view, scene, staleEsc, lost, restarted>>

\* MatchingSceneLoop begins with a QUERY_WAIT.
EnterMatching ==
    /\ scene = "MATCHING" /\ entering /\ Len(upstream) < MaxTyped
    /\ entering' = FALSE
    /\ upstream' = Append(upstream, [type |-> "QUERY_WAIT"])
    /\ UNCHANGED <<inbox, table, scene, staleEsc, lost, restarted>>

EnterOther ==
    /\ scene \in {"MAIN_MENU", "RESULT"} /\ entering
    /\ entering' = FALSE
    /\ UNCHANGED <<inbox, upstream, table, scene, staleEsc, lost, restarted>>

\* Show leaves its loop and waits for the input thread, which waits for a
\* key: the player has to press one, and it stays in inputEvents_.
LeaveGame ==
    /\ scene = "GAME" /\ ~entering
    /\ ~running \/ view.phase = "RESULT"
    /\ Goto("RESULT")
    /\ staleEsc' \in BOOLEAN
    /\ UNCHANGED <<inbox, upstream, table, lost, restarted>>

LeaveResult ==
    /\ scene = "RESULT" /\ ~entering
    /\ Goto("MAIN_MENU")
    /\ UNCHANGED <<inbox, upstream, table, staleEsc, lost, restarted>>

\* bound: once in a run.
StartMatching ==
    /\ scene = "MAIN_MENU" /\ ~entering /\ ~restarted
    /\ SetPhase("MATCHING")
    /\ Goto("MATCHING")
    /\ restarted' = TRUE
    /\ UNCHANGED <<inbox, upstream, staleEsc, lost>>

Quit ==
    /\ scene = "MAIN_MENU" /\ ~entering
    /\ scene' = "EXIT"
    /\ UNCHANGED <<inbox, upstream, table, entering, staleEsc, lost, restarted>>

-----------------------------------------------------------------------------
(* Keys in the game scene.  What stands in the buffer when the player      *)
(* presses ENTER is the parameter of the action.  Keys typed before the    *)
(* loop notices that the game has ended still count.                       *)

AtTheTable == scene = "GAME" /\ ~entering /\ ~staleEsc

Type(packet) ==
    /\ Len(upstream) < MaxTyped
    /\ upstream' = Append(upstream, packet)

EnterHintWord ==
    /\ AtTheTable /\ mode = "HINT_WORD"
    /\ mode' = "HINT_COUNT"
    /\ UNCHANGED <<inbox, upstream, view, running, scene, entering, staleEsc,
                   lost, restarted>>

\* A count that is no number above zero is not sent.
EnterAnyCount(n) ==
    /\ AtTheTable /\ mode = "HINT_COUNT"
    /\ Type([type |-> "HINT", number |-> n])
    /\ mode' = "NONE"
    /\ UNCHANGED <<inbox, view, running, scene, entering, staleEsc, lost,
                   restarted>>
EnterHintCount(n) ==
    /\ AtTheTable /\ mode = "HINT_COUNT" /\ n > 0
    /\ Type([type |-> "HINT", number |-> n])
    /\ mode' = "NONE"
    /\ UNCHANGED <<inbox, view, running, scene, entering, staleEsc, lost,
                   restarted>>

\* Only the word of a card that lies face down is sent.
EnterAnswer(w) ==
    /\ AtTheTable /\ mode = "ANSWER"
    /\ view.cards # "none"
    /\ \E c \in Card \ view.revealed : WordOf[c] = w
    /\ Type([type |-> "ANSWER", word |-> w])
    /\ UNCHANGED <<inbox, table, scene, entering, staleEsc, lost, restarted>>

EnterChat ==
    /\ AtTheTable /\ mode = "CHAT"
    /\ Type([type |-> "CHAT"])
    /\ UNCHANGED <<inbox, table, scene, entering, staleEsc, lost, restarted>>

Tab ==
    /\ AtTheTable
    /\ mode' = IF mode = "CHAT" THEN AutoMode(view) ELSE "CHAT"
    /\ UNCHANGED <<inbox, upstream, view, running, scene, entering, staleEsc,
                   lost, restarted>>

\* ESC leaves the input mode, and without one the game, again in silence.
EscapeHandled ==
    /\ IF mode = "NONE" THEN running' = FALSE /\ UNCHANGED mode
                        ELSE mode' = "NONE" /\ UNCHANGED running
    /\ UNCHANGED <<inbox, upstream, view, scene, entering, lost, restarted>>

Escape == AtTheTable /\ EscapeHandled /\ UNCHANGED staleEsc

\* The first thing ProcessInputEvents finds is the key of the last game.
StaleEscape ==
    /\ scene = "GAME" /\ ~entering /\ staleEsc
    /\ EscapeHandled
    /\ staleEsc' = FALSE

Key ==
    \/ EnterHintWord
    \/ \E n \in Number : EnterHintCount(n)
    \/ \E w \in Word : EnterAnswer(w)
    \/ EnterChat \/ Tab \/ Escape

\* The main thread by itself.
Loop ==
    \/ \E n \in 1 .. MaxTogether : ProcessPacket(n)
    \/ MatchFound \/ EnterGame \/ EnterMatching \/ EnterOther
    \/ StaleEscape

ClientNext ==
    \/ Loop \/ Key
    \/ LeaveMatching \/ LeaveGame \/ LeaveResult \/ StartMatching \/ Quit

-----------------------------------------------------------------------------
\* The fields hold values the code gives them.
ClientTypeOK ==
    /\ upstream \in Seq([type : {"QUERY_WAIT", "CHAT"}]
                        \cup [type : {"HINT"}, number : {n \in Number : n > 0}]
                        \cup [type : {"ANSWER"}, word : Word])
    /\ Len(upstream) <= MaxTyped
    /\ view.phase \in GamePhase
    /\ view.team \in {"RED", "BLUE", "none"} /\ view.leader \in BOOLEAN
    /\ view.cards \in {"none", "old", "new"} /\ view.revealed \subseteq Card
    /\ view.turn \in {"RED", "BLUE"}
    /\ view.step \in {"HINT_PHASE", "GUESS_PHASE"}
    /\ view.tries \in Int /\ view.red \in Nat /\ view.blue \in Nat
    /\ mode \in Mode /\ scene \in Scene
    /\ {running, entering, staleEsc, lost, restarted} \subseteq BOOLEAN
=============================================================================
