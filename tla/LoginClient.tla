----------------------------- MODULE LoginClient -----------------------------
(***************************************************************************)
(* The client from its start to the matching screen: main and IOCPClient   *)
(* with its receive thread, the login, sign-up, menu and matching scenes   *)
(* of GUIManager, and the handlers of PacketHandler for the answers to     *)
(* SIGNUP, LOGIN and QUERY_WAIT.  What follows is left to GameClient.      *)
(*                                                                         *)
(* What the player types into the fields of a screen, and the focus he     *)
(* moves between them, is one action with what he confirms.  A definition  *)
(* named after another with a twist stands before the one it replaces in a *)
(* mutation run.                                                           *)
(***************************************************************************)
EXTENDS Integers, Sequences

CONSTANTS
    Id,           \* what the player may type as an id
    Nick,
    NoName,       \* GameState::username before anybody typed one
    MaxInFlight   \* bound: requests and messages on the way when one is sent
                  \* (nothing is sent once a receive has returned several)

VARIABLES
    life,         \* how far main is
    receiver,     \* where the thread of IOCPClient is
    connected,    \* connected_
    up,           \* requests on the way to the server
    down,         \* messages on the way to the main thread of the client
    at,           \* what Run is doing
    scene,        \* currentScene_
    phase,        \* currentPhase of GameState
    username,     \* username of GameState
    token,        \* token of GameState; 0 is the empty one
    asked,        \* history: SIGNUP or LOGIN was sent and not answered since
    slow,         \* history: the client gave up on an answer
    joined        \* history: one receive returned several messages

network == <<life, receiver, connected>>
stream == <<up, down>>
screen == <<at, scene>>
game == <<phase, username, token>>
hindsight == <<asked, slow, joined>>
loginVars == <<network, stream, screen, game, hindsight>>

NoToken == 0

LoginInit ==
    /\ life = "begin" /\ receiver = "none"
    /\ connected = FALSE
    /\ up = <<>> /\ down = <<>>
    /\ at = "loop" /\ scene = "LOGIN"
    /\ phase = "LOGIN" /\ username = NoName /\ token = NoToken
    /\ asked = FALSE /\ slow = FALSE /\ joined = FALSE

-----------------------------------------------------------------------------
(* main and IOCPClient.                                                    *)

\* InitializeIOCP starts the receive thread, before there is a connection.
Initialize ==
    /\ life = "begin"
    /\ life' = "initialized" /\ receiver' = "check"
    /\ UNCHANGED <<connected, stream, screen, game, hindsight>>

\* connect and the first receive.  The first thing Run does is the task that
\* OnNetworkConnected left for it.
Connect ==
    /\ life = "initialized"
    /\ life' = "gui" /\ connected' = TRUE /\ phase' = "LOBBY"
    /\ UNCHANGED <<receiver, stream, screen, username, token, hindsight>>

\* main returns, and the destructor of IOCPClient calls Disconnect, too.
ConnectFails ==
    /\ life = "initialized"
    /\ life' = "closing"
    /\ UNCHANGED <<receiver, connected, stream, screen, game, hindsight>>

\* The destructor posts an empty packet to the receive thread and joins it.
ReceiverIsJoined ==
    /\ life = "closing" /\ receiver \in {"done", "ended"}
    /\ life' = "left"
    /\ UNCHANGED <<receiver, connected, stream, screen, game, hindsight>>

-----------------------------------------------------------------------------
(* WorkerThread.                                                           *)

\* A thread that comes before Connect is done with its work.
ReceiverChecks ==
    /\ receiver = "check"
    /\ receiver' = IF connected THEN "wait" ELSE "done"
    /\ UNCHANGED <<life, connected, stream, screen, game, hindsight>>

\* The connection is closed from the other side: Disconnect.  The thread has
\* put some of what came before into g_packetQueue.
ReceiveEnds ==
    /\ receiver = "wait"
    /\ receiver' = "ended" /\ connected' = FALSE
    /\ \E n \in 0 .. Len(down) : down' = SubSeq(down, 1, n)
    /\ UNCHANGED <<life, up, screen, game, hindsight>>

\* The receive was aborted, or there is the empty packet.
ReceiverIsTold ==
    /\ receiver = "wait" /\ ~connected
    /\ receiver' = "done"
    /\ UNCHANGED <<life, connected, stream, screen, game, hindsight>>

-----------------------------------------------------------------------------
(* PacketHandler.                                                          *)

TakesTokenOnce(m) ==
    /\ token' = IF token = NoToken THEN m.token ELSE token
    /\ phase' = "LOBBY"

\* HandleSignupOk and HandleLoginOk.
TakesToken(m) == token' = m.token /\ phase' = "LOBBY"

\* A refused LOGIN changes nothing, a refused SIGNUP, AUTH_ERROR and
\* INVALID_TOKEN set the phase; LOBBY_ERROR and QUEUE_ERROR have no handler.
ProcessPacket(m) ==
    /\ CASE m.type \in {"SIGNUP_OK", "LOGIN_OK"} -> TakesToken(m)
         [] m.type = "WAIT_REPLY" -> phase' = "MATCHING" /\ UNCHANGED token
         [] m.type \in {"SIGNUP_ERROR", "AUTH_ERROR", "INVALID_TOKEN"} ->
               phase' = "ERROR_PHASE" /\ UNCHANGED token
         [] OTHER -> UNCHANGED <<phase, token>>
    /\ asked' = (asked /\ m.type \in {"WAIT_REPLY", "INVALID_TOKEN", "AUTH_ERROR"})

\* The receive thread passes on what one receive returns, and the three
\* loops that drain g_packetQueue handle the first message of it.
HasPacket == receiver \in {"wait", "ended"} /\ down # <<>>

HandleFront ==
    /\ HasPacket
    /\ ProcessPacket(Head(down))
    /\ \E n \in 1 .. Len(down) :
          /\ down' = SubSeq(down, n + 1, Len(down))
          /\ joined' = (joined \/ n > 1)
    /\ UNCHANGED <<up, username, slow>>

-----------------------------------------------------------------------------
(* GUIManager.                                                             *)

InGui == life = "gui"

\* Run handles packets, then enters a scene.
RunHandles ==
    /\ InGui /\ at = "loop"
    /\ HandleFront
    /\ UNCHANGED <<network, screen>>

\* SendData: nothing leaves without a connection.
SendData(p) ==
    /\ UNCHANGED down
    /\ IF connected
       THEN up' = Append(up, p) /\ Len(up') + Len(down) <= MaxInFlight /\ ~joined
       ELSE UNCHANGED up

\* Run found no packet; what is there now came later.  Only the matching
\* scene says something on entering: QUERY_WAIT, if there is a token.
RunEnters ==
    /\ InGui /\ at = "loop"
    /\ IF scene = "MATCHING"
       THEN /\ at' = "matching"
            /\ IF token # NoToken
               THEN SendData([type |-> "QUERY_WAIT", token |-> token])
               ELSE UNCHANGED stream
       ELSE at' = "screen" /\ UNCHANGED stream
    /\ UNCHANGED <<network, scene, game, hindsight>>

AtScreen(sc) == InGui /\ at = "screen" /\ scene = sc

Enters(sc) == scene' = sc /\ at' = "loop"

LogsInKeepingName(id) ==
    /\ AtScreen("LOGIN")
    /\ username' = IF username = NoName THEN id ELSE username
    /\ SendData([type |-> "LOGIN", id |-> id])
    /\ asked' = TRUE
    /\ at' = "await"
    /\ UNCHANGED <<network, scene, phase, token, slow, joined>>

\* A field that was left empty is sent as it is.
LogsInUnchecked(id) ==
    /\ AtScreen("LOGIN")
    /\ \E name \in {id, NoName} :
          /\ username' = name
          /\ SendData([type |-> "LOGIN", id |-> name])
    /\ asked' = TRUE
    /\ at' = "await"
    /\ UNCHANGED <<network, scene, phase, token, slow, joined>>

\* LoginScreen: an id, a password and the Login button.
LogsIn(id) ==
    /\ AtScreen("LOGIN")
    /\ username' = id
    /\ SendData([type |-> "LOGIN", id |-> id])
    /\ asked' = TRUE
    /\ at' = "await"
    /\ UNCHANGED <<network, scene, phase, token, slow, joined>>

\* An empty field, the Signup button, or the Back button of SignupScreen.
TurnsTo(sc) ==
    /\ \/ AtScreen("LOGIN") /\ sc \in {"LOGIN", "SIGNUP"}
       \/ AtScreen("SIGNUP") /\ sc = "LOGIN"
    /\ Enters(sc)
    /\ UNCHANGED <<network, stream, game, hindsight>>

\* SignupScreen does not touch the username.
SignsUp(id, nick) ==
    /\ AtScreen("SIGNUP")
    /\ SendData([type |-> "SIGNUP", id |-> id, nick |-> nick])
    /\ asked' = TRUE
    /\ at' = "await"
    /\ UNCHANGED <<network, scene, game, slow, joined>>

\* The loop that waits for an answer takes one packet, then looks whether
\* there is a token or the phase is LOBBY, which OnNetworkConnected set.
HasTokenOrPhase == token # NoToken \/ phase = "LOBBY"

AwaitHandles ==
    /\ InGui /\ at = "await"
    /\ HandleFront
    /\ IF HasTokenOrPhase' THEN Enters("MAIN_MENU") ELSE UNCHANGED screen
    /\ UNCHANGED network

\* It found no packet.
AwaitSucceeds ==
    /\ InGui /\ at = "await" /\ HasTokenOrPhase
    /\ Enters("MAIN_MENU")
    /\ UNCHANGED <<network, stream, game, hindsight>>

\* Five seconds are over.  bound: the client gives up on one answer.
AwaitTimesOut ==
    /\ InGui /\ at = "await" /\ ~HasTokenOrPhase
    /\ ~ (slow /\ asked)
    /\ slow' = (slow \/ asked)
    /\ Enters("LOGIN")
    /\ UNCHANGED <<network, stream, game, asked, joined>>

\* MainScreen.
StartsGame ==
    /\ AtScreen("MAIN_MENU")
    /\ phase' = "MATCHING"
    /\ Enters("MATCHING")
    /\ UNCHANGED <<network, stream, username, token, hindsight>>

\* Run returns, and main calls Disconnect.
Quits ==
    /\ AtScreen("MAIN_MENU")
    /\ Enters("EXIT")
    /\ life' = "closing" /\ connected' = FALSE
    /\ down' = <<>>
    /\ UNCHANGED <<receiver, up, game, hindsight>>

\* The matching scene waits for the phase PLAYING, which GameClient shows.
MatchingHandles ==
    /\ InGui /\ at = "matching"
    /\ HandleFront
    /\ UNCHANGED <<network, screen>>

PressesEsc ==
    /\ InGui /\ at = "matching"
    /\ Enters("MAIN_MENU")
    /\ UNCHANGED <<network, stream, game, hindsight>>

-----------------------------------------------------------------------------
\* What the main thread does by itself.
MainThread ==
    \/ RunHandles \/ RunEnters \/ MatchingHandles
    \/ AwaitHandles \/ AwaitSucceeds \/ AwaitTimesOut

Keys ==
    \/ \E id \in Id :
          LogsIn(id) \/ \E nick \in Nick : SignsUp(id, nick)
    \/ \E sc \in {"LOGIN", "SIGNUP"} : TurnsTo(sc)
    \/ StartsGame \/ Quits \/ PressesEsc
=============================================================================
