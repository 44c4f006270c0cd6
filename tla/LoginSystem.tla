----------------------------- MODULE LoginSystem -----------------------------
(***************************************************************************)
(* A client that starts, signs up or logs in and asks for a game, and the  *)
(* server that starts, serves it and is stopped: LoginClient on one side,  *)
(* ServerNetwork on the other, the two streams between them, and the       *)
(* handlers HandleAuthProtocol and HandleLobbyPacket, whose effect on the  *)
(* accounts is that of AccountRules, which Accounts implements.            *)
(*                                                                         *)
(* ProcessRecv takes whatever one receive returns for one packet: a second *)
(* request in it spoils the last field of the first.                       *)
(***************************************************************************)
EXTENDS ServerNetwork

CONSTANTS
    Me,           \* the connection of the client, the only one
    Id, Nick, NoName,
    Known,        \* bound: the accounts that may be stored already
    MaxInFlight   \* bound: requests and messages on the way when one is sent

ASSUME LoginAssumption ==
    /\ Session = {Me}
    /\ NoName \notin Id \cup Nick
    /\ MaxInFlight \in Nat \ {0}

VARIABLES
    life, receiver, connected, up, down, at, scene, phase, username, token,
    asked, slow, joined,
    accounts, unanswered, state, nickname, account, blind,
    packet,       \* the packet of the handler that is under way
    issued,       \* token_ of the session: the n-th token that was made
    waiting       \* isInMatchingQueue_

Client == INSTANCE LoginClient
Rules == INSTANCE AccountRules WITH Absent <- NoName

clientVars ==
    <<life, receiver, connected, up, down, at, scene, phase, username, token,
      asked, slow, joined>>
ruleVars == <<accounts, unanswered, state, nickname, account, blind>>
serverVars == <<ruleVars, packet, issued, waiting>>
all == <<netVars, clientVars, serverVars>>

NoPacket == [type |-> "NONE"]

JointInit ==
    /\ NetInit /\ Client!LoginInit
    /\ Rules!Init /\ accounts \subseteq Known
    /\ packet = NoPacket /\ issued = 0 /\ waiting = FALSE

-----------------------------------------------------------------------------
(* The connection.                                                         *)

ServerAlone == UNCHANGED <<clientVars, serverVars>>
ClientAlone == UNCHANGED <<netVars, serverVars>>

Connects == Client!Connect /\ ClientConnects(Me) /\ UNCHANGED serverVars

ConnectFails == ~listening /\ Client!ConnectFails /\ ClientAlone

\* The server has closed the socket, or never accepted it and is gone.
Cut == Me \in closed \/ (link[Me] = "backlog" /\ ~listening)

ClientIsCut == Cut /\ Client!ReceiveEnds /\ ClientAlone

\* One receive returns the first n requests of the stream.
RequestsArrive ==
    /\ up # <<>> /\ Me \notin closed
    /\ ReceiveCompletes(Me, "data")
    /\ \E n \in 1 .. Len(up) :
          /\ packet' = IF n = 1 THEN Head(up)
                       ELSE [type |-> Head(up).type, spoilt |-> TRUE]
          /\ up' = SubSeq(up, n + 1, Len(up))
          /\ joined' = (joined \/ n > 1)
    /\ UNCHANGED <<life, receiver, connected, down, at, scene, phase, username,
                   token, asked, slow>>
    /\ UNCHANGED <<ruleVars, issued, waiting>>

\* A side has closed its socket.
StreamEnds ==
    /\ ~connected \/ Me \in closed
    /\ ReceiveCompletes(Me, "none") \/ SendFails(Me)
    /\ ServerAlone

-----------------------------------------------------------------------------
(* The handlers.  PostSend to a closed session fails, and nobody looks.    *)

Deliver(m) ==
    /\ down' = IF Me \in closed \/ ~connected THEN down ELSE Append(down, m)
    /\ UNCHANGED <<life, receiver, connected, up, at, scene, phase, username,
                   token, asked, slow, joined>>

\* ProcessRecv gives a packet to the handler that fits currentState_.
Handles(w, st, type) ==
    /\ Busy(w, "RECV", "data")
    /\ state[Me] = st /\ packet.type = type

Intact == "spoilt" \notin DOMAIN packet

Done == packet' = NoPacket

\* The handler answers and returns.
Answers(w, m) == HandlePacket(w) /\ Deliver(m) /\ Done

\* SignupUser, and later the answer.  A sign-up that another request spoilt
\* is not looked at: the client sends one only after a time-out.
SignupStores(w) ==
    /\ Handles(w, "AUTHENTICATING", "SIGNUP") /\ Intact
    /\ Rules!SignUp(Me, [id |-> packet.id, nick |-> packet.nick])
    /\ UNCHANGED <<netVars, clientVars, packet, issued, waiting>>

IssueNothing == UNCHANGED issued
IssueToken == issued' = issued + 1

SignupAnswers(w) ==
    /\ Busy(w, "RECV", "data")
    /\ Rules!AnswerSignUp(Me)
    /\ IssueToken
    /\ Answers(w, [type |-> "SIGNUP_OK", token |-> issued + 1])
    /\ UNCHANGED waiting

\* A duplicate, or a statement that failed.
SignupRefused(w) ==
    /\ Handles(w, "AUTHENTICATING", "SIGNUP") /\ unanswered[Me] = Rules!None
    /\ Answers(w, [type |-> "SIGNUP_ERROR"])
    /\ UNCHANGED <<ruleVars, issued, waiting>>

\* LOGIN_OK is sent first; currentState_ is set after that.
LoginAnswers(w) ==
    /\ Handles(w, "AUTHENTICATING", "LOGIN") /\ Intact
    /\ \E a \in accounts :
          /\ a.id = packet.id
          /\ packet' = [type |-> "LOGIN_ACCEPTED", account |-> a]
    /\ IssueToken
    /\ HandlerSends(w)
    /\ Deliver([type |-> "LOGIN_OK", token |-> issued + 1])
    /\ UNCHANGED <<ruleVars, waiting>>

LoginReturns(w) ==
    /\ Handles(w, "AUTHENTICATING", "LOGIN_ACCEPTED")
    /\ Rules!LogIn(Me, packet.account)
    /\ HandlerReturns(w) /\ Done
    /\ UNCHANGED <<failing, clientVars, issued, waiting>>

LoginRefused(w) ==
    /\ Handles(w, "AUTHENTICATING", "LOGIN")
    /\ Answers(w, [type |-> "LOGIN_REFUSED"])
    /\ UNCHANGED <<ruleVars, issued, waiting>>

\* QUERY_WAIT before a login: a player who has only signed up.
NotLoggedIn(w) ==
    /\ Handles(w, "AUTHENTICATING", "QUERY_WAIT")
    /\ Answers(w, [type |-> "AUTH_ERROR"])
    /\ UNCHANGED <<ruleVars, issued, waiting>>

RightToken == Intact /\ packet.token = issued

\* QUERY_WAIT in the lobby.  DisconnectAll may have taken the session out of
\* the table; QUEUE_ERROR has no handler in the client.
Queries(w) ==
    /\ Handles(w, "IN_LOBBY", "QUERY_WAIT")
    /\ \/ /\ RightToken /\ Me \in table
          /\ waiting' = TRUE
          /\ Answers(w, [type |-> "WAIT_REPLY"])
       \/ /\ RightToken /\ Me \notin table
          /\ Answers(w, [type |-> "QUEUE_ERROR"])
          /\ UNCHANGED waiting
       \/ /\ ~RightToken
          /\ Answers(w, [type |-> "INVALID_TOKEN"])
          /\ UNCHANGED waiting
    /\ UNCHANGED <<ruleVars, issued>>

\* SIGNUP and LOGIN are no packets of the lobby.
UnknownInLobby(w) ==
    /\ Handles(w, "IN_LOBBY", "SIGNUP") \/ Handles(w, "IN_LOBBY", "LOGIN")
    /\ Answers(w, [type |-> "LOBBY_ERROR"])
    /\ UNCHANGED <<ruleVars, issued, waiting>>

Handler(w) ==
    \/ SignupStores(w) \/ SignupAnswers(w) \/ SignupRefused(w)
    \/ LoginAnswers(w) \/ LoginReturns(w) \/ LoginRefused(w)
    \/ NotLoggedIn(w) \/ Queries(w) \/ UnknownInLobby(w)

-----------------------------------------------------------------------------
WorkerThread(w) == (WorkerStep(w) /\ ServerAlone) \/ Handler(w)

ClientThreads ==
    \/ Client!Initialize \/ Client!ReceiverIsJoined \/ Client!MainThread
    \/ Client!ReceiverChecks \/ Client!ReceiverIsTold

JointNext ==
    \/ (MainStep \/ StopStep \/ CtrlC \/ Crashes \/ AcceptStep) /\ ServerAlone
    \/ \E w \in Worker : WorkerThread(w)
    \/ RequestsArrive \/ StreamEnds
    \/ Connects \/ ConnectFails \/ ClientIsCut
    \/ (ClientThreads \/ Client!Keys) /\ ClientAlone

JointSpec == JointInit /\ [][JointNext]_all

\* Threads are scheduled, and what was sent arrives.  A main thread that has
\* come by its queue again and again has found the packet in it.
ThreadFairness ==
    /\ WF_all(MainStep /\ ServerAlone)
    /\ WF_all(StopStep /\ ServerAlone)
    /\ WF_all(AcceptStep /\ ServerAlone)
    /\ \A w \in Worker : WF_all(WorkerThread(w))
    /\ WF_all(RequestsArrive)
    /\ WF_all(Client!MainThread /\ ClientAlone)
    /\ SF_all((Client!RunHandles \/ Client!AwaitHandles \/ Client!MatchingHandles)
              /\ ClientAlone)

\* A player who is asked to log in does so sooner or later, comes back from
\* the sign-up screen, starts a game, and presses ESC when he waits in vain.
GoesOn ==
    /\ Client!TurnsTo("LOGIN") \/ Client!StartsGame \/ Client!PressesEsc
    /\ ClientAlone

PlayerFairness ==
    /\ SF_all(\E id \in Id : Client!LogsIn(id) /\ ClientAlone)
    /\ WF_all(GoesOn)

FairJointSpec == JointSpec /\ ThreadFairness /\ PlayerFairness

-----------------------------------------------------------------------------
(* Properties.                                                             *)

Request ==
    [type : {"SIGNUP"}, id : Id, nick : Nick] \cup [type : {"LOGIN"}, id : Id]
    \cup [type : {"QUERY_WAIT"}, token : Nat]

Message ==
    [type : {"SIGNUP_OK", "LOGIN_OK"}, token : Nat]
    \cup [type : {"SIGNUP_ERROR", "LOGIN_REFUSED", "AUTH_ERROR", "WAIT_REPLY",
                  "QUEUE_ERROR", "INVALID_TOKEN", "LOBBY_ERROR"}]

Packet ==
    Request \cup {NoPacket} \cup [type : {"LOGIN_ACCEPTED"}, account : Rules!Account]
    \cup [type : {"SIGNUP", "LOGIN", "QUERY_WAIT"}, spoilt : {TRUE}]

ClientTypeOK ==
    /\ life \in {"begin", "initialized", "gui", "closing", "left"}
    /\ receiver \in {"none", "check", "wait", "ended", "done"}
    /\ connected \in BOOLEAN /\ asked \in BOOLEAN /\ slow \in BOOLEAN
    /\ joined \in BOOLEAN
    /\ up \in Seq(Request) /\ down \in Seq(Message)
    /\ at \in {"loop", "screen", "await", "matching"}
    /\ scene \in {"LOGIN", "SIGNUP", "MAIN_MENU", "MATCHING", "EXIT"}
    /\ phase \in {"LOGIN", "LOBBY", "MATCHING", "ERROR_PHASE"}
    /\ username \in Id \cup {NoName}
    /\ token \in Nat

ServerTypeOK ==
    /\ packet \in Packet
    /\ issued \in Nat /\ waiting \in BOOLEAN
    /\ accounts \subseteq Rules!Account
    /\ unanswered \in [Session -> Rules!Account \cup {Rules!None}]
    /\ state \in [Session -> {"AUTHENTICATING", "IN_LOBBY"}]
    /\ account \in [Session -> Id \cup {NoName}]

\* The variables of both sides hold values of their types.
JointTypeOK == NetTypeOK /\ ClientTypeOK /\ ServerTypeOK

\* The token the client has when it has read all that is under way to it.
GivesToken(m) == m.type \in {"SIGNUP_OK", "LOGIN_OK"}

WillHave(t) ==
    \/ token = t /\ \A k \in DOMAIN down : ~GivesToken(down[k])
    \/ \E k \in DOMAIN down :
          /\ GivesToken(down[k]) /\ down[k].token = t
          /\ \A j \in k + 1 .. Len(down) : ~GivesToken(down[j])

\* However often a player signs up or logs in, and however late the answers
\* come, the client ends up with the token that the session will compare,
\* unless one receive swallowed a message.
TokenAgreement == (connected /\ Me \notin closed /\ ~joined) => WillHave(issued)

\* The client shows and later seeks its seat under the id it logged in with:
\* the one the server logged it in with, unless it gave up on an answer.
ScreenNamesAccount ==
    (state[Me] = "IN_LOBBY" /\ ~slow) => account[Me] = username

\* A client whose receive thread was in time, and whom the server has logged
\* in, gets to wait for a game, unless it quits, the connection or the server
\* ends, or two messages came in one receive.
LoggedInPlayerWaits ==
    (state[Me] = "IN_LOBBY" /\ receiver = "wait")
        ~> (waiting \/ Cut \/ stop # "none" \/ event \/ life # "gui" \/ joined)
=============================================================================
