-------------------------- MODULE LoginSystemProofs --------------------------
(***************************************************************************)
(* Proofs about LoginSystem, for any number of workers, ids, nicknames and *)
(* messages on the way: the composition implements ServerNetwork, so that  *)
(* what ServerNetworkProofs says holds of it, and the client's token       *)
(* follows the session's.                                                  *)
(***************************************************************************)
EXTENDS LoginSystem, ServerNetworkProofs

-----------------------------------------------------------------------------
(* Every step of the whole is a step of the network, or none.              *)

LEMMA HandlerIsHandlePacket ==
    ASSUME TypeInv, NEW w \in Worker, Handler(w)
    PROVE  HandlePacket(w) \/ HandlerSends(w) \/ UNCHANGED netVars
<1>1. CASE SignupStores(w)
  BY <1>1 DEF SignupStores
<1>2. CASE LoginAnswers(w)
  BY <1>2 DEF LoginAnswers
<1>3. CASE LoginReturns(w)
  BY <1>3 DEF LoginReturns, HandlePacket, PostSend
<1>4. CASE ~ (SignupStores(w) \/ LoginAnswers(w) \/ LoginReturns(w))
  BY <1>4 DEF Handler, SignupAnswers, SignupRefused, LoginRefused, NotLoggedIn,
     Queries, UnknownInLobby, Answers
<1> QED
  BY <1>1, <1>2, <1>3, <1>4

LEMMA JointStepIsNetStep ==
    ASSUME TypeInv, [JointNext]_all
    PROVE  [NetNext]_netVars
<1>1. ASSUME NEW w \in Worker, WorkerThread(w) PROVE [NetNext]_netVars
  BY <1>1, HandlerIsHandlePacket DEF WorkerThread, NetNext
<1>2. CASE RequestsArrive \/ StreamEnds \/ Connects
  <2>1. Me \in Session /\ "data" \in Result /\ "none" \in Result
    BY LoginAssumption DEF LoginAssumption, Result
  <2> QED
    BY <1>2, <2>1 DEF RequestsArrive, StreamEnds, Connects, NetNext
<1>3. CASE ConnectFails \/ ClientIsCut \/ ((ClientThreads \/ Client!Keys) /\ ClientAlone)
  BY <1>3 DEF ConnectFails, ClientIsCut, ClientAlone
<1>4. CASE (MainStep \/ StopStep \/ CtrlC \/ Crashes \/ AcceptStep) /\ ServerAlone
  BY <1>4 DEF NetNext
<1>5. CASE UNCHANGED all
  BY <1>5 DEF all
<1> QED
  BY <1>1, <1>2, <1>3, <1>4, <1>5 DEF JointNext

LEMMA TypeInvKept == JointSpec => []TypeInv
<1>1. JointInit => TypeInv
  BY TypeInvInit DEF JointInit
<1>2. TypeInv /\ [JointNext]_all => TypeInv'
  BY JointStepIsNetStep, TypeInvStep
<1> QED
  BY <1>1, <1>2, PTL DEF JointSpec

-----------------------------------------------------------------------------
(* Types.                                                                  *)

\* What is left of a stream when its first n entries are gone.
LEMMA RestOfStream ==
    ASSUME NEW S, NEW q \in Seq(S), NEW n \in 1 .. Len(q)
    PROVE  /\ SubSeq(q, n + 1, Len(q)) \in Seq(S)
           /\ Len(SubSeq(q, n + 1, Len(q))) = Len(q) - n
           /\ \A i \in 1 .. Len(q) - n : SubSeq(q, n + 1, Len(q))[i] = q[i + n]
<1>1. Len(q) \in Nat /\ n \in 1 .. Len(q) /\ q \in [1 .. Len(q) -> S]
  BY LenProperties
<1>2. \A i \in n + 1 .. Len(q) : q[i] \in S
  BY <1>1
<1>3. n + 1 \in Int /\ Len(q) \in Int
  BY <1>1
<1>4. /\ SubSeq(q, n + 1, Len(q)) \in Seq(S)
      /\ Len(SubSeq(q, n + 1, Len(q))) =
            IF n + 1 <= Len(q) THEN Len(q) - (n + 1) + 1 ELSE 0
      /\ \A i \in 1 .. Len(q) - (n + 1) + 1 :
            SubSeq(q, n + 1, Len(q))[i] = q[n + 1 + i - 1]
  BY <1>2, <1>3, SubSeqProperties
<1> QED
  BY <1>1, <1>4

\* The front of a stream.
LEMMA FrontOfStream ==
    ASSUME NEW S, NEW q \in Seq(S), NEW n \in 0 .. Len(q)
    PROVE  SubSeq(q, 1, n) \in Seq(S)
<1>1. \A i \in 1 .. n : q[i] \in S
  BY LenProperties
<1>2. n \in Int
  BY LenProperties
<1> QED
  BY <1>1, <1>2, SubSeqProperties

\* A request that leaves, or does not.
LEMMA SendTyped ==
    ASSUME ClientTypeOK, NEW p \in Request, Client!SendData(p)
    PROVE  up' \in Seq(Request) /\ down' = down
BY AppendProperties DEF Client!SendData, ClientTypeOK

\* The front message is handled.
LEMMA HandleFrontTyped ==
    ASSUME ClientTypeOK, Client!HandleFront
    PROVE  /\ up' \in Seq(Request) /\ down' \in Seq(Message)
           /\ phase' \in {"LOGIN", "LOBBY", "MATCHING", "ERROR_PHASE"}
           /\ username' \in Id \cup {NoName} /\ token' \in Nat
           /\ asked' \in BOOLEAN /\ slow' \in BOOLEAN /\ joined' \in BOOLEAN
<1>1. down \in Seq(Message) /\ down # <<>>
  BY DEF ClientTypeOK, Client!HandleFront, Client!HasPacket
<1>2. Head(down) \in Message
  BY <1>1, HeadTailProperties
<1>3. /\ phase' \in {"LOGIN", "LOBBY", "MATCHING", "ERROR_PHASE"}
      /\ token' \in Nat /\ asked' \in BOOLEAN
  BY <1>2 DEF Client!HandleFront, Client!ProcessPacket, Client!TakesToken,
     ClientTypeOK, Message
<1>4. down' \in Seq(Message) /\ joined' \in BOOLEAN
  BY <1>1, RestOfStream DEF Client!HandleFront, ClientTypeOK
<1> QED
  BY <1>3, <1>4 DEF Client!HandleFront, ClientTypeOK

\* An answer goes on its way, or is dropped.
LEMMA DeliverTyped ==
    ASSUME ClientTypeOK, NEW m \in Message, Deliver(m)
    PROVE  ClientTypeOK'
<1>1. down' \in Seq(Message)
  BY AppendProperties DEF Deliver, ClientTypeOK
<1> QED
  BY <1>1 DEF Deliver, ClientTypeOK

\* What the main thread of the client does by itself.
LEMMA MainThreadTyped ==
    ASSUME ClientTypeOK, Client!MainThread
    PROVE  ClientTypeOK'
<1> USE DEF Client!network, Client!stream, Client!screen, Client!game, Client!hindsight
<1>1. CASE Client!RunHandles \/ Client!MatchingHandles
  BY <1>1, HandleFrontTyped
     DEF Client!RunHandles, Client!MatchingHandles, ClientTypeOK
<1>2. CASE Client!AwaitHandles
  BY <1>2, HandleFrontTyped DEF Client!AwaitHandles, Client!Enters, ClientTypeOK
<1>3. CASE Client!RunEnters
  <2>1. up' \in Seq(Request) /\ down' = down
    <3>1. [type |-> "QUERY_WAIT", token |-> token] \in Request
      BY DEF Request, ClientTypeOK
    <3> QED
      BY <1>3, <3>1, SendTyped DEF Client!RunEnters, ClientTypeOK
  <2> QED
    BY <1>3, <2>1 DEF Client!RunEnters, ClientTypeOK
<1>4. CASE Client!AwaitSucceeds
  BY <1>4 DEF Client!AwaitSucceeds, Client!Enters, ClientTypeOK
<1>5. CASE Client!AwaitTimesOut
  BY <1>5 DEF Client!AwaitTimesOut, Client!Enters, ClientTypeOK
<1> QED
  BY <1>1, <1>2, <1>3, <1>4, <1>5 DEF Client!MainThread

\* What the player does.
LEMMA KeysTyped ==
    ASSUME ClientTypeOK, Client!Keys
    PROVE  ClientTypeOK'
<1> USE DEF Client!network, Client!stream, Client!screen, Client!game, Client!hindsight
<1>1. ASSUME NEW id \in Id, Client!LogsIn(id) PROVE ClientTypeOK'
  <2>1. up' \in Seq(Request) /\ down' = down
    BY <1>1, SendTyped DEF Client!LogsIn, Request
  <2> QED
    BY <1>1, <2>1 DEF Client!LogsIn, ClientTypeOK
<1>2. ASSUME NEW id \in Id, NEW nick \in Nick, Client!SignsUp(id, nick)
      PROVE  ClientTypeOK'
  <2>1. up' \in Seq(Request) /\ down' = down
    BY <1>2, SendTyped DEF Client!SignsUp, Request
  <2> QED
    BY <1>2, <2>1 DEF Client!SignsUp, ClientTypeOK
<1>3. ASSUME NEW sc \in {"LOGIN", "SIGNUP"}, Client!TurnsTo(sc) PROVE ClientTypeOK'
  BY <1>3 DEF Client!TurnsTo, Client!Enters, ClientTypeOK
<1>4. CASE Client!StartsGame \/ Client!PressesEsc
  BY <1>4 DEF Client!StartsGame, Client!PressesEsc, Client!Enters, ClientTypeOK
<1>5. CASE Client!Quits
  BY <1>5, EmptySeq DEF Client!Quits, Client!Enters, ClientTypeOK
<1> QED
  BY <1>1, <1>2, <1>3, <1>4, <1>5 DEF Client!Keys

\* The handlers of the server answer with messages.
LEMMA HandlerAnswersTyped ==
    ASSUME ClientTypeOK, ServerTypeOK, NEW w \in Worker, Handler(w)
    PROVE  ClientTypeOK'
<1>1. CASE SignupStores(w) \/ LoginReturns(w)
  BY <1>1 DEF SignupStores, LoginReturns, clientVars, ClientTypeOK
<1>2. CASE SignupAnswers(w) \/ LoginAnswers(w)
  <2>1. /\ [type |-> "SIGNUP_OK", token |-> issued + 1] \in Message
        /\ [type |-> "LOGIN_OK", token |-> issued + 1] \in Message
    BY DEF ServerTypeOK, Message
  <2> QED
    BY <1>2, <2>1, DeliverTyped DEF SignupAnswers, LoginAnswers, Answers
<1>3. CASE \/ SignupRefused(w) \/ LoginRefused(w) \/ NotLoggedIn(w) \/ Queries(w)
           \/ UnknownInLobby(w)
  <2>1. \A t \in {"SIGNUP_ERROR", "LOGIN_REFUSED", "AUTH_ERROR", "WAIT_REPLY",
                  "QUEUE_ERROR", "INVALID_TOKEN", "LOBBY_ERROR"} :
           [type |-> t] \in Message
    BY DEF Message
  <2> QED
    BY <1>3, <2>1, DeliverTyped DEF SignupRefused, LoginRefused, NotLoggedIn, Queries,
       UnknownInLobby, Answers
<1> QED
  BY <1>1, <1>2, <1>3 DEF Handler

LEMMA ClientTypeStep ==
    ASSUME ClientTypeOK, ServerTypeOK, [JointNext]_all
    PROVE  ClientTypeOK'
<1> USE DEF Client!network, Client!stream, Client!screen, Client!game, Client!hindsight
<1>1. ASSUME NEW w \in Worker, WorkerThread(w) PROVE ClientTypeOK'
  <2>1. CASE WorkerStep(w) /\ ServerAlone
    BY <2>1 DEF ServerAlone, clientVars, ClientTypeOK
  <2> QED
    BY <1>1, <2>1, HandlerAnswersTyped DEF WorkerThread
<1>2. CASE \/ (MainStep \/ StopStep \/ CtrlC \/ Crashes \/ AcceptStep) /\ ServerAlone
           \/ StreamEnds \/ UNCHANGED all
  BY <1>2 DEF ServerAlone, StreamEnds, all, clientVars, ClientTypeOK
<1>3. CASE RequestsArrive
  <2>1. PICK n \in 1 .. Len(up) :
           up' = SubSeq(up, n + 1, Len(up)) /\ joined' = (joined \/ n > 1)
    BY <1>3 DEF RequestsArrive
  <2>2. up' \in Seq(Request)
    BY <2>1, RestOfStream DEF ClientTypeOK
  <2> QED
    BY <1>3, <2>1, <2>2 DEF RequestsArrive, ClientTypeOK
<1>4. CASE Connects
  BY <1>4 DEF Connects, Client!Connect, ClientTypeOK
<1>5. CASE ConnectFails
  BY <1>5 DEF ConnectFails, Client!ConnectFails, ClientTypeOK
<1>6. CASE ClientIsCut
  <2>1. down' \in Seq(Message)
    BY <1>6, FrontOfStream DEF ClientIsCut, Client!ReceiveEnds, ClientTypeOK
  <2>2. receiver' = "ended" /\ connected' = FALSE
    BY <1>6 DEF ClientIsCut, Client!ReceiveEnds
  <2>3. UNCHANGED <<life, up, at, scene, phase, username, token, asked, slow, joined>>
    BY <1>6 DEF ClientIsCut, Client!ReceiveEnds
  <2>4. /\ receiver' \in {"none", "check", "wait", "ended", "done"}
        /\ connected' \in BOOLEAN
    BY <2>2
  <2>5. asked' \in BOOLEAN /\ slow' \in BOOLEAN /\ joined' \in BOOLEAN
    BY <2>3 DEF ClientTypeOK
  <2>6. /\ life' \in {"begin", "initialized", "gui", "closing", "left"}
        /\ up' \in Seq(Request)
        /\ at' \in {"loop", "screen", "await", "matching"}
        /\ scene' \in {"LOGIN", "SIGNUP", "MAIN_MENU", "MATCHING", "EXIT"}
        /\ phase' \in {"LOGIN", "LOBBY", "MATCHING", "ERROR_PHASE"}
        /\ username' \in Id \cup {NoName}
        /\ token' \in Nat
    BY <2>3 DEF ClientTypeOK
  <2> QED
    BY <2>1, <2>4, <2>5, <2>6 DEF ClientTypeOK
<1>7. CASE ClientThreads
  <2>1. CASE Client!Initialize \/ Client!ReceiverIsJoined
    BY <2>1 DEF Client!Initialize, Client!ReceiverIsJoined, ClientTypeOK
  <2>2. CASE Client!ReceiverChecks \/ Client!ReceiverIsTold
    BY <2>2 DEF Client!ReceiverChecks, Client!ReceiverIsTold, ClientTypeOK
  <2> QED
    BY <1>7, <2>1, <2>2, MainThreadTyped DEF ClientThreads
<1> QED
  BY <1>1, <1>2, <1>3, <1>4, <1>5, <1>6, <1>7, KeysTyped DEF JointNext

\* What a packet carries follows from its type.
LEMMA PacketFields ==
    ASSUME NEW p \in Packet
    PROVE  /\ p.type = "LOGIN_ACCEPTED" => p.account \in Rules!Account
           /\ p.type = "SIGNUP" /\ "spoilt" \notin DOMAIN p => p.id \in Id /\ p.nick \in Nick
<1>1. CASE p \in [type : {"SIGNUP"}, id : Id, nick : Nick]
  BY <1>1
<1>2. CASE p \in [type : {"LOGIN"}, id : Id]
  BY <1>2
<1>3. CASE p \in [type : {"QUERY_WAIT"}, token : Nat]
  BY <1>3
<1>4. CASE p = NoPacket
  BY <1>4 DEF NoPacket
<1>5. CASE p \in [type : {"LOGIN_ACCEPTED"}, account : Rules!Account]
  BY <1>5
<1>6. CASE p \in [type : {"SIGNUP", "LOGIN", "QUERY_WAIT"}, spoilt : {TRUE}]
  <2>1. "spoilt" \in DOMAIN p /\ p.type # "LOGIN_ACCEPTED"
    BY <1>6
  <2> QED
    BY <2>1
<1> QED
  BY <1>1, <1>2, <1>3, <1>4, <1>5, <1>6 DEF Packet, Request

\* Types of what the handlers keep.
LEMMA ServerTypeStep ==
    ASSUME ClientTypeOK, ServerTypeOK, [JointNext]_all
    PROVE  ServerTypeOK'
<1> USE DEF ruleVars, serverVars
<1>1. ASSUME NEW w \in Worker, Handler(w) PROVE ServerTypeOK'
  <2>1. CASE SignupStores(w)
    <3>1. [id |-> packet.id, nick |-> packet.nick] \in Rules!Account
      BY <2>1, PacketFields DEF SignupStores, Handles, Intact, ServerTypeOK, Rules!Account
    <3> QED
      BY <2>1, <3>1 DEF SignupStores, Rules!SignUp, Rules!fields, ServerTypeOK
  <2>2. CASE SignupAnswers(w)
    <3>1. packet' \in Packet /\ issued' \in Nat /\ waiting' \in BOOLEAN
      BY <2>2 DEF SignupAnswers, Answers, Done, IssueToken, ServerTypeOK, Packet
    <3>2. /\ unanswered' \in [Session -> Rules!Account \cup {Rules!None}]
          /\ UNCHANGED <<accounts, state, account>>
      BY <2>2 DEF SignupAnswers, Rules!AnswerSignUp, ServerTypeOK
    <3> QED
      BY <3>1, <3>2 DEF ServerTypeOK
  <2>3. CASE LoginAnswers(w)
    BY <2>3 DEF LoginAnswers, IssueToken, ServerTypeOK, Packet
  <2>4. CASE LoginReturns(w)
    <3>1. packet.account \in Rules!Account
      BY <2>4, PacketFields DEF LoginReturns, Handles, ServerTypeOK
    <3>2. packet.account.id \in Id
      BY <3>1 DEF Rules!Account
    <3> QED
      BY <2>4, <3>2 DEF LoginReturns, Done, Rules!LogIn, ServerTypeOK, Packet
  <2>5. CASE SignupRefused(w) \/ LoginRefused(w) \/ NotLoggedIn(w) \/ UnknownInLobby(w)
    BY <2>5 DEF SignupRefused, LoginRefused, NotLoggedIn, UnknownInLobby, Answers, Done,
       ServerTypeOK, Packet
  <2>6. CASE Queries(w)
    BY <2>6 DEF Queries, Answers, Done, ServerTypeOK, Packet
  <2> QED
    BY <1>1, <2>1, <2>2, <2>3, <2>4, <2>5, <2>6 DEF Handler
<1>2. CASE RequestsArrive
  <2>1. PICK n \in 1 .. Len(up) :
           packet' = IF n = 1 THEN Head(up) ELSE [type |-> Head(up).type, spoilt |-> TRUE]
    BY <1>2 DEF RequestsArrive
  <2>2. Head(up) \in Request
    BY <1>2, HeadTailProperties DEF RequestsArrive, ClientTypeOK
  <2>3. Head(up).type \in {"SIGNUP", "LOGIN", "QUERY_WAIT"}
    BY <2>2 DEF Request
  <2>4. packet' \in Packet
    BY <2>1, <2>2, <2>3 DEF Packet
  <2> QED
    BY <1>2, <2>4 DEF RequestsArrive, ServerTypeOK
<1>3. CASE UNCHANGED serverVars
  BY <1>3 DEF ServerTypeOK
<1> QED
  BY <1>1, <1>2, <1>3 DEF JointNext, WorkerThread, StreamEnds, Connects, ConnectFails,
     ClientIsCut, ServerAlone, ClientAlone, all

LEMMA JointTypeInductive == JointSpec => [](ClientTypeOK /\ ServerTypeOK)
<1>1. JointInit => ClientTypeOK /\ ServerTypeOK
  <2> SUFFICES ASSUME JointInit PROVE ClientTypeOK /\ ServerTypeOK
    OBVIOUS
  <2>1. up \in Seq(Request) /\ down \in Seq(Message)
    BY EmptySeq DEF JointInit, Client!LoginInit
  <2>2. ClientTypeOK
    BY <2>1 DEF JointInit, Client!LoginInit, Client!NoToken, ClientTypeOK
  <2>3. accounts \subseteq Rules!Account
    BY DEF JointInit, Rules!Init
  <2>4. ServerTypeOK
    BY <2>3 DEF JointInit, Rules!Init, ServerTypeOK, Packet
  <2> QED
    BY <2>2, <2>4
<1>2. ClientTypeOK /\ ServerTypeOK /\ [JointNext]_all => (ClientTypeOK /\ ServerTypeOK)'
  BY ClientTypeStep, ServerTypeStep
<1> QED
  BY <1>1, <1>2, PTL DEF JointSpec

-----------------------------------------------------------------------------
(* The token.                                                              *)

\* Before the client connects nothing was asked, and nothing answered.
BlankInv ==
    life \in {"begin", "initialized"} =>
        /\ ~connected
        /\ up = <<>> /\ down = <<>> /\ token = 0
        /\ issued = 0 /\ packet = NoPacket /\ unanswered[Me] = Rules!None

JointTypeInv == TypeInv /\ ClientTypeOK /\ ServerTypeOK

LEMMA BlankStep ==
    ASSUME JointTypeInv, BlankInv, [JointNext]_all
    PROVE  BlankInv'
<1> SUFFICES ASSUME life' \in {"begin", "initialized"} PROVE BlankInv'
  BY DEF BlankInv
<1> USE DEF Client!network, Client!stream, Client!screen, Client!game, Client!hindsight,
        ruleVars, serverVars, clientVars
<1>1. ASSUME NEW w \in Worker, WorkerThread(w) PROVE BlankInv'
  <2>1. life' = life
    BY <1>1 DEF WorkerThread, ServerAlone, Handler, SignupStores, SignupAnswers,
       SignupRefused, LoginAnswers, LoginReturns, LoginRefused, NotLoggedIn, Queries,
       UnknownInLobby, Answers, Deliver
  <2>2. ~Handler(w)
    BY <2>1 DEF BlankInv, NoPacket, Handler, SignupStores, SignupAnswers,
       SignupRefused, LoginAnswers, LoginReturns, LoginRefused, NotLoggedIn, Queries,
       UnknownInLobby, Handles, Rules!AnswerSignUp
  <2> QED
    BY <1>1, <2>1, <2>2 DEF WorkerThread, ServerAlone, BlankInv
<1>2. CASE \/ (MainStep \/ StopStep \/ CtrlC \/ Crashes \/ AcceptStep) /\ ServerAlone
           \/ StreamEnds \/ UNCHANGED all
  BY <1>2 DEF ServerAlone, StreamEnds, all, BlankInv
<1>3. ~RequestsArrive /\ ~Connects /\ ~ConnectFails
  BY DEF RequestsArrive, Connects, ConnectFails, Client!Connect, Client!ConnectFails,
     BlankInv
<1>4. CASE ClientIsCut
  <2>1. ~connected /\ down = <<>> /\ Len(down) = 0 /\ life' = life
    BY <1>4, EmptySeq DEF ClientIsCut, Client!ReceiveEnds, BlankInv
  <2>2. down' = <<>>
    BY <1>4, <2>1, SubSeqEmpty DEF ClientIsCut, Client!ReceiveEnds
  <2> QED
    BY <1>4, <2>1, <2>2 DEF ClientIsCut, Client!ReceiveEnds, ClientAlone, BlankInv
<1>5. CASE (ClientThreads \/ Client!Keys) /\ ClientAlone
  <2>1. CASE Client!Initialize \/ Client!ReceiverChecks \/ Client!ReceiverIsTold
    BY <1>5, <2>1 DEF ClientAlone, Client!Initialize, Client!ReceiverChecks,
       Client!ReceiverIsTold, BlankInv
  <2>2. ~Client!ReceiverIsJoined /\ ~Client!MainThread /\ ~Client!Keys
    BY DEF Client!ReceiverIsJoined, Client!MainThread, Client!Keys, Client!RunHandles,
       Client!RunEnters, Client!MatchingHandles, Client!AwaitHandles,
       Client!AwaitSucceeds, Client!AwaitTimesOut, Client!LogsIn, Client!SignsUp,
       Client!TurnsTo, Client!StartsGame, Client!Quits, Client!PressesEsc,
       Client!AtScreen, Client!InGui, Client!Enters
  <2> QED
    BY <1>5, <2>1, <2>2 DEF ClientThreads
<1> QED
  BY <1>1, <1>2, <1>3, <1>4, <1>5 DEF JointNext

\* No step opens a session again.
LEMMA ClosedStaysClosed ==
    ASSUME TypeInv, [NetNext]_netVars
    PROVE  closed \subseteq closed'
<1> USE DEF control, sessionVars, io, workers
<1>1. CASE MainStep \/ StopStep \/ CtrlC \/ Crashes
  BY <1>1 DEF MainStep, CreateListenSocket, CreateWorkerThreads, InitializeReturns,
     Start, StartAccept, MainWakes, MainStopped, DropSessions, JoinAccept, JoinWorkers,
     StopStep, Shutdown, DisconnectAll, CloseDoomed, StopReturns, CtrlC, Crashes,
     TypeInv, NetTypeOK
<1>2. CASE AcceptStep
  BY <1>2 DEF AcceptStep, AcceptChecks, AcceptFails, Accept, AssociateFails, AddSession,
     FirstReceive, Close
<1>3. CASE \E s \in Session :
              \/ ClientConnects(s) \/ SendFails(s)
              \/ \E result \in Result : ReceiveCompletes(s, result)
  BY <1>3 DEF ClientConnects, SendFails, ReceiveCompletes
<1>4. CASE \E w \in Worker : WorkerStep(w) \/ HandlerSends(w) \/ HandlePacket(w)
  BY <1>4 DEF WorkerStep, TooEarly, GetQueuedCompletionStatus, ProcessQuit,
     ConnectionEnds, Close, NextReceive, HandlerSends, HandlePacket, HandlerReturns
<1>5. CASE UNCHANGED netVars
  BY <1>5 DEF netVars
<1> QED
  BY <1>1, <1>2, <1>3, <1>4, <1>5 DEF NetNext

\* A message on its way that carries no token, and one that does.
LEMMA OtherMessageSent ==
    ASSUME ClientTypeOK, NEW t, WillHave(t), NEW m \in Message, ~GivesToken(m),
           down' = Append(down, m), token' = token
    PROVE  WillHave(t)'
<1>1. /\ DOMAIN down = 1 .. Len(down) /\ Len(down) \in Nat
      /\ DOMAIN down' = 1 .. Len(down) + 1 /\ Len(down') = Len(down) + 1
      /\ \A i \in 1 .. Len(down) : down'[i] = down[i]
      /\ down'[Len(down) + 1] = m
  BY AppendProperties, LenProperties DEF ClientTypeOK
<1>2. CASE token = t /\ \A k \in DOMAIN down : ~GivesToken(down[k])
  BY <1>1, <1>2 DEF WillHave
<1>3. ASSUME NEW k \in DOMAIN down, GivesToken(down[k]), down[k].token = t,
             \A j \in k + 1 .. Len(down) : ~GivesToken(down[j])
      PROVE  WillHave(t)'
  <2>1. k \in DOMAIN down' /\ down'[k] = down[k]
    BY <1>1
  <2>2. \A j \in k + 1 .. Len(down') : ~GivesToken(down'[j])
    BY <1>1, <1>3
  <2> QED
    BY <1>3, <2>1, <2>2 DEF WillHave
<1> QED
  BY <1>2, <1>3 DEF WillHave

LEMMA TokenSent ==
    ASSUME ClientTypeOK, NEW t, NEW m \in Message, GivesToken(m), m.token = t,
           down' = Append(down, m)
    PROVE  WillHave(t)'
<1>1. /\ Len(down) \in Nat
      /\ DOMAIN down' = 1 .. Len(down) + 1 /\ Len(down') = Len(down) + 1
      /\ down'[Len(down) + 1] = m
  BY AppendProperties, LenProperties DEF ClientTypeOK
<1>2. Len(down) + 1 \in DOMAIN down'
  BY <1>1
<1>3. \A j \in Len(down) + 1 + 1 .. Len(down') : ~GivesToken(down'[j])
  BY <1>1
<1> QED
  BY <1>1, <1>2, <1>3 DEF WillHave

\* The client reads the message at the front, and no other.
LEMMA FrontRead ==
    ASSUME ClientTypeOK, NEW t, WillHave(t), Client!HandleFront, ~joined'
    PROVE  WillHave(t)'
<1>1. PICK n \in 1 .. Len(down) :
         down' = SubSeq(down, n + 1, Len(down)) /\ joined' = (joined \/ n > 1)
  BY DEF Client!HandleFront
<1>2. n = 1 /\ Len(down) \in Nat \ {0} /\ DOMAIN down = 1 .. Len(down)
  <2>1. Len(down) \in Nat /\ DOMAIN down = 1 .. Len(down)
    BY LenProperties DEF ClientTypeOK
  <2>2. ~ (n > 1)
    BY <1>1
  <2> QED
    BY <2>1, <2>2
<1>3. /\ DOMAIN down' = 1 .. Len(down) - 1 /\ Len(down') = Len(down) - 1
      /\ \A i \in 1 .. Len(down) - 1 : down'[i] = down[i + 1]
  BY <1>1, <1>2, RestOfStream, LenProperties DEF ClientTypeOK
<1>4. Head(down) = down[1] /\ Head(down) \in Message
  BY <1>2, HeadTailProperties, EmptySeq DEF ClientTypeOK, Client!HandleFront, Client!HasPacket
<1>5. token' = IF GivesToken(down[1]) THEN down[1].token ELSE token
  BY <1>4 DEF Client!HandleFront, Client!ProcessPacket, Client!TakesToken, GivesToken
<1>6. CASE token = t /\ \A k \in DOMAIN down : ~GivesToken(down[k])
  BY <1>2, <1>3, <1>5, <1>6 DEF WillHave
<1>7. ASSUME NEW k \in DOMAIN down, GivesToken(down[k]), down[k].token = t,
             \A j \in k + 1 .. Len(down) : ~GivesToken(down[j])
      PROVE  WillHave(t)'
  <2>1. CASE k = 1
    <3>1. \A i \in DOMAIN down' : ~GivesToken(down'[i])
      BY <1>2, <1>3, <1>7, <2>1
    <3> QED
      BY <1>5, <1>7, <2>1, <3>1 DEF WillHave
  <2>2. CASE k # 1
    <3>1. k - 1 \in DOMAIN down' /\ down'[k - 1] = down[k]
      BY <1>2, <1>3, <2>2
    <3>2. \A j \in k - 1 + 1 .. Len(down') : ~GivesToken(down'[j])
      <4> SUFFICES ASSUME NEW j \in k - 1 + 1 .. Len(down') PROVE ~GivesToken(down'[j])
        OBVIOUS
      <4>1. j \in 1 .. Len(down) - 1 /\ j + 1 \in k + 1 .. Len(down)
        BY <1>2, <1>3, <2>2
      <4> QED
        BY <1>3, <1>7, <4>1
    <3> QED
      BY <1>7, <3>1, <3>2 DEF WillHave
  <2> QED
    BY <2>1, <2>2
<1> QED
  BY <1>6, <1>7 DEF WillHave

\* A handler issues a token only together with the message that gives it.
LEMMA HandlerKeepsToken ==
    ASSUME JointTypeInv, NEW w \in Worker, Handler(w), connected, Me \notin closed,
           WillHave(issued)
    PROVE  WillHave(issued)'
<1> USE DEF clientVars
<1>0. ClientTypeOK /\ ServerTypeOK
  BY DEF JointTypeInv
<1>1. CASE SignupStores(w) \/ LoginReturns(w)
  BY <1>1 DEF SignupStores, LoginReturns, WillHave
<1>2. CASE SignupAnswers(w) \/ LoginAnswers(w)
  <2>1. PICK t : t = issued + 1
    OBVIOUS
  <2>2. PICK m \in Message : GivesToken(m) /\ m.token = t /\ Deliver(m)
    <3>1. /\ [type |-> "SIGNUP_OK", token |-> t] \in Message
          /\ [type |-> "LOGIN_OK", token |-> t] \in Message
      BY <1>0, <2>1 DEF ServerTypeOK, Message
    <3> QED
      BY <1>2, <2>1, <3>1 DEF SignupAnswers, LoginAnswers, Answers, GivesToken
  <2>3. issued' = t /\ down' = Append(down, m)
    BY <1>2, <2>1, <2>2 DEF SignupAnswers, LoginAnswers, IssueToken, Deliver
  <2>4. WillHave(t)'
    BY <1>0, <2>2, <2>3, TokenSent
  <2> QED
    BY <2>3, <2>4 DEF WillHave
<1>3. CASE \/ SignupRefused(w) \/ LoginRefused(w) \/ NotLoggedIn(w) \/ Queries(w)
           \/ UnknownInLobby(w)
  <2>1. PICK t : t = issued
    OBVIOUS
  <2>2. PICK m \in Message : ~GivesToken(m) /\ Deliver(m)
    <3>1. \A x \in {"SIGNUP_ERROR", "LOGIN_REFUSED", "AUTH_ERROR", "WAIT_REPLY",
                    "QUEUE_ERROR", "INVALID_TOKEN", "LOBBY_ERROR"} :
             [type |-> x] \in Message /\ ~GivesToken([type |-> x])
      BY DEF Message, GivesToken
    <3> QED
      BY <1>3, <3>1 DEF SignupRefused, LoginRefused, NotLoggedIn, Queries,
         UnknownInLobby, Answers
  <2>3. issued' = t /\ down' = Append(down, m) /\ token' = token
    BY <1>3, <2>1, <2>2 DEF SignupRefused, LoginRefused, NotLoggedIn, Queries,
       UnknownInLobby, Deliver
  <2>4. WillHave(t)'
    BY <1>0, <2>1, <2>2, <2>3, OtherMessageSent
  <2> QED
    BY <2>3, <2>4 DEF WillHave
<1> QED
  BY <1>1, <1>2, <1>3 DEF Handler

\* A connection that is there now was there before, unless this is Connect;
\* and a receive that returned several messages is not forgotten.
LEMMA HandleFrontKeeps ==
    ASSUME Client!HandleFront, joined
    PROVE  joined'
<1>1. PICK n \in 1 .. Len(down) : joined' = (joined \/ n > 1)
  BY DEF Client!HandleFront
<1> QED
  BY <1>1

LEMMA ConnectionStep ==
    ASSUME [JointNext]_all
    PROVE  /\ connected' => connected \/ Connects
           /\ joined => joined'
<1> USE DEF Client!network, Client!stream, Client!screen, Client!game, Client!hindsight,
        clientVars
<1>1. ASSUME NEW w \in Worker, WorkerThread(w)
      PROVE  connected' = connected /\ joined' = joined
  BY <1>1 DEF WorkerThread, ServerAlone, Handler, SignupStores, SignupAnswers,
     SignupRefused, LoginAnswers, LoginReturns, LoginRefused, NotLoggedIn, Queries,
     UnknownInLobby, Answers, Deliver
<1>2. ASSUME Client!MainThread
      PROVE  connected' = connected /\ (joined => joined')
  <2>1. CASE Client!RunHandles \/ Client!MatchingHandles \/ Client!AwaitHandles
    BY <2>1, HandleFrontKeeps
       DEF Client!RunHandles, Client!MatchingHandles, Client!AwaitHandles
  <2>2. CASE Client!RunEnters
    BY <2>2 DEF Client!RunEnters
  <2>3. CASE Client!AwaitSucceeds
    BY <2>3 DEF Client!AwaitSucceeds
  <2>4. CASE Client!AwaitTimesOut
    BY <2>4 DEF Client!AwaitTimesOut
  <2> QED
    BY <1>2, <2>1, <2>2, <2>3, <2>4 DEF Client!MainThread
<1>3. ASSUME Client!Keys
      PROVE  (connected' => connected) /\ joined' = joined
  <2>1. CASE Client!Quits
    BY <2>1 DEF Client!Quits
  <2>2. ASSUME NEW id \in Id, Client!LogsIn(id)
        PROVE  connected' = connected /\ joined' = joined
    BY <2>2 DEF Client!LogsIn
  <2>3. ASSUME NEW id \in Id, NEW nick \in Nick, Client!SignsUp(id, nick)
        PROVE  connected' = connected /\ joined' = joined
    BY <2>3 DEF Client!SignsUp
  <2>4. ASSUME NEW sc \in {"LOGIN", "SIGNUP"}, Client!TurnsTo(sc)
        PROVE  connected' = connected /\ joined' = joined
    BY <2>4 DEF Client!TurnsTo
  <2>5. CASE Client!StartsGame
    BY <2>5 DEF Client!StartsGame
  <2>6. CASE Client!PressesEsc
    BY <2>6 DEF Client!PressesEsc
  <2> QED
    BY <1>3, <2>1, <2>2, <2>3, <2>4, <2>5, <2>6 DEF Client!Keys
<1>4. CASE (ClientThreads \/ Client!Keys) /\ ClientAlone
  BY <1>2, <1>3, <1>4 DEF ClientThreads, Client!Initialize, Client!ReceiverIsJoined,
     Client!ReceiverChecks, Client!ReceiverIsTold
<1>5. CASE RequestsArrive
  <2>1. PICK n \in 1 .. Len(up) : joined' = (joined \/ n > 1)
    BY <1>5 DEF RequestsArrive
  <2> QED
    BY <1>5, <2>1 DEF RequestsArrive
<1>6. CASE Connects
  BY <1>6 DEF Connects, Client!Connect
<1>7. CASE ConnectFails \/ ClientIsCut
  BY <1>7 DEF ConnectFails, Client!ConnectFails, ClientIsCut, Client!ReceiveEnds
<1>8. CASE \/ (MainStep \/ StopStep \/ CtrlC \/ Crashes \/ AcceptStep) /\ ServerAlone
           \/ StreamEnds \/ UNCHANGED all
  BY <1>8 DEF StreamEnds, ServerAlone, all
<1> QED
  BY <1>1, <1>4, <1>5, <1>6, <1>7, <1>8 DEF JointNext

\* The agreement survives each step.
LEMMA TokenStep ==
    ASSUME JointTypeInv, BlankInv, TokenAgreement, [JointNext]_all
    PROVE  TokenAgreement'
<1> SUFFICES ASSUME connected', Me \notin closed', ~joined' PROVE WillHave(issued)'
  BY DEF TokenAgreement
<1> USE DEF Client!network, Client!stream, Client!screen, Client!game, Client!hindsight,
        clientVars, serverVars
<1>0. ClientTypeOK /\ ServerTypeOK /\ TypeInv
  BY DEF JointTypeInv
<1>1. CASE Connects
  <2>1. /\ down = <<>> /\ down' = down /\ token' = token /\ issued' = issued
        /\ token = 0 /\ issued = 0
    BY <1>1 DEF Connects, Client!Connect, BlankInv
  <2>2. DOMAIN down' = {}
    BY <2>1
  <2> QED
    BY <2>1, <2>2 DEF WillHave
<1>2. CASE ~Connects
  <2>1. connected /\ Me \notin closed /\ ~joined
    BY <1>0, <1>2, ConnectionStep, ClosedStaysClosed, JointStepIsNetStep
  <2>2. WillHave(issued)
    BY <2>1 DEF TokenAgreement
  <2>3. ASSUME NEW w \in Worker, WorkerThread(w) PROVE WillHave(issued)'
    <3>1. CASE Handler(w)
      BY <2>1, <2>2, <3>1, HandlerKeepsToken
    <3>2. CASE ServerAlone
      BY <2>2, <3>2 DEF ServerAlone, WillHave
    <3> QED
      BY <2>3, <3>1, <3>2 DEF WorkerThread
  <2>4. CASE \/ (MainStep \/ StopStep \/ CtrlC \/ Crashes \/ AcceptStep) /\ ServerAlone
             \/ RequestsArrive \/ StreamEnds \/ ConnectFails \/ UNCHANGED all
    BY <2>2, <2>4 DEF ServerAlone, RequestsArrive, StreamEnds, ConnectFails,
       Client!ConnectFails, ClientAlone, all, WillHave
  <2>5. ~ClientIsCut
    BY DEF ClientIsCut, Client!ReceiveEnds
  <2>6. CASE (ClientThreads \/ Client!Keys) /\ ClientAlone
    <3>1. issued' = issued
      BY <2>6 DEF ClientAlone
    <3>2. CASE Client!HandleFront
      <4>1. PICK t : t = issued
        OBVIOUS
      <4>2. WillHave(t)'
        BY <1>0, <2>2, <3>2, <4>1, FrontRead
      <4> QED
        BY <3>1, <4>1, <4>2 DEF WillHave
    <3>3. CASE UNCHANGED <<down, token>>
      BY <2>2, <3>1, <3>3 DEF WillHave
    <3>4. Client!HandleFront \/ UNCHANGED <<down, token>>
      <4>1. ~Client!Quits
        BY DEF Client!Quits
      <4>2. CASE Client!MainThread
        BY <4>2 DEF Client!MainThread, Client!RunHandles, Client!RunEnters,
           Client!MatchingHandles, Client!AwaitHandles, Client!AwaitSucceeds,
           Client!AwaitTimesOut, Client!SendData
      <4>3. CASE Client!Keys
        BY <4>1, <4>3 DEF Client!Keys, Client!LogsIn, Client!SignsUp, Client!TurnsTo,
           Client!StartsGame, Client!PressesEsc, Client!SendData
      <4> QED
        BY <2>6, <4>2, <4>3 DEF ClientThreads, Client!Initialize,
           Client!ReceiverIsJoined, Client!ReceiverChecks, Client!ReceiverIsTold
    <3> QED
      BY <3>2, <3>3, <3>4
  <2> QED
    BY <1>2, <2>3, <2>4, <2>5, <2>6 DEF JointNext
<1> QED
  BY <1>1, <1>2

LEMMA TokenInductive == JointSpec => [](BlankInv /\ TokenAgreement)
<1>1. JointInit => BlankInv /\ TokenAgreement
  BY LoginAssumption DEF JointInit, Client!LoginInit, Client!NoToken, Rules!Init,
     LoginAssumption, BlankInv, TokenAgreement
<1>2. JointTypeInv /\ BlankInv /\ TokenAgreement /\ [JointNext]_all
         => (BlankInv /\ TokenAgreement)'
  BY BlankStep, TokenStep
<1>3. JointSpec => []JointTypeInv
  BY TypeInvKept, JointTypeInductive, PTL DEF JointTypeInv
<1> QED
  BY <1>1, <1>2, <1>3, PTL DEF JointSpec

-----------------------------------------------------------------------------
(* The name.                                                               *)

AtLogin == scene \in {"LOGIN", "SIGNUP"}

\* Where a request of the login or sign-up screen may be: nowhere; on its way
\* to the server; with a handler; a login that is answered before the session
\* is in the lobby, or after; a sign-up or a refusal that is answered.
NothingAsked ==
    /\ up = <<>> /\ packet = NoPacket /\ down = <<>>
    /\ unanswered[Me] = Rules!None /\ state[Me] = "AUTHENTICATING"

RequestSent ==
    /\ Len(up) = 1 /\ packet = NoPacket /\ down = <<>>
    /\ unanswered[Me] = Rules!None /\ state[Me] = "AUTHENTICATING"
    /\ up[1].type \in {"SIGNUP", "LOGIN"}

RequestHandled ==
    /\ up = <<>> /\ packet.type \in {"SIGNUP", "LOGIN"} /\ down = <<>>
    /\ packet.type = "LOGIN" => unanswered[Me] = Rules!None
    /\ state[Me] = "AUTHENTICATING"

LoggedIn ==
    /\ up = <<>>
    /\ \/ packet.type = "LOGIN_ACCEPTED" /\ state[Me] = "AUTHENTICATING"
       \/ packet = NoPacket /\ state[Me] = "IN_LOBBY"
    /\ down = <<>> \/ (Len(down) = 1 /\ down[1].type = "LOGIN_OK")
    /\ unanswered[Me] = Rules!None

Answered ==
    /\ up = <<>> /\ packet = NoPacket
    /\ Len(down) = 1 /\ down[1].type \in {"SIGNUP_OK", "SIGNUP_ERROR", "LOGIN_REFUSED"}
    /\ unanswered[Me] = Rules!None /\ state[Me] = "AUTHENTICATING"

Exchange ==
    \/ NothingAsked
    \/ asked /\ (RequestSent \/ RequestHandled \/ LoggedIn \/ Answered)

\* Before the client has given up on an answer, its login and sign-up screens
\* ask one thing at a time, and ask only when the last answer was read.
ExchangeInv ==
    /\ at = "await" => AtLogin
    /\ (~slow /\ AtLogin) => Exchange /\ (at # "await" => ~asked)

\* Every login under way is one under the name the client shows.
NameInv ==
    ~slow =>
        /\ \A k \in DOMAIN up : up[k].type = "LOGIN" => up[k].id = username
        /\ (packet.type = "LOGIN" /\ Intact) => packet.id = username
        /\ packet.type = "LOGIN_ACCEPTED" => packet.account.id = username
        /\ state[Me] = "IN_LOBBY" => account[Me] = username

\* What is on its way to a client that had nothing to read.
LEMMA FirstMessage ==
    ASSUME down = <<>>, NEW m, Deliver(m)
    PROVE  down' = <<>> \/ (Len(down') = 1 /\ down'[1] = m)
BY DEF Deliver

\* The receive thread passes on a part of what one message is.
LEMMA PartOfOne ==
    ASSUME ClientTypeOK, Len(down) <= 1, NEW n \in 0 .. Len(down)
    PROVE  \/ SubSeq(down, 1, n) = <<>>
           \/ Len(down) = 1 /\ SubSeq(down, 1, n) = down
<1>1. CASE n = 0
  BY <1>1, SubSeqEmpty
<1>2. CASE n # 0
  <2>0. Len(down) \in Nat
    BY LenProperties DEF ClientTypeOK
  <2>1. n = 1 /\ Len(down) = 1
    <3>1. \A l \in Nat : (l <= 1 /\ n \in 0 .. l) => (n = 1 /\ l = 1)
      BY <1>2
    <3> QED
      BY <2>0, <3>1
  <2>2. SubSeq(down, 1, Len(down)) = down
    BY SubSeqFull DEF ClientTypeOK
  <2> QED
    BY <2>1, <2>2
<1> QED
  BY <1>1, <1>2

\* There is never more than one message on its way to those two screens.
LEMMA OneMessage ==
    ASSUME Exchange
    PROVE  /\ down = <<>> \/ Len(down) = 1
           /\ down # <<>> => asked /\ (LoggedIn \/ Answered)
BY DEF Exchange, NothingAsked, RequestSent, RequestHandled, LoggedIn, Answered

\* A handler takes the request one step on.
LEMMA ExchangeHandler ==
    ASSUME ClientTypeOK, ServerTypeOK, Exchange, NEW w \in Worker, Handler(w)
    PROVE  Exchange' /\ UNCHANGED <<at, scene, asked, slow>>
<1> USE DEF clientVars, ruleVars
<1>1. /\ unanswered \in [Session -> Rules!Account \cup {Rules!None}]
      /\ state \in [Session -> {"AUTHENTICATING", "IN_LOBBY"}]
      /\ Me \in Session
  BY LoginAssumption DEF ServerTypeOK, LoginAssumption
<1>2. NoPacket.type = "NONE"
  BY DEF NoPacket
<1>3. CASE SignupStores(w)
  <2>1. packet.type = "SIGNUP" /\ RequestHandled /\ asked
    BY <1>2, <1>3 DEF SignupStores, Handles, Exchange, NothingAsked, RequestSent,
       LoggedIn, Answered
  <2> QED
    BY <1>3, <2>1 DEF SignupStores, Rules!SignUp, Rules!fields, Exchange, RequestHandled
<1>4. CASE SignupAnswers(w)
  <2>1. RequestHandled /\ asked
    BY <1>4 DEF SignupAnswers, Rules!AnswerSignUp, Exchange, NothingAsked, RequestSent,
       LoggedIn, Answered
  <2>2. /\ unanswered'[Me] = Rules!None /\ packet' = NoPacket
        /\ Deliver([type |-> "SIGNUP_OK", token |-> issued + 1])
        /\ UNCHANGED <<state, up, asked, at, scene, slow>>
    BY <1>1, <1>4 DEF SignupAnswers, Rules!AnswerSignUp, Answers, Done, Deliver
  <2>3. down' = <<>> \/ (Len(down') = 1 /\ down'[1].type = "SIGNUP_OK")
    BY <2>1, <2>2, FirstMessage DEF RequestHandled
  <2> QED
    BY <2>1, <2>2, <2>3 DEF Exchange, RequestHandled, NothingAsked, Answered
<1>5. CASE LoginAnswers(w)
  <2>1. RequestHandled /\ asked /\ unanswered[Me] = Rules!None
    BY <1>2, <1>5 DEF LoginAnswers, Handles, Exchange, NothingAsked, RequestSent,
       RequestHandled, LoggedIn, Answered
  <2>2. /\ packet'.type = "LOGIN_ACCEPTED"
        /\ Deliver([type |-> "LOGIN_OK", token |-> issued + 1])
        /\ UNCHANGED <<state, unanswered, up, asked, at, scene, slow>>
    BY <1>5 DEF LoginAnswers, Deliver
  <2>3. down' = <<>> \/ (Len(down') = 1 /\ down'[1].type = "LOGIN_OK")
    BY <2>1, <2>2, FirstMessage DEF RequestHandled
  <2> QED
    BY <2>1, <2>2, <2>3 DEF Exchange, RequestHandled, LoggedIn
<1>6. CASE LoginReturns(w)
  <2>1. LoggedIn /\ asked
    BY <1>2, <1>6 DEF LoginReturns, Handles, Exchange, NothingAsked, RequestSent,
       RequestHandled, Answered
  <2>2. /\ state'[Me] = "IN_LOBBY" /\ packet' = NoPacket
        /\ UNCHANGED <<unanswered, up, down, asked, at, scene, slow>>
    BY <1>1, <1>6 DEF LoginReturns, Rules!LogIn, Done
  <2> QED
    BY <2>1, <2>2 DEF Exchange, LoggedIn
<1>7. CASE SignupRefused(w) \/ LoginRefused(w)
  <2>1. RequestHandled /\ asked /\ unanswered[Me] = Rules!None
    BY <1>2, <1>7 DEF SignupRefused, LoginRefused, Handles, Exchange, NothingAsked,
       RequestSent, RequestHandled, LoggedIn, Answered
  <2>2. PICK m : m.type \in {"SIGNUP_ERROR", "LOGIN_REFUSED"} /\ Deliver(m)
    <3>1. /\ [type |-> "SIGNUP_ERROR"].type = "SIGNUP_ERROR"
          /\ [type |-> "LOGIN_REFUSED"].type = "LOGIN_REFUSED"
      OBVIOUS
    <3> QED
      BY <1>7, <3>1 DEF SignupRefused, LoginRefused, Answers
  <2>3. /\ packet' = NoPacket
        /\ UNCHANGED <<state, unanswered, up, asked, at, scene, slow>>
    BY <1>7 DEF SignupRefused, LoginRefused, Answers, Done, Deliver
  <2>4. down' = <<>> \/ (Len(down') = 1 /\ down'[1] = m)
    BY <2>1, <2>2, FirstMessage DEF RequestHandled
  <2> QED
    BY <2>1, <2>2, <2>3, <2>4 DEF Exchange, RequestHandled, NothingAsked, Answered
<1>8. ~NotLoggedIn(w) /\ ~Queries(w) /\ ~UnknownInLobby(w)
  BY <1>2 DEF NotLoggedIn, Queries, UnknownInLobby, Handles, Exchange, NothingAsked,
     RequestSent, RequestHandled, LoggedIn, Answered
<1> QED
  BY <1>3, <1>4, <1>5, <1>6, <1>7, <1>8 DEF Handler

\* A handler moves neither the client's screen nor its questions.
LEMMA HandlerLeavesScreen ==
    ASSUME NEW w \in Worker, Handler(w)
    PROVE  UNCHANGED <<up, at, scene, username, asked, slow>>
BY DEF clientVars, Handler, SignupStores, SignupAnswers, SignupRefused, LoginAnswers,
   LoginReturns, LoginRefused, NotLoggedIn, Queries, UnknownInLobby, Answers, Deliver

\* A step that touches nothing of it.
LEMMA ExchangeKept ==
    ASSUME ExchangeInv, UNCHANGED <<up, packet, down, unanswered, state, asked, slow>>,
           at' = "await" => at = "await",
           AtLogin' => AtLogin /\ (at = "await" => at' = "await"),
           at' = "await" => AtLogin'
    PROVE  ExchangeInv'
BY DEF ExchangeInv, Exchange, NothingAsked, RequestSent, RequestHandled, LoggedIn,
   Answered

\* What the main thread does by itself keeps the exchange.
LEMMA ExchangeMain ==
    ASSUME ClientTypeOK, ExchangeInv, Client!MainThread, UNCHANGED serverVars
    PROVE  ExchangeInv'
<1> USE DEF Client!network, Client!stream, Client!screen, Client!game, Client!hindsight,
        serverVars, ruleVars
<1>1. CASE Client!RunHandles \/ Client!MatchingHandles
  <2>1. at # "await" /\ down # <<>> /\ UNCHANGED <<at, scene, slow>>
    BY <1>1 DEF Client!RunHandles, Client!MatchingHandles, Client!HandleFront,
       Client!HasPacket
  <2>2. ~ (~slow /\ AtLogin)
    BY <2>1, OneMessage DEF ExchangeInv
  <2> QED
    BY <2>1, <2>2 DEF ExchangeInv, AtLogin
<1>2. CASE Client!AwaitHandles
  <2>1. /\ at = "await" /\ Client!HandleFront /\ slow' = slow /\ up' = up
        /\ IF Client!HasTokenOrPhase'
           THEN scene' = "MAIN_MENU" /\ at' = "loop" ELSE UNCHANGED <<at, scene>>
    BY <1>2 DEF Client!AwaitHandles, Client!Enters, Client!HandleFront
  <2>2. CASE Client!HasTokenOrPhase'
    BY <2>1, <2>2 DEF ExchangeInv, AtLogin
  <2>3. CASE ~Client!HasTokenOrPhase' /\ slow
    BY <2>1, <2>3 DEF ExchangeInv, AtLogin
  <2>4. CASE ~Client!HasTokenOrPhase' /\ ~slow
    <3>1. Exchange /\ down # <<>>
      BY <2>1, <2>4 DEF ExchangeInv, Client!HandleFront, Client!HasPacket
    <3>2. Len(down) = 1 /\ (LoggedIn \/ Answered)
      BY <3>1, OneMessage
    <3>3. Head(down) = down[1]
      BY <3>1, HeadTailProperties DEF ClientTypeOK
    <3>4. down[1].type \notin {"SIGNUP_OK", "LOGIN_OK"}
      BY <2>1, <2>4, <3>3 DEF Client!HandleFront, Client!ProcessPacket,
         Client!TakesToken, Client!HasTokenOrPhase
    <3>5. Answered
      BY <3>1, <3>2, <3>4 DEF LoggedIn
    <3>6. PICK n \in 1 .. 1 : down' = SubSeq(down, n + 1, 1)
      BY <2>1, <3>2 DEF Client!HandleFront
    <3>7. down' = <<>>
      BY <3>6, SubSeqEmpty
    <3>8. NothingAsked'
      BY <2>1, <3>5, <3>7 DEF NothingAsked, Answered
    <3> QED
      BY <2>1, <2>4, <3>8 DEF ExchangeInv, Exchange, AtLogin
  <2> QED
    BY <2>2, <2>3, <2>4
<1>3. CASE Client!RunEnters
  <2>1. CASE scene = "MATCHING"
    BY <1>3, <2>1 DEF Client!RunEnters, ExchangeInv, AtLogin
  <2>2. CASE scene # "MATCHING"
    <3>1. at = "loop" /\ at' = "screen"
      BY <1>3, <2>2 DEF Client!RunEnters
    <3>2. UNCHANGED <<up, packet, down, unanswered, state, asked, slow, scene>>
      BY <1>3, <2>2 DEF Client!RunEnters
    <3> QED
      BY <3>1, <3>2, ExchangeKept DEF AtLogin
  <2> QED
    BY <2>1, <2>2
<1>4. CASE Client!AwaitSucceeds
  BY <1>4 DEF Client!AwaitSucceeds, Client!Enters, ExchangeInv, AtLogin
<1>5. CASE Client!AwaitTimesOut
  <2>1. /\ at = "await" /\ scene' = "LOGIN" /\ at' = "loop"
        /\ slow' = (slow \/ asked) /\ asked' = asked
        /\ UNCHANGED <<up, packet, down, unanswered, state>>
    BY <1>5 DEF Client!AwaitTimesOut, Client!Enters
  <2>2. CASE slow \/ asked
    BY <2>1, <2>2 DEF ExchangeInv
  <2>3. CASE ~slow /\ ~asked
    <3>1. NothingAsked
      BY <2>1, <2>3 DEF ExchangeInv, Exchange
    <3> QED
      BY <2>1, <2>3, <3>1 DEF ExchangeInv, Exchange, NothingAsked
  <2> QED
    BY <2>2, <2>3
<1> QED
  BY <1>1, <1>2, <1>3, <1>4, <1>5 DEF Client!MainThread

\* A request of the two screens is sent, or cannot be.
LEMMA AskedNow ==
    ASSUME ExchangeInv, AtLogin, at # "await", UNCHANGED <<serverVars, slow, scene>>,
           NEW p, p.type \in {"SIGNUP", "LOGIN"}, Client!SendData(p),
           asked' = TRUE, at' = "await"
    PROVE  ExchangeInv'
<1>1. AtLogin'
  BY DEF AtLogin
<1>2. CASE slow
  BY <1>1, <1>2 DEF ExchangeInv
<1>3. CASE ~slow
  <2>1. NothingAsked
    BY <1>3 DEF ExchangeInv, Exchange
  <2>2. up' = <<>> \/ (Len(up') = 1 /\ up'[1] = p)
    BY <2>1 DEF Client!SendData, NothingAsked
  <2>3. UNCHANGED <<down, packet, unanswered, state>>
    BY DEF Client!SendData, serverVars, ruleVars
  <2>4. NothingAsked' \/ RequestSent'
    BY <2>1, <2>2, <2>3 DEF NothingAsked, RequestSent
  <2> QED
    BY <1>1, <2>4 DEF ExchangeInv, Exchange
<1> QED
  BY <1>2, <1>3

\* What the player does keeps it.
LEMMA ExchangeKeys ==
    ASSUME ExchangeInv, Client!Keys, UNCHANGED serverVars
    PROVE  ExchangeInv'
<1> USE DEF Client!network, Client!stream, Client!screen, Client!game, Client!hindsight
<1>1. ASSUME NEW id \in Id, Client!LogsIn(id) PROVE ExchangeInv'
  <2>1. [type |-> "LOGIN", id |-> id].type \in {"SIGNUP", "LOGIN"}
    OBVIOUS
  <2> QED
    BY <1>1, <2>1, AskedNow DEF Client!LogsIn, Client!AtScreen, AtLogin
<1>2. ASSUME NEW id \in Id, NEW nick \in Nick, Client!SignsUp(id, nick)
      PROVE  ExchangeInv'
  <2>1. [type |-> "SIGNUP", id |-> id, nick |-> nick].type \in {"SIGNUP", "LOGIN"}
    OBVIOUS
  <2> QED
    BY <1>2, <2>1, AskedNow DEF Client!SignsUp, Client!AtScreen, AtLogin
<1>3. ASSUME NEW sc \in {"LOGIN", "SIGNUP"}, Client!TurnsTo(sc) PROVE ExchangeInv'
  <2>1. /\ at = "screen" /\ at' = "loop" /\ AtLogin /\ AtLogin'
        /\ UNCHANGED <<up, down, asked, slow>>
    BY <1>3 DEF Client!TurnsTo, Client!AtScreen, Client!Enters, AtLogin
  <2> QED
    BY <2>1, ExchangeKept DEF serverVars, ruleVars
<1>4. CASE Client!StartsGame \/ Client!PressesEsc \/ Client!Quits
  BY <1>4 DEF Client!StartsGame, Client!PressesEsc, Client!Quits, Client!Enters,
     ExchangeInv, AtLogin
<1> QED
  BY <1>1, <1>2, <1>3, <1>4 DEF Client!Keys

\* Every step keeps the exchange.
LEMMA ExchangeStep ==
    ASSUME JointTypeInv, ExchangeInv, [JointNext]_all
    PROVE  ExchangeInv'
<1> USE DEF Client!network, Client!stream, Client!screen, Client!game, Client!hindsight
<1>0. ClientTypeOK /\ ServerTypeOK
  BY DEF JointTypeInv
<1>1. ASSUME NEW w \in Worker, Handler(w) PROVE ExchangeInv'
  <2>1. UNCHANGED <<at, scene, asked, slow>>
    BY <1>1, HandlerLeavesScreen
  <2>2. CASE ~slow /\ AtLogin
    BY <1>0, <1>1, <2>1, <2>2, ExchangeHandler DEF ExchangeInv, AtLogin
  <2>3. CASE ~ (~slow /\ AtLogin)
    BY <2>1, <2>3 DEF ExchangeInv, AtLogin
  <2> QED
    BY <2>2, <2>3
<1>2. CASE ServerAlone \/ StreamEnds \/ Connects \/ ConnectFails \/ UNCHANGED all
  <2>1. UNCHANGED <<up, packet, down, unanswered, state, asked, slow, at, scene>>
    BY <1>2 DEF ServerAlone, StreamEnds, Connects, Client!Connect, ConnectFails,
       Client!ConnectFails, ClientAlone, all, clientVars, serverVars, ruleVars
  <2> QED
    BY <2>1, ExchangeKept DEF AtLogin, ExchangeInv
<1>3. CASE RequestsArrive
  <2>1. PICK n \in 1 .. Len(up) :
           /\ packet' = IF n = 1 THEN Head(up)
                        ELSE [type |-> Head(up).type, spoilt |-> TRUE]
           /\ up' = SubSeq(up, n + 1, Len(up))
    BY <1>3 DEF RequestsArrive
  <2>2. up # <<>> /\ UNCHANGED <<down, at, scene, asked, slow, unanswered, state>>
    BY <1>3 DEF RequestsArrive, ruleVars
  <2>3. CASE ~ (~slow /\ AtLogin)
    BY <2>2, <2>3 DEF ExchangeInv, AtLogin
  <2>4. CASE ~slow /\ AtLogin
    <3>1. RequestSent /\ asked
      BY <2>2, <2>4 DEF ExchangeInv, Exchange, NothingAsked, RequestHandled, LoggedIn,
         Answered
    <3>2. n = 1 /\ Len(up) = 1
      BY <2>1, <3>1 DEF RequestSent
    <3>3. up' = <<>>
      BY <2>1, <3>2, SubSeqEmpty
    <3>4. packet' = up[1]
      BY <1>0, <2>1, <2>2, <3>2, HeadTailProperties DEF ClientTypeOK
    <3>5. RequestHandled'
      BY <2>2, <3>1, <3>3, <3>4 DEF RequestSent, RequestHandled
    <3> QED
      BY <2>2, <2>4, <3>1, <3>5 DEF ExchangeInv, Exchange, AtLogin
  <2> QED
    BY <2>3, <2>4
<1>4. CASE ClientIsCut
  <2>1. PICK n \in 0 .. Len(down) : down' = SubSeq(down, 1, n)
    BY <1>4 DEF ClientIsCut, Client!ReceiveEnds
  <2>2. UNCHANGED <<up, packet, at, scene, asked, slow, unanswered, state>>
    BY <1>4 DEF ClientIsCut, Client!ReceiveEnds, ClientAlone, serverVars, ruleVars
  <2>3. CASE ~ (~slow /\ AtLogin)
    BY <2>2, <2>3 DEF ExchangeInv, AtLogin
  <2>4. CASE ~slow /\ AtLogin
    <3>1. Exchange
      BY <2>4 DEF ExchangeInv
    <3>2. Len(down) <= 1
      <4>1. CASE down = <<>>
        BY <4>1
      <4>2. CASE Len(down) = 1
        BY <4>2
      <4> QED
        BY <3>1, <4>1, <4>2, OneMessage
    <3>3. down' = <<>> \/ down' = down
      BY <1>0, <2>1, <3>2, PartOfOne
    <3>4. Exchange'
      BY <2>2, <3>1, <3>3 DEF Exchange, NothingAsked, RequestSent, RequestHandled,
         LoggedIn, Answered
    <3> QED
      BY <2>2, <2>4, <3>4 DEF ExchangeInv, AtLogin
  <2> QED
    BY <2>3, <2>4
<1>5. CASE (ClientThreads \/ Client!Keys) /\ ClientAlone
  <2>1. UNCHANGED serverVars
    BY <1>5 DEF ClientAlone
  <2>2. CASE \/ Client!Initialize \/ Client!ReceiverIsJoined
             \/ Client!ReceiverChecks \/ Client!ReceiverIsTold
    <3>1. UNCHANGED <<up, down, asked, slow, at, scene>>
      BY <2>2 DEF Client!Initialize, Client!ReceiverIsJoined, Client!ReceiverChecks,
         Client!ReceiverIsTold
    <3> QED
      BY <2>1, <3>1, ExchangeKept DEF AtLogin, ExchangeInv, serverVars, ruleVars
  <2> QED
    BY <1>0, <1>5, <2>1, <2>2, ExchangeMain, ExchangeKeys DEF ClientThreads
<1> QED
  BY <1>1, <1>2, <1>3, <1>4, <1>5 DEF JointNext, WorkerThread

\* A handler takes a login on under its own name.
LEMMA NameHandler ==
    ASSUME JointTypeInv, NameInv, NEW w \in Worker, Handler(w)
    PROVE  NameInv'
<1> SUFFICES ASSUME ~slow' PROVE NameInv'
  BY DEF NameInv
<1>1. UNCHANGED <<up, username, slow>>
  BY HandlerLeavesScreen
<1>2. /\ \A k \in DOMAIN up' : up'[k].type = "LOGIN" => up'[k].id = username'
      /\ (packet.type = "LOGIN" /\ Intact) => packet.id = username'
      /\ packet.type = "LOGIN_ACCEPTED" => packet.account.id = username'
      /\ state[Me] = "IN_LOBBY" => account[Me] = username'
  BY <1>1 DEF NameInv
<1>3. NoPacket.type = "NONE"
  BY DEF NoPacket
<1>4. /\ state \in [Session -> {"AUTHENTICATING", "IN_LOBBY"}]
      /\ account \in [Session -> Id \cup {NoName}] /\ Me \in Session
  BY LoginAssumption DEF JointTypeInv, ServerTypeOK, LoginAssumption
<1>5. CASE SignupStores(w)
  BY <1>2, <1>5 DEF SignupStores, Rules!SignUp, Rules!fields, NameInv, Intact
<1>6. CASE LoginAnswers(w)
  <2>1. PICK a \in accounts :
           a.id = packet.id /\ packet' = [type |-> "LOGIN_ACCEPTED", account |-> a]
    BY <1>6 DEF LoginAnswers
  <2>2. a.id = username'
    BY <1>2, <1>6, <2>1 DEF LoginAnswers, Handles
  <2> QED
    BY <1>2, <1>6, <2>1, <2>2 DEF LoginAnswers, ruleVars, NameInv
<1>7. CASE LoginReturns(w)
  <2>1. packet.account.id = username'
    BY <1>2, <1>7 DEF LoginReturns, Handles
  <2>2. account'[Me] = username' /\ packet' = NoPacket
    BY <1>4, <1>7, <2>1 DEF LoginReturns, Rules!LogIn, Done
  <2> QED
    BY <1>2, <1>3, <2>2 DEF NameInv
<1>8. CASE SignupAnswers(w)
  BY <1>2, <1>3, <1>8 DEF SignupAnswers, Rules!AnswerSignUp, Answers, Done, NameInv
<1>9. CASE \/ SignupRefused(w) \/ LoginRefused(w) \/ NotLoggedIn(w) \/ Queries(w)
           \/ UnknownInLobby(w)
  BY <1>2, <1>3, <1>9 DEF SignupRefused, LoginRefused, NotLoggedIn, Queries,
     UnknownInLobby, Answers, Done, ruleVars, NameInv
<1> QED
  BY <1>5, <1>6, <1>7, <1>8, <1>9 DEF Handler

\* A step that touches nothing of it, or forgets what was on its way.
LEMMA NameKept ==
    ASSUME NameInv, UNCHANGED <<up, packet, username, state, account>>, slow => slow'
    PROVE  NameInv'
BY DEF NameInv, Intact

\* A request of another kind, or one under the name that is now shown.
LEMMA NameSent ==
    ASSUME ClientTypeOK, NameInv, UNCHANGED <<serverVars, username>>, slow => slow',
           NEW p \in Request, p.type # "LOGIN", Client!SendData(p)
    PROVE  NameInv'
<1>1. CASE up' = up
  BY <1>1, NameKept DEF serverVars, ruleVars
<1>2. CASE up' = Append(up, p)
  <2>1. /\ DOMAIN up' = 1 .. Len(up) + 1 /\ DOMAIN up = 1 .. Len(up)
        /\ Len(up) \in Nat /\ up'[Len(up) + 1] = p
        /\ \A i \in 1 .. Len(up) : up'[i] = up[i]
    BY <1>2, AppendProperties, LenProperties DEF ClientTypeOK
  <2>2. \A k \in DOMAIN up' : k \in DOMAIN up \/ k = Len(up) + 1
    BY <2>1
  <2> QED
    BY <2>1, <2>2 DEF NameInv, Intact, serverVars, ruleVars
<1> QED
  BY <1>1, <1>2 DEF Client!SendData

\* Every step keeps the name: the player types another one only when no login
\* is under way and the session is not in the lobby.
LEMMA NameStep ==
    ASSUME JointTypeInv, ExchangeInv, NameInv, [JointNext]_all
    PROVE  NameInv'
<1> USE DEF Client!network, Client!stream, Client!screen, Client!game, Client!hindsight
<1>0. ClientTypeOK /\ ServerTypeOK
  BY DEF JointTypeInv
<1>1. ASSUME NEW w \in Worker, Handler(w) PROVE NameInv'
  BY <1>1, NameHandler
<1>2. CASE ServerAlone \/ StreamEnds \/ Connects \/ ConnectFails \/ ClientIsCut
           \/ UNCHANGED all
  BY <1>2, NameKept DEF ServerAlone, StreamEnds, Connects, Client!Connect, ConnectFails,
     Client!ConnectFails, ClientIsCut, Client!ReceiveEnds, ClientAlone, all, clientVars,
     serverVars, ruleVars
<1>3. CASE RequestsArrive
  <2>1. PICK n \in 1 .. Len(up) :
           /\ packet' = IF n = 1 THEN Head(up)
                        ELSE [type |-> Head(up).type, spoilt |-> TRUE]
           /\ up' = SubSeq(up, n + 1, Len(up))
    BY <1>3 DEF RequestsArrive
  <2>2. up # <<>> /\ UNCHANGED <<username, slow, state, account>>
    BY <1>3 DEF RequestsArrive, ruleVars
  <2>3. Head(up) = up[1] /\ Head(up) \in Request /\ 1 \in DOMAIN up
    BY <1>0, <2>1, <2>2, HeadTailProperties, LenProperties DEF ClientTypeOK
  <2>4. /\ DOMAIN up' = 1 .. Len(up) - n
        /\ \A i \in 1 .. Len(up) - n : up'[i] = up[i + n] /\ i + n \in DOMAIN up
    <3>1. /\ up' \in Seq(Request) /\ Len(up') = Len(up) - n
          /\ \A i \in 1 .. Len(up) - n : up'[i] = up[i + n]
      BY <1>0, <2>1, RestOfStream DEF ClientTypeOK
    <3>2. Len(up) \in Nat /\ DOMAIN up = 1 .. Len(up) /\ DOMAIN up' = 1 .. Len(up')
      BY <1>0, <3>1, LenProperties DEF ClientTypeOK
    <3>3. \A i \in 1 .. Len(up) - n : i + n \in 1 .. Len(up)
      BY <3>2
    <3> QED
      BY <3>1, <3>2, <3>3
  <2>5. packet'.type # "LOGIN_ACCEPTED"
    <3>1. Head(up).type # "LOGIN_ACCEPTED"
      BY <2>3 DEF Request
    <3> QED
      BY <2>1, <3>1
  <2>6. (packet'.type = "LOGIN" /\ Intact') => packet' = up[1]
    BY <2>1, <2>3 DEF Intact
  <2> QED
    BY <2>2, <2>3, <2>4, <2>5, <2>6 DEF NameInv
<1>4. ASSUME NEW id \in Id, Client!LogsIn(id), ClientAlone PROVE NameInv'
  <2>1. CASE slow
    BY <1>4, <2>1 DEF Client!LogsIn, NameInv
  <2>2. CASE ~slow
    <3>1. NothingAsked
      BY <1>4, <2>2 DEF Client!LogsIn, Client!AtScreen, ExchangeInv, AtLogin, Exchange
    <3>2. /\ up' = <<>> \/ up' = <<[type |-> "LOGIN", id |-> id]>>
          /\ username' = id /\ UNCHANGED <<packet, state>>
      BY <1>4, <3>1 DEF Client!LogsIn, Client!SendData, NothingAsked, ClientAlone,
         serverVars, ruleVars
    <3>3. \A k \in DOMAIN up' : up'[k].id = id
      BY <3>2
    <3>4. packet.type = "NONE"
      BY <3>1 DEF NothingAsked, NoPacket
    <3> QED
      BY <3>1, <3>2, <3>3, <3>4 DEF NameInv, NothingAsked
  <2> QED
    BY <2>1, <2>2
<1>5. ASSUME NEW id \in Id, NEW nick \in Nick, Client!SignsUp(id, nick), ClientAlone
      PROVE  NameInv'
  <2>1. [type |-> "SIGNUP", id |-> id, nick |-> nick] \in Request
    BY DEF Request
  <2> QED
    BY <1>0, <1>5, <2>1, NameSent DEF Client!SignsUp, ClientAlone
<1>6. CASE Client!RunEnters /\ ClientAlone
  <2>1. [type |-> "QUERY_WAIT", token |-> token] \in Request
    BY <1>0 DEF Request, ClientTypeOK
  <2>2. CASE Client!SendData([type |-> "QUERY_WAIT", token |-> token])
    BY <1>0, <1>6, <2>1, <2>2, NameSent DEF Client!RunEnters, ClientAlone
  <2>3. CASE UNCHANGED up
    BY <1>6, <2>3, NameKept DEF Client!RunEnters, ClientAlone, serverVars, ruleVars
  <2> QED
    BY <1>6, <2>2, <2>3 DEF Client!RunEnters
<1>7. CASE (ClientThreads \/ Client!Keys) /\ ClientAlone
  <2>1. CASE \/ UNCHANGED <<up, username, slow>>
             \/ Client!AwaitTimesOut
    <3>1. UNCHANGED <<up, username>> /\ (slow => slow')
      BY <1>0, <2>1 DEF Client!AwaitTimesOut, ClientTypeOK
    <3>2. UNCHANGED <<packet, state, account>>
      BY <1>7 DEF ClientAlone, serverVars, ruleVars
    <3> QED
      BY <3>1, <3>2, NameKept
  <2>2. CASE Client!MainThread /\ ~Client!RunEnters
    BY <2>1, <2>2 DEF Client!MainThread, Client!RunHandles, Client!MatchingHandles,
       Client!AwaitHandles, Client!AwaitSucceeds, Client!HandleFront
  <2>3. ASSUME \/ \E sc \in {"LOGIN", "SIGNUP"} : Client!TurnsTo(sc)
               \/ Client!StartsGame \/ Client!Quits \/ Client!PressesEsc
        PROVE  NameInv'
    BY <2>1, <2>3 DEF Client!TurnsTo, Client!StartsGame, Client!Quits, Client!PressesEsc
  <2>4. CASE \/ Client!Initialize \/ Client!ReceiverIsJoined
             \/ Client!ReceiverChecks \/ Client!ReceiverIsTold
    BY <2>1, <2>4 DEF Client!Initialize, Client!ReceiverIsJoined, Client!ReceiverChecks,
       Client!ReceiverIsTold
  <2> QED
    BY <1>4, <1>5, <1>6, <1>7, <2>2, <2>3, <2>4 DEF ClientThreads, Client!Keys
<1> QED
  BY <1>1, <1>2, <1>3, <1>7 DEF JointNext, WorkerThread

LEMMA NameInductive == JointSpec => [](ExchangeInv /\ NameInv)
<1>1. JointInit => ExchangeInv /\ NameInv
  BY LoginAssumption DEF JointInit, Client!LoginInit, Rules!Init, LoginAssumption,
     NoPacket, ExchangeInv, AtLogin, Exchange, NothingAsked, NameInv
<1>2. JointTypeInv /\ ExchangeInv /\ NameInv /\ [JointNext]_all
         => (ExchangeInv /\ NameInv)'
  BY ExchangeStep, NameStep
<1>3. JointSpec => []JointTypeInv
  BY TypeInvKept, JointTypeInductive, PTL DEF JointTypeInv
<1> QED
  BY <1>1, <1>2, <1>3, PTL DEF JointSpec

-----------------------------------------------------------------------------
(* The results.                                                            *)

\* The whole keeps its types.
THEOREM JointTypeCorrect == JointSpec => []JointTypeOK
BY TypeInvKept, JointTypeInductive, PTL DEF TypeInv, JointTypeOK

\* The composition implements the network: with a client that logs in and
\* handlers that answer, the threads of the server do what ServerNetwork says.
THEOREM JointImplementsNetwork == JointSpec => NetSpec
<1>1. JointInit => NetInit
  BY DEF JointInit
<1>2. TypeInv /\ [JointNext]_all => [NetNext]_netVars
  BY JointStepIsNetStep
<1> QED
  BY <1>1, <1>2, TypeInvKept, PTL DEF JointSpec, NetSpec

\* So the receives of the client's session never overlap.
THEOREM JointReceivesNeverOverlap == JointSpec => []OneReceive
BY JointImplementsNetwork, ReceivesNeverOverlap, PTL

\* For every number of logins, sign-ups, late answers and workers, the client
\* ends up with the token the session compares.
THEOREM TokensAgree == JointSpec => []TokenAgreement
BY TokenInductive, PTL

\* Whoever logs in, signs up, goes back and is refused in whatever order and at
\* whatever speed: as long as the client has not given up on an answer, the
\* server logs it in under the id its screen shows.
THEOREM NamesAgree == JointSpec => []ScreenNamesAccount
<1>1. NameInv => ScreenNamesAccount
  BY DEF NameInv, ScreenNamesAccount
<1> QED
  BY <1>1, NameInductive, PTL

=============================================================================
