---------------------------- MODULE Matchmaking ----------------------------
(***************************************************************************)
(* How sessions become the players of a room: SessionManager with its      *)
(* session table and matching queue, the workers that run its handlers,    *)
(* and the detached threads that run IOCPServer::CreateGameRoom.           *)
(*                                                                         *)
(* sessionMutex_, gamesMutex_ and gameMutex_ are never held together, so   *)
(* an action is what one thread does under one of them, or one write to    *)
(* the fields of a Session, which no mutex guards.  A worker is busy with  *)
(* one packet per session, because the next receive is posted when the     *)
(* handler returns.  Words, turns and cards are left to GameRoom.  As      *)
(* there, a definition that only mutation runs use stands before the one   *)
(* it replaces.                                                            *)
(***************************************************************************)
EXTENDS Integers, Sequences, FiniteSets, Functions

CONSTANTS
    Session,       \* connections; a client that comes back is a new one
    Socket,        \* socket handles; the system reuses them after a close
    SocketOf,      \* the handle every connection gets
    NoSession,
    MAX_PLAYERS,
    MaxThreads,    \* bound: creation threads started in a run
    Second,        \* the time(nullptr) every thread reads: its room's id
    MaxAsks,       \* bound: QUERY_WAITs of one session
    Leavers,       \* the sessions whose client may go away
    Cancellers,    \* the sessions that may send MATCHING_CANCEL
    Short          \* the rooms whose game may end within a run

Thread == 1 .. MaxThreads

\* Thread t constructs room t; 0 is nullptr.
Room == Thread
NoRoom == 0

RoomId == {Second[t] : t \in Thread}

ASSUME MatchAssumption ==
    /\ SocketOf \in [Session -> Socket]
    /\ NoSession \notin Session
    /\ MAX_PLAYERS \in Nat \ {0}
    /\ MaxThreads \in Nat /\ MaxAsks \in Nat
    /\ Second \in [Thread -> Nat]
    /\ Leavers \subseteq Session /\ Cancellers \subseteq Session
    /\ Short \subseteq Room

VARIABLES
    sessions,      \* sessions_ of SessionManager, by socket
    queue,         \* matchingQueue_, sockets
    link,          \* "new", "open", or "closed" once isClosed_ is set
    waiting,       \* isInMatchingQueue_
    state,         \* currentState_
    gm,            \* gameManager_
    handler,       \* where the worker with the session's packet is
    asks,          \* QUERY_WAITs accepted so far; bounds the model only
    step,          \* where each creation thread is
    roster,        \* the players it was given
    at,            \* the player it is dealing with
    gmPtr,         \* the room it found under its id
    activeGames,   \* the room under every id
    slots,         \* the sessions added to a room, in order
    room,          \* the life of a room
    released       \* writes done by the last loop of its EndGame

table == <<sessions, queue, asks>>
fields == <<waiting, state, gm>>
threads == <<step, roster, at, gmPtr>>
rooms == <<activeGames, slots, room, released>>
vars == <<table, link, fields, handler, threads, rooms>>

Init ==
    /\ sessions = [x \in Socket |-> NoSession]
    /\ queue = <<>>
    /\ asks = [s \in Session |-> 0]
    /\ link = [s \in Session |-> "new"]
    /\ waiting = [s \in Session |-> "no"]
    /\ state = [s \in Session |-> "AUTHENTICATING"]
    /\ gm = [s \in Session |-> NoRoom]
    /\ handler = [s \in Session |-> "idle"]
    /\ step = [t \in Thread |-> "unused"]
    /\ roster = [t \in Thread |-> <<>>]
    /\ at = [t \in Thread |-> 1]
    /\ gmPtr = [t \in Thread |-> NoRoom]
    /\ activeGames = [id \in RoomId |-> NoRoom]
    /\ slots = [r \in Room |-> <<>>]
    /\ room = [r \in Room |-> "none"]
    /\ released = [r \in Room |-> 0]

-----------------------------------------------------------------------------
(* Connections.                                                            *)

\* The constructor of Session forgets isInMatchingQueue_: the flag of a new
\* session may read as true ("garbage") before anybody sets it.
Connect(s) ==
    /\ link[s] = "new" /\ sessions[SocketOf[s]] = NoSession
    /\ link' = [link EXCEPT ![s] = "open"]
    /\ \E flag \in {"no", "garbage"} :
          waiting' = [waiting EXCEPT ![s] = flag]
    /\ sessions' = [sessions EXCEPT ![SocketOf[s]] = s]
    /\ UNCHANGED <<queue, asks, state, gm, handler, threads, rooms>>

\* Session::Close by the worker that receives the end of the connection.
\* The queue keeps the socket, rooms keep their pointer.
Close(s) ==
    /\ s \in Leavers /\ link[s] = "open" /\ handler[s] = "idle"
    /\ link' = [link EXCEPT ![s] = "closed"]
    /\ sessions' = [sessions EXCEPT ![SocketOf[s]] = NoSession]
    /\ UNCHANGED <<queue, asks, fields, handler, threads, rooms>>

-----------------------------------------------------------------------------
(* Packets.  The worker reads currentState_, and then runs the handler.    *)

Returns(s) == handler' = [handler EXCEPT ![s] = "idle"]

Dispatch(s) ==
    /\ link[s] = "open" /\ handler[s] = "idle"
    /\ \/ /\ state[s] = "AUTHENTICATING"
          /\ handler' = [handler EXCEPT ![s] = "auth"]
       \/ /\ state[s] = "IN_LOBBY"
          /\ handler' = [handler EXCEPT ![s] = "lobby"]
    /\ UNCHANGED <<table, link, fields, threads, rooms>>

\* HandleAuthProtocol with the right password.
Login(s) ==
    /\ handler[s] = "auth"
    /\ state' = [state EXCEPT ![s] = "IN_LOBBY"]
    /\ Returns(s)
    /\ UNCHANGED <<table, link, waiting, gm, threads, rooms>>

\* Every other packet of the two handlers is answered and changes nothing.
PacketIgnored(s) ==
    /\ handler[s] \in {"auth", "lobby"}
    /\ Returns(s)
    /\ UNCHANGED <<table, link, fields, threads, rooms>>

\* QUERY_WAIT, first half.  A socket that is in the queue is pushed again.
AddToMatchingQueue(s) ==
    /\ handler[s] = "lobby" /\ asks[s] < MaxAsks
    /\ sessions[SocketOf[s]] # NoSession
    /\ queue' = Append(queue, SocketOf[s])
    /\ waiting' = [waiting EXCEPT ![s] = "asked"]
    /\ asks' = [asks EXCEPT ![s] = @ + 1]
    /\ handler' = [handler EXCEPT ![s] = "queued"]
    /\ UNCHANGED <<sessions, link, state, gm, threads, rooms>>

\* The queue is left alone.
RemoveFromMatchingQueue(s) ==
    /\ handler[s] = "lobby" /\ s \in Cancellers
    /\ waiting' = [waiting EXCEPT ![s] = "no"]
    /\ Returns(s)
    /\ UNCHANGED <<table, link, state, gm, threads, rooms>>

\* The position of the k-th element of K, a set of positions.
Nth(K, k) == CHOOSE i \in K : Cardinality({j \in K : j <= i}) = k

\* The elements of q that are in S, in order: SelectSeq without recursion.
Filter(q, S) ==
    LET K == {i \in DOMAIN q : q[i] \in S}
    IN  [k \in 1 .. Cardinality(K) |-> q[Nth(K, k)]]

\* The sockets GetWaitingPlayers keeps: a session is registered there, and
\* reads as waiting.
Valid ==
    {x \in Socket : sessions[x] # NoSession /\ waiting[sessions[x]] # "no"}

CleanQueueCutToRoom ==
    LET q == Filter(queue, Valid)
    IN  [k \in 1 .. (IF Len(q) < MAX_PLAYERS THEN Len(q) ELSE MAX_PLAYERS) |->
            q[k]]
CleanQueue == Filter(queue, Valid)

GetWaitingPlayers ==
    [k \in DOMAIN CleanQueue |-> sessions[CleanQueue[k]]]

\* The test of HandleLobbyPacket.
IsFullMatchOrMore(n) == n >= MAX_PLAYERS
IsFullMatchPlusOne(n) == n = MAX_PLAYERS + 1
IsFullMatch(n) == n = MAX_PLAYERS

\* QUERY_WAIT, second half: WAIT_REPLY to everybody who waits, or QUEUE_FULL
\* and a detached thread.  Nobody is taken out of the queue here.
CountWaitingPlayers(s) ==
    /\ handler[s] = "queued"
    /\ queue' = CleanQueue
    /\ IF IsFullMatch(Len(GetWaitingPlayers))
       THEN \E t \in Thread :
               /\ step[t] = "unused"
               /\ \A u \in Thread : u < t => step[u] # "unused"
               /\ step' = [step EXCEPT ![t] = "spawned"]
               /\ roster' = [roster EXCEPT ![t] = GetWaitingPlayers]
       ELSE UNCHANGED <<step, roster>>
    /\ Returns(s)
    /\ UNCHANGED <<sessions, asks, link, fields, at, gmPtr, rooms>>

-----------------------------------------------------------------------------
(* The rooms, as far as sessions notice them.                              *)

Goto(t, label) == step' = [step EXCEPT ![t] = label]

Alive(r) == room[r] \in {"filling", "started", "ending", "over"}

\* What ~GameManager of the rooms R does to the sessions in their seats, in
\* one step: the rollback below repeats these writes one by one.
DestroyedKeepingLinks(R) ==
    /\ slots' = [r \in Room |-> IF r \in R THEN <<>> ELSE slots[r]]
    /\ UNCHANGED <<state, gm>>
Destroyed(R) ==
    LET seatedIn == UNION {Range(slots[r]) : r \in R}
    IN  /\ state' = [s \in Session |->
                        IF s \in seatedIn THEN "IN_LOBBY" ELSE state[s]]
        /\ gm' = [s \in Session |->
                     IF s \in seatedIn THEN NoRoom ELSE gm[s]]
        /\ slots' = [r \in Room |-> IF r \in R THEN <<>> ELSE slots[r]]

\* A packet in a started room calls EndGame.
GameEnds(r) ==
    /\ r \in Short /\ room[r] = "started"
    /\ \E s \in Session :
          link[s] = "open" /\ state[s] = "IN_GAME" /\ gm[s] = r
    /\ room' = [room EXCEPT ![r] = "ending"]
    /\ released' = [released EXCEPT ![r] = 0]
    /\ UNCHANGED <<table, link, fields, handler, threads, activeGames, slots>>

\* The last loop of EndGame writes two fields of every player in turn.
Release(r) ==
    LET s == slots[r][released[r] \div 2 + 1]
    IN  /\ room[r] = "ending" /\ released[r] < 2 * MAX_PLAYERS
        /\ IF released[r] % 2 = 0
           THEN state' = [state EXCEPT ![s] = "IN_LOBBY"] /\ UNCHANGED gm
           ELSE gm' = [gm EXCEPT ![s] = NoRoom] /\ UNCHANGED state
        /\ released' = [released EXCEPT ![r] = @ + 1]
        /\ UNCHANGED <<table, link, waiting, handler, threads, activeGames,
                       slots, room>>

\* A finished room stays in activeGames_: nobody calls RemoveGameRoom.
EndGameReturns(r) ==
    /\ room[r] = "ending" /\ released[r] = 2 * MAX_PLAYERS
    /\ room' = [room EXCEPT ![r] = "over"]
    /\ UNCHANGED <<table, link, fields, handler, threads, activeGames, slots,
                   released>>

-----------------------------------------------------------------------------
(* CreateGameRoom.                                                         *)

\* activeGames_[roomId] = move(room): a room under the same id is destroyed.
InsertRoom(t) ==
    LET old == {activeGames[Second[t]]} \ {NoRoom}
    IN  /\ step[t] = "spawned"
        /\ activeGames' = [activeGames EXCEPT ![Second[t]] = t]
        /\ room' = [r \in Room |-> IF r = t THEN "filling"
                                   ELSE IF r \in old THEN "destroyed"
                                   ELSE room[r]]
        /\ Destroyed(old)
        /\ Goto(t, "inserted")
        /\ UNCHANGED <<table, link, waiting, handler, roster, at, gmPtr,
                       released>>

FindRoom(t) ==
    /\ step[t] = "inserted"
    /\ gmPtr' = [gmPtr EXCEPT ![t] = activeGames[Second[t]]]
    /\ Goto(t, IF activeGames[Second[t]] = NoRoom THEN "failed" ELSE "seating")
    /\ UNCHANGED <<table, link, fields, handler, roster, at, rooms>>

\* Undefined behaviour: the room this thread is filling has been destroyed
\* by another.  The model stops the thread and does not look further.
UsesDestroyedRoom(t) ==
    /\ step[t] \in {"seating", "linking"} /\ ~Alive(gmPtr[t])
    /\ Goto(t, "wild")
    /\ UNCHANGED <<table, link, fields, handler, roster, at, gmPtr, rooms>>

SkipClosedPlayer(t) ==
    /\ step[t] \in {"seating", "rollback"} /\ at[t] <= MAX_PLAYERS
    /\ link[roster[t][at[t]]] = "closed"
    /\ at' = [at EXCEPT ![t] = @ + 1]
    /\ UNCHANGED <<table, link, fields, handler, step, roster, gmPtr, rooms>>

\* AddPlayer, and SetGameManager whatever AddPlayer returned.
SeatPlayer(t) ==
    LET s == roster[t][at[t]]
        r == gmPtr[t]
    IN  /\ step[t] = "seating" /\ at[t] <= MAX_PLAYERS /\ Alive(r)
        /\ link[s] = "open"
        /\ slots' = IF Len(slots[r]) < MAX_PLAYERS
                    THEN [slots EXCEPT ![r] = Append(@, s)] ELSE slots
        /\ gm' = [gm EXCEPT ![s] = r]
        /\ Goto(t, "linking")
        /\ UNCHANGED <<table, link, waiting, state, handler, roster, at, gmPtr,
                       activeGames, room, released>>

\* SetState(IN_GAME) and SetInMatchingQueue(false).
LinkPlayer(t) ==
    LET s == roster[t][at[t]]
    IN  /\ step[t] = "linking" /\ Alive(gmPtr[t])
        /\ state' = [state EXCEPT ![s] = "IN_GAME"]
        /\ waiting' = [waiting EXCEPT ![s] = "no"]
        /\ at' = [at EXCEPT ![t] = @ + 1]
        /\ Goto(t, "seating")
        /\ UNCHANGED <<table, link, gm, handler, roster, gmPtr, rooms>>

CanStartWithAny(r) == slots[r] # <<>>
CanStart(r) == Len(slots[r]) = MAX_PLAYERS

StartGame(t) ==
    /\ step[t] = "seating" /\ at[t] > MAX_PLAYERS /\ Alive(gmPtr[t])
    /\ IF CanStart(gmPtr[t])
       THEN /\ room' = [room EXCEPT ![gmPtr[t]] = "started"]
            /\ Goto(t, "done")
       ELSE /\ UNCHANGED room
            /\ Goto(t, "failed")
    /\ UNCHANGED <<table, link, fields, handler, roster, at, gmPtr, activeGames,
                   slots, released>>

\* The two catch blocks erase what they find under the id, one after the
\* other; then the players are sent back.
EraseRoomForgotten(t) ==
    /\ step[t] \in {"failed", "erased"}
    /\ Goto(t, IF step[t] = "failed" THEN "erased" ELSE "rollback")
    /\ at' = [at EXCEPT ![t] = 1]
    /\ UNCHANGED <<table, link, fields, handler, roster, gmPtr, rooms>>
EraseRoom(t) ==
    LET old == {activeGames[Second[t]]} \ {NoRoom}
    IN  /\ step[t] \in {"failed", "erased"}
        /\ activeGames' = [activeGames EXCEPT ![Second[t]] = NoRoom]
        /\ room' = [r \in Room |-> IF r \in old THEN "destroyed" ELSE room[r]]
        /\ Destroyed(old)
        /\ Goto(t, IF step[t] = "failed" THEN "erased" ELSE "rollback")
        /\ at' = [at EXCEPT ![t] = 1]
        /\ UNCHANGED <<table, link, waiting, handler, roster, gmPtr, released>>

ReturnToLobby(t) ==
    LET s == roster[t][at[t]]
    IN  /\ step[t] = "rollback" /\ at[t] <= MAX_PLAYERS
        /\ link[s] = "open"
        /\ state' = [state EXCEPT ![s] = "IN_LOBBY"]
        /\ Goto(t, "unlinking")
        /\ UNCHANGED <<table, link, waiting, gm, handler, roster, at, gmPtr,
                       rooms>>

\* SetGameManager(nullptr), SetInMatchingQueue(false), GAME_CREATE_ERROR.
UnlinkPlayer(t) ==
    LET s == roster[t][at[t]]
    IN  /\ step[t] = "unlinking"
        /\ gm' = [gm EXCEPT ![s] = NoRoom]
        /\ waiting' = [waiting EXCEPT ![s] = "no"]
        /\ at' = [at EXCEPT ![t] = @ + 1]
        /\ Goto(t, "rollback")
        /\ UNCHANGED <<table, link, state, handler, roster, gmPtr, rooms>>

RollbackReturns(t) ==
    /\ step[t] = "rollback" /\ at[t] > MAX_PLAYERS
    /\ Goto(t, "done")
    /\ UNCHANGED <<table, link, fields, handler, roster, at, gmPtr, rooms>>

CreateGameRoom(t) ==
    \/ InsertRoom(t) \/ FindRoom(t) \/ UsesDestroyedRoom(t)
    \/ SkipClosedPlayer(t) \/ SeatPlayer(t) \/ LinkPlayer(t) \/ StartGame(t)
    \/ EraseRoom(t) \/ ReturnToLobby(t) \/ UnlinkPlayer(t) \/ RollbackReturns(t)

-----------------------------------------------------------------------------
Worker(s) ==
    \/ Login(s) \/ PacketIgnored(s)
    \/ AddToMatchingQueue(s) \/ RemoveFromMatchingQueue(s)
    \/ CountWaitingPlayers(s)

Next ==
    \/ \E s \in Session : Connect(s) \/ Close(s) \/ Dispatch(s) \/ Worker(s)
    \/ \E t \in Thread : CreateGameRoom(t)
    \/ \E r \in Room : GameEnds(r) \/ Release(r) \/ EndGameReturns(r)

Spec == Init /\ [][Next]_vars

\* Workers finish their handlers and creation threads run on.
ServerFairness ==
    /\ \A s \in Session : WF_vars(Worker(s))
    /\ \A t \in Thread : WF_vars(CreateGameRoom(t))

\* Clients that connect, log in and ask for a match, whatever else they send.
ClientFairness ==
    \A s \in Session :
        /\ WF_vars(Connect(s)) /\ WF_vars(Dispatch(s))
        /\ SF_vars(Login(s)) /\ SF_vars(AddToMatchingQueue(s))

FairSpec == Spec /\ ServerFairness /\ ClientFairness

-----------------------------------------------------------------------------
(* Invariants.                                                             *)

\* The variables hold values of the types the headers declare.
TypeOK ==
    /\ sessions \in [Socket -> Session \cup {NoSession}]
    /\ queue \in Seq(Socket)
    /\ asks \in [Session -> 0 .. MaxAsks]
    /\ link \in [Session -> {"new", "open", "closed"}]
    /\ waiting \in [Session -> {"no", "asked", "garbage"}]
    /\ state \in [Session -> {"AUTHENTICATING", "IN_LOBBY", "IN_GAME"}]
    /\ gm \in [Session -> Room \cup {NoRoom}]
    /\ handler \in [Session -> {"idle", "auth", "lobby", "queued"}]
    /\ step \in [Thread -> {"unused", "spawned", "inserted", "seating",
                            "linking", "failed", "erased", "rollback",
                            "unlinking", "wild", "done"}]
    /\ roster \in [Thread -> {<<>>} \cup [1 .. MAX_PLAYERS -> Session]]
    /\ at \in [Thread -> 1 .. MAX_PLAYERS + 1]
    /\ gmPtr \in [Thread -> Room \cup {NoRoom}]
    /\ activeGames \in [RoomId -> Room \cup {NoRoom}]
    /\ slots \in [Room -> Seq(Session)]
    /\ \A r \in Room : Len(slots[r]) <= MAX_PLAYERS
    /\ room \in [Room -> {"none", "filling", "started", "ending", "over",
                          "destroyed"}]
    /\ released \in [Room -> 0 .. 2 * MAX_PLAYERS]

\* No two rooms get the same id: at most one is created in a second.
OneRoomPerSecond == \A t, u \in Thread : Second[t] = Second[u] => t = u

\* Nobody who waits is lost: whoever asked, and was neither cancelled nor
\* dealt with by a creation thread, is still found by GetWaitingPlayers,
\* which rebuilds the queue every time anybody asks.
WaiterIsQueued ==
    \A s \in Session :
        (link[s] = "open" /\ waiting[s] = "asked") =>
            SocketOf[s] \in Range(queue)

\* With one room a second: gameManager_ never points to a room that has been
\* destroyed, nor to one that does not know the session, through all the
\* races of rollbacks, other rooms and finishing games.
LinkIsLive ==
    OneRoomPerSecond =>
        \A s \in Session :
            gm[s] # NoRoom => Alive(gm[s]) /\ s \in Range(slots[gm[s]])

\* With one room a second: when CreateGameRoom returns, its room either has
\* started or is gone from activeGames_ and from all its players.
FailedRoomIsGone ==
    OneRoomPerSecond =>
        \A t \in Thread :
            step[t] = "done" =>
                \/ room[t] \in {"started", "ending", "over"}
                \/ /\ room[t] = "destroyed" /\ activeGames[Second[t]] = NoRoom
                   /\ \A s \in Session : gm[s] # t

\* With one room a second: a room that has started seats exactly the players
\* counted for it, in the order of the queue; teams and roles follow from it.
StartedRoomSeatsRoster ==
    OneRoomPerSecond =>
        \A t \in Thread :
            room[t] \in {"started", "ending", "over"} => slots[t] = roster[t]

-----------------------------------------------------------------------------
(* What the documentation says and the code does not do.                   *)

\* No handler, creation thread or EndGame is under way.
AtRest ==
    /\ \A s \in Session : handler[s] = "idle"
    /\ \A t \in Thread : step[t] \in {"unused", "done"}
    /\ \A r \in Room : room[r] # "ending"

\* As soon as enough players have gathered, a game starts: the server does
\* not come to rest while enough players for a game wait.
GatheredPlayersPlay ==
    AtRest =>
        Cardinality({s \in Session : link[s] = "open" /\ waiting[s] = "asked"})
            < MAX_PLAYERS

\* GetWaitingPlayers filters what is no longer valid out of the queue: it
\* hands no player to a room twice.
RosterHasNoRepeats ==
    \A t \in Thread : IsInjective(roster[t])

\* A room is inserted into activeGames_; it does not end a running game.
RunningGameSurvives ==
    [][\A r \in Room : room[r] = "started" => room'[r] # "destroyed"]_vars

\* A session whose packets go to the game has a GameManager once the match
\* it waited for is complete.
InGameHasRoom ==
    AtRest =>
        \A s \in Session : state[s] = "IN_GAME" => gm[s] # NoRoom

-----------------------------------------------------------------------------
(* Liveness.                                                               *)

Plays(s) ==
    /\ state[s] = "IN_GAME" /\ gm[s] # NoRoom
    /\ room[gm[s]] = "started"

\* Two threads were started for one crowd, because the last two players
\* were counted after both had been queued.
Doubled == Cardinality({t \in Thread : step[t] # "unused"}) > 1

\* When exactly as many players as a game needs ask for one and stay, each
\* of them gets to play, unless the crowd was counted twice.
EverybodyPlays ==
    \A s \in Session :
        (waiting[s] = "asked") ~>
            (Plays(s) \/ Doubled \/ \E u \in Session : link[u] = "closed")

\* A detached creation thread comes to its end, and nobody is left behind
\* with a room that never starts.
CreationEnds ==
    \A t \in Thread :
        (step[t] = "spawned") ~>
            (step[t] \in {"done", "wild"} /\ room[t] # "filling")
=============================================================================
