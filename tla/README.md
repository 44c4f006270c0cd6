# Verification of the Codenames server and client

TLA+ models of the game server (`src/CodeNamesServer`) and of the console client (`src/CodeNamesClient`), TLC
configurations that check them on small instances, and proofs for every instance that TLAPS checks. Definitions keep
the names of the source where they have one; `PROJECT.json` maps each of them to the lines it stands for.

    tlc -workers 2 -config room_hostile.cfg MCGameRoom
    tlapm GameRoomProofs.tla

## 1. The system

The server is a Windows IOCP server: a main thread, a console handler, an accept thread and four worker threads. The
workers take completions from one port and run the handler of whatever packet arrived. A session (one TCP connection)
has at most one receive outstanding, so at most one worker runs for it, but the handlers of different sessions run at
the same time and share everything below.

| Part | State | Operations | Talks to |
|---|---|---|---|
| `GameManager` (one per room) | players, cards, turn, phase, tries, scores, `gameOver_`, under `gameMutex_` | `AddPlayer`, `StartGame`, `HandleGamePacket` (hint, answer, chat), `EndGame`, destructor | `PostSend` to sessions, `SaveGameResult`, fields of sessions |
| `IOCPServer` | `activeGames_` under `gamesMutex_` | `CreateGameRoom` on a detached thread, `Stop` | rooms, fields of sessions |
| `SessionManager` | `sessions_`, `matchingQueue_` under `sessionMutex_` | add and remove sessions, auth and lobby packets, matching | database, starts creation threads |
| `Session` | socket, `currentState_`, `gameManager_`, `isInMatchingQueue_`, nickname, token: no mutex | `ProcessRecv` dispatches by state, `Close` | all handlers |
| `NetworkManager` | `isRunning_`, completion port, listening socket, worker threads, accept thread | `Initialize`, `StartAccept`, `WorkerThreads`, `Shutdown`, destructor that joins | sessions, `IOCPServer` |
| `main.cpp` of the server | `g_shutdownEvent` | start, `ConsoleHandler` on Ctrl+C | `IOCPServer` |
| `DatabaseManager` | one SQLite connection under `dbMutex_`: `users`, `game_stats` | sign-up, login, results | called by workers |
| Client: `IOCPClient`, `PacketHandler`, `GameState` | socket, `connected_`, packet queue, token, name, what is known of the game | receive thread fills the queue, the main thread handles it | server |
| Client: `GUIManager`, `GameScreen`, other screens | scene, input mode, `gameRunning_`, input events | scene loop, keys from an input thread; login and sign-up wait five seconds for an answer | `GameState`, server |

What each part has to get right:

- **Room.** Scores and the outcome agree with the cards, whoever uncovers the last one; the game is never stuck while
  the players are there; a finished game is frozen although packets are still on their way to the mutex; every player
  is credited once, with the right verdict, before anybody is back in the lobby; what changes is told to the players.
- **Matching.** Nobody who waits is lost; six who wait get a room, once each; a failed creation leaves nothing behind;
  a session never points to a room that is gone.
- **Accounts.** A sign-up is whole or absent, whatever statement fails and whenever the process stops; names are
  unique; a result reaches the account that earned it although it is found by nickname.
- **Threads.** Two workers are never in handlers of one session, which no mutex guards; none of its receives is forgotten;
  a server that is told to stop does, whatever its clients are doing.
- **Login.** However late answers come and however often a player retries, client and session agree on the token, and
  the name the client shows is that of its account; a player who is logged in gets to wait for a game.
- **Client.** The screen shows what the room has, asks for input exactly when the room would accept it, reaches the
  table when the game starts and leaves it when the game ends.

What makes this hard: two workers in two handlers on the same sessions; `gameMutex_` released long before a decision
based on it is used (a worker decides that a packet is a game packet before it takes the mutex); session fields that
several threads write one after the other without a lock; threads that start before the flag their loops test; completions of
failed sends and aborted receives that close a session under its handler; answers that outlive the patience of the
screen that asked; queue entries that are socket handles, which the system
reuses; statements of a transaction that fail one by one; messages of two threads to one client in either order; TCP
that joins messages which nothing separates. The list with lines is "hazards" in `PROJECT.json`.

## 2. Modules

| Module | Models | Checked by |
|---|---|---|
| `CodenamesBoard` | teams, card types, the deals of `AssignCards` | all runs of the room |
| `CodenamesRules` | abstract: the rules, without sessions, packets, scores or locks | refined by `GameRoom`, part of `ClientInRoom` |
| `GameRoom` | one `GameManager`, the workers on their way into it, the thread that fills it | `room_hostile`, `room_rules` |
| `GameRoomProofs`, `GameRoomRulesProofs` | proofs | |
| `Matchmaking` | `SessionManager` with table and queue, session fields, `CreateGameRoom` and rollback | `match_*` |
| `MatchmakingProofs` | proofs | |
| `Accounts` | `DatabaseManager` and `HandleAuthProtocol` | `accounts` |
| `AccountRules` | abstract: accounts as a client sees them, a sign-up in one step | refined by `Accounts`, part of `LoginSystem` |
| `AccountsProofs` | proofs | |
| `ServerNetwork` | `main`, `ConsoleHandler`, `IOCPServer::Start` and `Stop`, `NetworkManager`, receives and sends of sessions | `login` |
| `ServerNetworkProofs` | proofs | |
| `LoginClient` | client `main`, `IOCPClient`, login, sign-up, menu and matching scenes, their part of `PacketHandler` | through `LoginSystem` |
| `LoginSystem` | composes `ServerNetwork`, `LoginClient` and `AccountRules` (the accounts, as `Accounts` implements them) with the handlers and the two streams | `login` |
| `LoginSystemProofs` | proofs | |
| `GameClient` | `PacketHandler`, `GameState`, scenes and input modes | through `ClientInRoom` |
| `ClientInRoom` | composes `CodenamesRules` (the room, as `GameRoom` implements it) with an instance of `GameClient` and the packets between them | `client_room`, `client_late` |
| `ClientInRoomProofs` | proofs | |
| `MC...` | values of the constants for TLC | |

The chain room - rules - client is deliberate: `GameRoom` is shown to implement `CodenamesRules` and `ChangesAreTold`
shows which messages go with each of its steps; `ClientInRoom` starts from those two facts, so the client is checked
against all behaviours of a room without carrying sessions and locks along. The chain accounts - `AccountRules` -
`LoginSystem` is the same idea: the statements, mutex and rollbacks of a sign-up are shown once to be one step, and the
login is checked against that step.

**Mutation operators.** A definition named after another with a twist (`MayActAfterTheEnd` before `MayAct`) is a fault
one could make in that code. No specification uses it; it exists to show that a property notices when it takes the
place of the definition that follows.

### How state and actions correspond to the code

*GameRoom.* `slot`, `cardType`, `used`, `currentTurn`, `currentPhase`, `redScore`, `blueScore`, `remainingTries`,
`hintCount`, `gameOver` are the members of `GameManager`. `attached` are the sessions whose state is `IN_GAME` with
this room as `gameManager_`; `open` those that are not closed. `ProcessHint`, `ProcessAnswer` and `ProcessChat` run
under `gameMutex_` and are one action each, everything they send included (`outbox`, in order). Three things are not
atomic in the code and not in the model: `Dispatch` (the state is read before the mutex is taken), `SeatPlayer` (one
player at a time, and packets get in before `StartGame`), and `EndGame` (`SaveResult` for every seat, then
`ReleasePlayer` for every seat, while `lockOwner` holds the mutex and others wait).

*Matchmaking.* An action is what one thread does under one mutex, or one write to a session field. `AddToMatchingQueue`
and `CountWaitingPlayers` are the two lock sections of a `QUERY_WAIT`; `InsertRoom` ... `RollbackReturns` are the steps of
`CreateGameRoom` with its two catch blocks; `Release` is the pair of writes of `EndGame`. The uninitialised
`isInMatchingQueue_` of a new session is a choice (`"garbage"`). `SocketOf` lets a new connection get an old handle.

*Accounts.* `db` is what the SQLite connection reads, `saved` what survives a restart, `owner` who holds `dbMutex_`.
`BeginTransaction`, `CheckDuplicate`, `InsertUser`, `InsertStats`, `Commit` are the statements of `SignupUser`; each may
fail, and `GiveUp` is the common early return with its `ROLLBACK`. `SignupOk`, outside the mutex, names the session and
answers. `CheckPassword` and `LoadUser` are the two lock sections of a login. `Restart` may come between any two
steps. One thing the model made visible: only `SQLITE_ROW` counts as a duplicate, so a duplicate check that *fails*
lets the sign-up pass (`DatabaseManager.cpp:251`); the history variable `blind` records it, and the properties that
depend on unique names are stated for runs in which it did not happen.

*AccountRules.* One step per promise: `SignUp` stores an account, `AnswerSignUp` tells the client, `Leave` and `Restart`
forget sessions and keep accounts. `Accounts` maps its committed tables and the sign-ups between commit and answer
(`Unanswered`) to it.

*ServerNetwork.* `main`, `stop`, `acceptor` and `worker` are program counters; an action is what a thread does up to the
next point where another may notice. `posted`, `port` and `work` say where the receive of a session is: with the
system, in the port, with a worker. Of sends only those that fail matter (`failing`): their completion makes a worker
call `Close` (`NetworkManager.cpp:282`) while another runs the session's handler. `TooEarly` is a worker that tests
`isRunning_` before `Initialize` sets it. `Stop` may run in the console handler or in the destructor, and `MainWakes`
does not wait for one that a second Ctrl+C left under way. `Crashes` is undefined behaviour as a choice: `sessionManager_` is
destroyed before `networkManager_` joins the threads that call it, so the process may end there. The detached creation
threads, which nobody joins, are those of `Matchmaking`.

*LoginClient.* `life` is `main`, `receiver` the thread of `IOCPClient`, `at` and `scene` the position of
`GUIManager::Run`. `up` and `down` are the streams with the queue of the main thread at their end. The screens'
fields and focus are one action with what the player confirms. `HasTokenOrPhase` is what the login scene takes for a
success, `TakesToken` is `HandleSignupOk` and `HandleLoginOk`.

*LoginSystem.* `packet` is what the handler under way was given; one receive may return several requests, which
`ProcessRecv` takes for one (`spoilt`). `LoginAnswers` and `LoginReturns` are apart because `LOGIN_OK` is sent before
`currentState_` is set. `issued` is `token_` of the session, counted: two calls of `GenerateToken`
are taken to give different tokens.

*GameClient.* `inbox` is the TCP stream and `g_packetQueue` in one; `view` are the fields of `GameState`; `mode`,
`running`, `scene` those of the screens. `ProcessPacket` handles the first message of a packet only, and a packet may
hold several, because nothing separates messages. `Reset` is never called, so `view` starts as a first game or as
`Leftover` of an earlier one. `Loop` is a turn of a scene's loop, `Key` what the player does.

## 3. Runs

| Run | Shows | Distinct states |
|---|---|---|
| `room_hostile` | Six players, two of them on one account, hint numbers no client sends, a dropping player, a refused result: score, outcome, results, release and messages are right | 381 thousand |
| `room_rules` | With the client's hint numbers and distinct nicknames: implements the rules, never stalls, `EndGame` completes, games end | 37 thousand |
| `match_hostile` | Three connections, one reused handle, repeats, cancels, a leaver, two creations, a game that ends: nobody who waits is lost, no dangling room, rooms started with their roster or gone | 3.2 million |
| `match_pair` | As many players as a game needs get to play; creation threads end | 8 thousand |
| `accounts` | Two connections that sign up, log in, rename, play and leave, with failing statements and restarts | 1.8 million |
| `client_room` | The client of an agent, a spymaster or a player it cannot name, in a first or later game | 1.6 million |
| `login` | A client that starts, signs up, logs in, gives up, retries, asks for a game and leaves, and a server of two workers that starts, serves and is stopped at any moment under clients that connect, send, fail and vanish | 225 thousand |
| `match_gather`, `match_repeat`, `match_second`, `match_orphan`, `client_late` | each finds one disagreement of the code with what its documentation says | stops at the counterexample |

**The disagreements** (details and quotations under "findings" in `PROJECT.json`):

1. `match_gather`: two requests queue before either counts, the count overshoots, and because it is compared with `==`
   no game starts although enough players wait.
2. `match_repeat`: a second `QUERY_WAIT` queues the socket again, and a room is created with one player in two seats.
   `OnlyRepeatedAsksRepeat` proves that repeats, or handles used again, are the only way to such a roster.
3. `match_second`: rooms are named after the second; two in one second share an id and the later destroys the earlier.
   `OnlySameSecondEndsGames` proves that with one room a second no running game is destroyed.
4. `match_orphan`: the two writes with which `EndGame` releases a player race the two with which a new room takes him;
   he ends in `IN_GAME` without a room.
5. `client_late`: a `WAIT_REPLY` or `QUEUE_FULL` that arrives behind `GAME_START` sends the client back to waiting.
   `OnlyLateNoticesMislead` proves that nothing else can.

**Deadlock** is not checked (`CHECK_DEADLOCK FALSE`) where the model really may stop: a room after its game, matching
after its bounded requests, a client that has quit, a server whose process has ended. `accounts` has no such end and checks it.

### Bounds, and why they are enough

- *Boards* of four cards with every type (1 red, 1 blue, 1 neutral, 1 assassin) and, for the turn order, 2 red and 1
  blue: every kind of card, the last card of either team uncovered by either team, guesses used up and guesses left.
  Two cards share a word, as `words.txt` may. The proofs cover all boards.
- *Players*: six (two agents a team who race) where races between agents matter, four otherwise. One may drop, for one
  the database refuses. Hint numbers `{-1, 2}` hostile, `{1, 2}` from the client.
- *Matching*: rooms of two (`MAX_PLAYERS = 2` instead of 6), three connections, two creation threads (`MaxThreads`),
  two requests each (`MaxAsks`): the smallest numbers with a crowd, one too many, and a second room. `Leavers`,
  `Cancellers` and `Short` name who may leave or cancel and which game may end.
- *Accounts*: two connections, ids and nicknames, two results (`MaxResults`); restarts and failures are unbounded. Ids,
  nicknames and connections are interchangeable (`SYMMETRY`, sound because only invariants and a step-by-step refinement that treats
  all names alike are checked, and no liveness). The proofs cover any number.
- *Client*: three cards, at most five messages on their way (`MaxInFlight`; one step of the room sends at most five),
  two messages joined by one receive, at most once in a run (`MaxTogether`), one packet on its way to the server
  (`MaxTyped`), one matching message (`MaxNotices`), one return to the menu. To keep the product small, joining is
  looked at for the player the client cannot name (`Jammed`) and late matching messages for the spymaster (`Noticed`).
- *Login*: one connection, two workers (the smallest number with a second one to close the session, and with one to
  lose and one to serve), two ids and a nickname, at most one account stored before (`Known`), two requests or messages
  on their way when one is sent (`MaxInFlight`; more may arrive in answer), one failing send under way (`MaxSends`), one
  answer the client gives up on (`slow`). `MCLoginSystem` has two sides, fixed by the initial state: on the side `"any"`
  clients do to the server whatever clients may do (any receive, any end of a connection, any failing send) and it
  is stopped; on the side `"one"` the client of `LoginClient` is watched at a server that goes on, until it leaves or one
  receive returns several messages. The proofs need none of this: they are about `JointSpec`, where both happen together,
  for any number of workers, ids and messages.

### Fairness

- `ServerFairness` (room, matching): weak fairness of the thread that fills a room, of a worker inside `EndGame`, of
  handlers and creation threads. They are threads that are never blocked for ever: the mutexes they wait for are held
  for bounded sections, and the scheduler runs them.
- `PlayerFairness` (only for `GameFinishes`): players keep sending packets, and a hint or an answer that would count
  does not stay away for ever. That is an assumption about people, not about code; the property says what the server
  makes of it. Strong fairness, because a chat packet of the player may be in the way for a while.
- `ClientFairness` of `Matchmaking` (only for `EverybodyPlays`): clients connect, log in and ask for a match.
- `ThreadFairness` of `LoginSystem`: weak fairness of `main`, `Stop`, the accept thread, every worker, the streams, and the main
  thread of the client: none of them waits for a lock another holds for ever, and TCP delivers or fails. Strong fairness
  for handling a packet at the client: a scene loop comes by the queue again and again and always finds what is in it, but
  the model lets it look before the packet has arrived. No fairness for Ctrl+C, for the end of the receive thread or
  for a player who leaves: that these do *not* happen is on the right of `LoggedInPlayerWaits`.
- `PlayerFairness` of `LoginSystem` (only for `LoggedInPlayerWaits`): a player who can log in again and again does, comes
  back from the sign-up screen, starts a game, and presses ESC when he waits in vain: assumptions about people.
- `ClientFairness` of `ClientInRoom`: the main thread's loop runs on, and a player whose game is over presses the key
  that the screen waits for.

## 4. Proofs

All theorems hold for every value of the constants that satisfies the named assumptions.

**GameRoomProofs** (assumes `RoomAssumption` and `CardAssumption`/`CountAssumption` of the board: the card counts add
up, the roster fills the seats, `NoWord` is no word).

- `TypeCorrect`: `TypeOK` is inductive as it stands.
- `ScoresCorrect`, `OutcomeCorrect`: neither is inductive, because `StartGame` needs to find an undealt board and a
  zero score. `BoardInv` adds that nothing is dealt or over while the room is seating. The heart is `UncoverDecides`: a
  card that raises a counter completes a colour exactly when the counter reaches the colour's number, by
  `CountOneMore` and `CountAll` on cardinalities.
- `FinishedGameFrozen`: from `BoardInv`, `MayAct` and the handlers' checks leave no enabled change after `gameOver`.
- `ResultsCorrect`, `LobbyCorrect`, `WrittenOnce`: `EndGameInv` ties what is recorded and who is released to the position
  of the two loops (`endStep`) and says that a held mutex means a game that is over.
- `ChangesTold`: the action property `ChangesAreTold` from what each handler appends to `outbox`, in the order in which
  it sends; `BoardInv` rules out the changes a finished game would make.

**GameRoomRulesProofs** (additionally `PositiveHints`: hint numbers above zero, which the client ensures and the server
does not check).

- `RefinesRules`: `Spec => RulesSpec`. Every step of the room maps to a step of the rules or a stutter, given `BoardInv`
  and `TurnInv` (a guessing phase has guesses left, a hint phase none).
- `NeverStalls`: with players of different nicknames, some player of a running game can always move it on. `NickInv`
  says that the lookup by nickname finds the sender's own seat.
- `AgentsOnTurn`: under `DistinctPlayers` only an agent of the team on turn uncovers a card. The packet may have waited for
  the mutex since before the turn changed; `SenderSits` says that whoever it is from still has his seat, `NickInv` that the
  seat the room finds is that one. Without `DistinctPlayers` it is false: with one account in both teams the room
  takes the answer of the second player for one of the first, in turn or not.

**MatchmakingProofs** (assumes `MatchAssumption`: any number of connections, handles, creation threads, seats and
requests; two connections may have the same handle).

- The queue is filtered (`CleanQueue`), and what a filter returns is defined by recursion. The proofs need no induction over it:
  `NthFacts` and `FilterFacts` give each element that is kept its rank among the kept positions, and count.
- `QueueInv` is inductive: types; whoever waits is queued; an open session stands in the table under its handle
  (`TableInv`, which `WaiterIsQueued` needs because cleaning asks the table); a thread that was started has its players, and
  `at` is the place of one (`ThreadInv`); a started room is full (`FullInv`). It gives `MatchTypeCorrect` and
  `WaitersAreQueued`.
- `SeatInv`, under `OneRoomPerSecond`: `RoomInv` says, for each position of a creation thread, what `activeGames_`, the seats and
  the links of its room look like, rollback included; `LinkInv` that the room a session points to is alive and seats it. It
  gives `LinksAreLive`, `FailedRoomsAreGone` and `StartedRoomsSeatRosters`.
- `OnlySameSecondEndsGames` and `OnlyRepeatedAsksRepeat` take up two claims that runs refute and prove them from what
  the code lacks: names that do not repeat within a second, and players who ask once under handles of their own
  (`OnceInv`: then no handle is in the queue twice).

**AccountsProofs** (assumes `AccountsAssumption`: `Absent` is none of the values).

- `TypeInv` (types, and what a worker knows of its packet) gives `AccountsTypeCorrect`, with the mutex held exactly inside
  a sign-up.
- `StorageInv` adds `TransactionInv`, what the open transaction has done at each statement, and `SignedInv`, that a sign-up
  about to be acknowledged is committed. It gives `TransactionsEnd`, `AccountsStayDistinct`, `SignupsAtomic` and
  `SignupsDurable`.
- `PlayerInv`, with `BusyInv` (authentication handlers run only for sessions that are not logged in), gives
  `PlayersNamed` and `ResultsCredited`: the nickname finds the account because it is unique and the session's own.
- `RefinesAccountRules`: `Spec => AccountRulesSpec`. `FreshInv` says that a sign-up that is about to be committed still
  differs from every stored account unless a check was blind; `UnansweredKept` and `GiveUpUnseen` that nothing but commit and answer
  shows to a client.

**ServerNetworkProofs** (assumes `NetworkAssumption`: at least the values are distinct; any number of workers,
connections and failing sends).

- `NetworkTypeCorrect`: `WorkInv` adds to the types that only a worker inside the loop has work, and that a handler has a receive.
- `ReceivesNeverOverlap`: `OneReceive` is not inductive; `ReceiveInv` adds that a connection that is not yet served has no
  receive at all, so that the first one is the first. The steps move the one receive from the system to the port, to a worker
  and back.

**LoginSystemProofs** (assumes `LoginAssumption` in addition: one connection).

- `JointImplementsNetwork`: `JointSpec => NetSpec`, each handler being a `HandlePacket`, a `HandlerSends` or a stutter of the
  network. `JointReceivesNeverOverlap` follows.
- `JointTypeCorrect`: with `PacketFields`, what a packet carries follows from its type.
- `TokensAgree`: `TokenAgreement` looks at everything on its way to the client (`WillHave`): a token is issued only
  together with the message that gives it (`HandlerKeepsToken`), and messages are read in order (`FrontRead`). `BlankInv`
  says that nothing was issued before the client connected.
- `NamesAgree`: until the client has given up on an answer, its login and sign-up screens ask one thing at a time.
  `ExchangeInv` says where that one request, or its answer, is (`Exchange`: nowhere, on its way, with a handler, answered), so
  no second login can be under way; `NameInv` that the login under way is for the name the client shows, from the request
  to the session's account.

**ClientInRoomProofs** (assumes `ClientAssumption`: any cards, words, numbers of messages on their way and clue numbers
above zero, as `CodenamesRules` and the client's own check have them).

- Messages wait in an inbox of any length, and there is no induction over it. So the invariants of `ToldInv` are about
  the *last* message that writes a field of `view`: either one is on its way and agrees with the room, or none is and the
  screen agrees with it (`TurnTold`, `TriesTold`, `SeatTold`, `PhaseTold`, `ModeTold`). The uncovered cards are a union and
  not a last value: `CardsTold` adds up what is shown and what is coming, behind the one `ALL_CARDS` (`DealtIn`).
- `Joined...` and `Rest...` say what appending and reading does to a last message; `Post` is what a step of the room may send
  for `ToldInv` to survive, shown of the packets of every step (`DealPosts`, `CluePosts`, `GuessPosts`, `AbortPosts`);
  `HandleShows` is what each handler of the client writes.
- All of this is about a client that read every message alone. `OpenOnly`, no update runs ahead of the room, needs no
  such condition and gives `ShownCardsAreOpen`; the rest gives `ScreenIsTrue`, `PromptIsTrue` and `StartIsShown`.
- `JointRoomKeepsRules`: `JointSpec => Spec` of `CodenamesRules`, which `GameRoom` implements by `RefinesRules`.
- `OnlyLateNoticesMislead`: the claim that `client_late` refutes holds while no matching message was late.

**Only model-checked.** The seven liveness properties (`EndGameCompletes`, `GameFinishes`, `EverybodyPlays`,
`CreationEnds`, `EndedGameIsLeft`, `LoggedInPlayerWaits`, `StopEnds`) rest on fairness, and `ENABLED` is beyond the
prover. The five refuted claims have counterexamples instead; for three of them the theorems above say what they would
need. Every invariant, safety action property and refinement that a passing run checks is stated by a theorem.

## 5. Not modelled, and why

- Undefined behaviour on freed objects: `Close` drops the last reference to the session it runs on, rooms keep raw
  pointers to sessions, the destructor of a room runs under workers that still have its address. The models stop where
  it would begin (`Destroy` waits for packets on their way, step `"wild"` of a creation thread) and the places are
  listed as hazards. `Destroyed` merges the two writes per session of the destructor.
- Splitting of a message over two receives. A sign-up that the next request spoils may in the code store a nickname with that
  request in it; `LoginSystem` lets it be refused only.
- A send, or the first receive, of the client that fails at once; the loss of the connection during a game.
- What freed objects do after `Crashes`, and the static destruction of the client (`g_guiManager` goes last, so the callbacks
  of `~IOCPClient` find queues that are gone).
- Words as text, `LoadWordList` on a missing file (all words empty), drawing, colours, logging, console input details.
- Passwords, salts and hashes: whether a password fits is a choice. Tokens are numbered.
- `CHECK_ID`, `TOKEN` and `SESSION_READY`, which change nothing and which the client does not send.
- Functions nothing calls: `RemovePlayer`, `RemoveGameRoom`, `FindSessionByToken`, `ChangePassword`, `ChangeNickname`,
  `WithdrawUser`, `ReportUser`, `SuspendUser` and others named in `PROJECT.json`.
- The `*_2.cpp` files, which the build excludes.
- `README.md` of the repository speaks of four players, the code of six; the models take the number from a constant.
- The score a finished game shows is the one of the last turn (`SendGameState` is not called by `EndGame`): noted as a
  hazard, `ScreenShowsRoom` is stated for running games.

### Seen while modelling

Places where the models show what the code does and no run is spent on it:

- A refused login or sign-up leads to the menu all the same: the phase is still `LOBBY` from `OnNetworkConnected`
  (`GUIManager.cpp:158`, `SignupScreen.cpp:149`), and the menu has no way back to the login.
- A player who has just signed up is in the menu with a token, but his session is `AUTHENTICATING` until a `LOGIN`: his
  `QUERY_WAIT` is answered `AUTH_ERROR`, and he can only restart the client (`NotLoggedIn`). `LoggedInPlayerWaits` is
  about sessions in the lobby for that reason.
- `main.cpp:127` of the client says the receive thread starts after `Connect`; `Initialize` starts it before, and a thread
  that tests `connected_` too early ends without a word (`ReceiverChecks`). The server's workers have the same gap
  (`TooEarly`).
- Two `QUERY_WAIT` that one receive returns are one with a wrong token: `INVALID_TOKEN`.
- The client finds its seat by the id it logged in with (`PacketHandler.cpp:195`, `:219`), the room names seats by nickname.
- `IOCPServer::AddSession` ignores the result of `SessionManager::AddSession` (`IOCPServer.cpp:75`).

## 6. Plan

Done, in this order: board, rules and room; room proofs; matching; client and its composition with the rules; accounts
and their proofs; `AccountRules` and its refinement; the threads of the server, the login of the client, their
composition and its proofs; proofs for matching and for the client at the table, what is told, who may uncover, and
the name on the screen.

Next:

1. **A room as its environment sees it**: an abstract matchmaker (waiting, seated, playing, back) that `Matchmaking`
   implements under one room a second and unrepeated requests; `QueueInv`, `SeatInv` and `OnceInv` are its first half.
2. **What the other two refuted claims need**: `match_gather` (one request at a time between queueing and counting) and
   `match_orphan` (nobody is taken into a room before `EndGame` has written both of his fields).
3. **A client between two rooms**: the next `QUERY_WAIT` against the release of the last game, in one model with
   `Matchmaking`.
4. **A session's life** with its reference count, as far as it is defined.
