------------------------------ MODULE Accounts ------------------------------
(***************************************************************************)
(* Accounts: DatabaseManager, which all workers share under dbMutex_, and  *)
(* HandleAuthProtocol of SessionManager, which turns a connection into a   *)
(* player.                                                                 *)
(*                                                                         *)
(* SignupUser is one transaction of several statements, each of which may  *)
(* fail; the process may stop between any two of them.  db is what the     *)
(* connection to SQLite reads, saved what a restart finds.  Whether a      *)
(* password fits is left open, and tokens are left out: an empty one fits  *)
(* a session that has none.                                                *)
(* A definition that only mutation runs use stands before the one it       *)
(* replaces.                                                               *)
(***************************************************************************)
EXTENDS Integers, FiniteSets, FiniteSetsExt

CONSTANTS
    Session,       \* connections; one is used again after it was closed
    Id,
    Nick,
    Absent,        \* no mutex owner, no id, no nickname, no row
    MaxResults     \* bound: results stored in a run

ASSUME AccountsAssumption ==
    /\ Absent \notin Session \cup Id \cup Nick
    /\ Absent \notin [wins : Nat, losses : Nat]
    /\ MaxResults \in Nat

VARIABLES
    db,            \* users and game_stats as the connection sees them
    saved,         \* the same, committed
    owner,         \* the worker that holds dbMutex_
    handler,       \* where the worker with the session's packet is
    args,          \* the id and nickname of that packet
    state,         \* currentState_
    nickname,      \* username_
    account,       \* userInfo_.id, once logged in
    acked,         \* history: accounts whose SIGNUP_OK was sent
    blind,         \* history: a duplicate check failed and passed for none
    earned         \* history: wins and losses of each account's players

disk == <<db, saved, owner>>
packet == <<handler, args>>
fields == <<state, nickname, account>>
history == <<acked, blind, earned>>
vars == <<disk, packet, fields, history>>

Account == [id : Id, nick : Nick]
Row == [wins : Nat, losses : Nat]
NoGames == [wins |-> 0, losses |-> 0]
NoArgs == [id |-> Absent, nick |-> Absent]

\* The steps of SignupUser that hold dbMutex_, and the other steps.
InTransaction == {"check", "user", "stats", "commit"}
Step == InTransaction \cup {"idle", "signup", "signed", "login", "load"}

Init ==
    /\ db = [users |-> {}, stats |-> [i \in Id |-> Absent]]
    /\ saved = db
    /\ owner = Absent
    /\ handler = [s \in Session |-> "idle"]
    /\ args = [s \in Session |-> NoArgs]
    /\ state = [s \in Session |-> "AUTHENTICATING"]
    /\ nickname = [s \in Session |-> Absent]
    /\ account = [s \in Session |-> Absent]
    /\ acked = {}
    /\ blind = FALSE
    /\ earned = [i \in Id |-> NoGames]

Goto(s, next) == handler' = [handler EXCEPT ![s] = next] /\ UNCHANGED args

\* The handler returns, and the next receive is posted.
Returns(s) ==
    /\ handler' = [handler EXCEPT ![s] = "idle"]
    /\ args' = [args EXCEPT ![s] = NoArgs]

Receives(s, kind, id, nick) ==
    /\ handler' = [handler EXCEPT ![s] = kind]
    /\ args' = [args EXCEPT ![s] = [id |-> id, nick |-> nick]]

-----------------------------------------------------------------------------
(* The packets of a session that is not logged in.                         *)

\* ProcessPacket sends only these to HandleAuthProtocol.  CHECK_ID, TOKEN and
\* unknown or malformed packets are answered and change nothing.
AwaitsPacket(s) == handler[s] = "idle" /\ state[s] = "AUTHENTICATING"

Signup(s) ==
    /\ AwaitsPacket(s)
    /\ \E id \in Id, nick \in Nick : Receives(s, "signup", id, nick)
    /\ UNCHANGED <<disk, fields, history>>

Login(s) ==
    /\ AwaitsPacket(s)
    /\ \E id \in Id : Receives(s, "login", id, Absent)
    /\ UNCHANGED <<disk, fields, history>>

\* EDIT_NICK renames the session only: ChangeNickname is never called.
EditNick(s) ==
    /\ AwaitsPacket(s)
    /\ \E n \in Nick : nickname' = [nickname EXCEPT ![s] = n]
    /\ UNCHANGED <<disk, packet, state, account, history>>

-----------------------------------------------------------------------------
(* SignupUser.                                                             *)

DuplicateOfIdOnly(id, nick) == \E a \in db.users : a.id = id

Duplicate(id, nick) == \E a \in db.users : a.id = id \/ a.nick = nick

\* Every failure rolls back, and returns to answer SIGNUP_ERROR or
\* SIGNUP_DUPLICATE.
GiveUpWithoutRollback(s) ==
    /\ owner' = Absent
    /\ Returns(s)
    /\ UNCHANGED <<db, saved, fields, history>>

GiveUpKeepingMutex(s) ==
    /\ db' = saved
    /\ Returns(s)
    /\ UNCHANGED <<saved, owner, fields, history>>

GiveUp(s) ==
    /\ db' = saved
    /\ owner' = Absent
    /\ Returns(s)
    /\ UNCHANGED <<saved, fields, history>>

Locked(s, step) == owner = s /\ handler[s] = step

\* BEGIN TRANSACTION; if it fails, the mutex is left at once.
BeginTransaction(s) ==
    /\ handler[s] = "signup" /\ owner = Absent
    /\ \/ owner' = s /\ Goto(s, "check")
       \/ owner' = Absent /\ Returns(s)
    /\ UNCHANGED <<db, saved, fields, history>>

\* Only SQLITE_ROW means a duplicate: a statement that fails, because the
\* file is locked or cannot be read, lets the sign-up pass.
CheckDuplicate(s) ==
    /\ Locked(s, "check")
    /\ \/ GiveUp(s)
       \/ /\ \/ ~Duplicate(args[s].id, args[s].nick) /\ blind' = blind
             \/ blind' = TRUE
          /\ Goto(s, "user")
          /\ UNCHANGED <<disk, fields, acked, earned>>

\* The table users is not made by this program; no key of it is assumed.
InsertUser(s) ==
    /\ Locked(s, "user")
    /\ \/ GiveUp(s)
       \/ /\ db' = [db EXCEPT !.users = @ \cup {args[s]}]
          /\ Goto(s, "stats")
          /\ UNCHANGED <<saved, owner, fields, history>>

\* INSERT OR IGNORE: a row that exists stays.
InsertStatsUnchecked(s) ==
    /\ Locked(s, "stats")
    /\ \/ db' = db
       \/ db' = [db EXCEPT !.stats[args[s].id] = NoGames]
    /\ Goto(s, "commit")
    /\ UNCHANGED <<saved, owner, fields, history>>

InsertStats(s) ==
    /\ Locked(s, "stats")
    /\ \/ GiveUp(s)
       \/ /\ db' = IF db.stats[args[s].id] = Absent
                     THEN [db EXCEPT !.stats[args[s].id] = NoGames]
                     ELSE db
          /\ Goto(s, "commit")
          /\ UNCHANGED <<saved, owner, fields, history>>

CommitUnchecked(s) ==
    /\ Locked(s, "commit")
    /\ \/ saved' = db /\ db' = db
       \/ saved' = saved /\ db' = saved
    /\ owner' = Absent
    /\ Goto(s, "signed")
    /\ UNCHANGED <<fields, history>>

Commit(s) ==
    /\ Locked(s, "commit")
    /\ \/ GiveUp(s)
       \/ /\ saved' = db
          /\ owner' = Absent
          /\ Goto(s, "signed")
          /\ UNCHANGED <<db, fields, history>>

\* The answer comes without the mutex.  The session has a name now, but is
\* not logged in.
SignupOk(s) ==
    /\ handler[s] = "signed"
    /\ nickname' = [nickname EXCEPT ![s] = args[s].nick]
    /\ acked' = acked \cup {args[s]}
    /\ Returns(s)
    /\ UNCHANGED <<disk, state, account, blind, earned>>

-----------------------------------------------------------------------------
(* LOGIN: the password under one lock, the account under another.          *)

CheckPassword(s) ==
    /\ handler[s] = "login" /\ owner = Absent
    /\ \/ /\ \E a \in db.users : a.id = args[s].id
          /\ Goto(s, "load")
       \/ Returns(s)    \* no account, wrong password, suspended, DB_ERROR
    /\ UNCHANGED <<disk, fields, history>>

LoadUserKeepingNick(s) ==
    /\ handler[s] = "load" /\ owner = Absent
    /\ \E a \in db.users :
          /\ a.id = args[s].id
          /\ account' = [account EXCEPT ![s] = a.id]
          /\ nickname' = [nickname EXCEPT
                ![s] = IF @ = Absent THEN a.nick ELSE @]
          /\ state' = [state EXCEPT ![s] = "IN_LOBBY"]
    /\ Returns(s)
    /\ UNCHANGED <<disk, history>>

\* GetUserInfoByToken, then the fields of the session.
LoadUser(s) ==
    /\ handler[s] = "load" /\ owner = Absent
    /\ \/ \E a \in db.users :
             /\ a.id = args[s].id
             /\ account' = [account EXCEPT ![s] = a.id]
             /\ nickname' = [nickname EXCEPT ![s] = a.nick]
             /\ state' = [state EXCEPT ![s] = "IN_LOBBY"]
       \/ UNCHANGED fields   \* DB_ERROR
    /\ Returns(s)
    /\ UNCHANGED <<disk, history>>

-----------------------------------------------------------------------------
(* Results, crashes and the world outside.                                 *)

CreditOfFirstOnly(row, result) == [NoGames EXCEPT ![result] = 1]

Credit(row, result) ==
    IF row = Absent THEN [NoGames EXCEPT ![result] = 1]
                    ELSE [row EXCEPT ![result] = @ + 1]

Stored == FoldSet(LAMBDA i, n : n + earned[i].wins + earned[i].losses, 0, Id)

\* History: the account that s logged in with has a result.
Earns(s, result) == earned' = [earned EXCEPT ![account[s]][result] = @ + 1]

\* SaveGameResult, called by EndGame with the nickname of the player: one
\* statement that commits by itself.
SaveGameResult(s, result) ==
    /\ state[s] = "IN_LOBBY" /\ owner = Absent /\ Stored < MaxResults
    /\ \E a \in db.users :
          /\ a.nick = nickname[s]
          /\ db' = [db EXCEPT !.stats[a.id] = Credit(@, result)]
    /\ saved' = db'
    /\ Earns(s, result)
    /\ UNCHANGED <<owner, packet, fields, acked, blind>>

\* The client goes away between two packets; its place may be taken anew.
Leave(s) ==
    /\ handler[s] = "idle"
    /\ state' = [state EXCEPT ![s] = "AUTHENTICATING"]
    /\ nickname' = [nickname EXCEPT ![s] = Absent]
    /\ account' = [account EXCEPT ![s] = Absent]
    /\ UNCHANGED <<disk, packet, history>>

\* The server stops and starts again: SQLite forgets what was not committed.
Restart ==
    /\ db' = saved
    /\ owner' = Absent
    /\ handler' = [s \in Session |-> "idle"]
    /\ args' = [s \in Session |-> NoArgs]
    /\ state' = [s \in Session |-> "AUTHENTICATING"]
    /\ nickname' = [s \in Session |-> Absent]
    /\ account' = [s \in Session |-> Absent]
    /\ UNCHANGED <<saved, history>>

Next ==
    \/ \E s \in Session :
          \/ Signup(s) \/ Login(s) \/ EditNick(s)
          \/ BeginTransaction(s) \/ CheckDuplicate(s) \/ InsertUser(s)
          \/ InsertStats(s) \/ Commit(s) \/ SignupOk(s)
          \/ CheckPassword(s) \/ LoadUser(s)
          \/ \E result \in {"wins", "losses"} : SaveGameResult(s, result)
          \/ Leave(s)
    \/ Restart

Spec == Init /\ [][Next]_vars

-----------------------------------------------------------------------------
(* Properties.                                                             *)

Tables == [users : SUBSET Account, stats : [Id -> Row \cup {Absent}]]

\* Types; and dbMutex_ belongs to the worker that is inside SignupUser, so
\* every early return of SignupUser releases it.
TypeOK ==
    /\ db \in Tables /\ saved \in Tables
    /\ owner \in Session \cup {Absent}
    /\ handler \in [Session -> Step]
    /\ args \in [Session -> [id : Id \cup {Absent}, nick : Nick \cup {Absent}]]
    /\ state \in [Session -> {"AUTHENTICATING", "IN_LOBBY"}]
    /\ nickname \in [Session -> Nick \cup {Absent}]
    /\ account \in [Session -> Id \cup {Absent}]
    /\ acked \subseteq Account
    /\ blind \in BOOLEAN
    /\ earned \in [Id -> Row]
    /\ \A s \in Session : owner = s <=> handler[s] \in InTransaction

\* Whichever statement of a sign-up fails, no transaction stays open behind
\* the mutex: later results and sign-ups would join it and be lost with it.
NoTransactionLeftOpen == owner = Absent => db = saved

\* Two sessions that sign up at once never share an id or a nickname; the
\* room and SaveGameResult find a player by his nickname alone.  This is as
\* good as the duplicate check: one that fails reports no duplicate.
AccountsDistinct ==
    ~blind => \A a, b \in db.users : a.id = b.id \/ a.nick = b.nick => a = b

\* A sign-up is stored whole or not at all, across failures and restarts:
\* accounts and rows of game_stats come in pairs.
AccountsHaveStats ==
    \A i \in Id :
        (\E a \in saved.users : a.id = i) <=> saved.stats[i] # Absent

\* A client that was told SIGNUP_OK has an account, also after a restart.
SignupIsKept == acked \subseteq saved.users

\* Whoever is in the lobby or in a room bears the nickname of the account he
\* logged in with, whatever he signed up or edited before on the connection.
PlayersBearTheirNickname ==
    \A s \in Session : state[s] = "IN_LOBBY" =>
        \E a \in saved.users : a.id = account[s] /\ a.nick = nickname[s]

\* Every stored result stands in the row of the account that earned it,
\* found by nickname, and outlives failed sign-ups and restarts.
ResultsReachTheirAccount ==
    ~blind => \A i \in Id :
        earned[i] = IF saved.stats[i] = Absent THEN NoGames ELSE saved.stats[i]

\* A sign-up that is committed and not yet answered.
Unanswered ==
    [s \in Session |-> IF handler[s] = "signed" THEN args[s] ELSE NoArgs]

Rules == INSTANCE AccountRules WITH
    accounts <- saved.users, unanswered <- Unanswered

\* With all its statements, failures and restarts, the server does what
\* AccountRules says: for the clients a sign-up is one step.
AccountRulesSpec == Rules!Spec

=============================================================================
