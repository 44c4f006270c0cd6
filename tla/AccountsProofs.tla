--------------------------- MODULE AccountsProofs ---------------------------
(***************************************************************************)
(* Proofs about Accounts, for any number of connections, ids, nicknames    *)
(* and stored results.  Each invariant of the module is inductive only     *)
(* together with what a sign-up has done so far (TransactionInv) and what  *)
(* a worker knows of the packet it handles (PacketInv).                    *)
(***************************************************************************)
EXTENDS Accounts, TLAPS

\* A sign-up carries an account, a login an id.
PacketInv == \A s \in Session :
    /\ handler[s] \in InTransaction \cup {"signup", "signed"} => args[s] \in Account
    /\ handler[s] \in {"login", "load"} => args[s].id \in Id

PacketTyped ==
    /\ handler \in [Session -> Step]
    /\ args \in [Session -> [id : Id \cup {Absent}, nick : Nick \cup {Absent}]]
    /\ PacketInv

TypeInv == TypeOK /\ PacketInv

\* What the open transaction has changed, seen from every step of it.
TransactionInv == \A s \in Session :
    /\ handler[s] \in {"check", "user"} => db = saved
    /\ handler[s] = "user" /\ ~blind => ~Duplicate(args[s].id, args[s].nick)
    /\ handler[s] = "stats" =>
          db.users = saved.users \cup {args[s]} /\ db.stats = saved.stats
    /\ handler[s] = "commit" =>
          /\ db.users = saved.users \cup {args[s]}
          /\ \A i \in Id : db.stats[i] =
                IF saved.stats[i] = Absent /\ i = args[s].id
                  THEN NoGames ELSE saved.stats[i]

\* The account of a sign-up that is about to be acknowledged is committed.
SignedInv == \A s \in Session : handler[s] = "signed" => args[s] \in saved.users

StorageInv ==
    /\ NoTransactionLeftOpen
    /\ saved.users \subseteq db.users
    /\ TransactionInv
    /\ AccountsDistinct
    /\ AccountsHaveStats
    /\ SignedInv
    /\ SignupIsKept

PlayerInv == PlayersBearTheirNickname /\ ResultsReachTheirAccount

-----------------------------------------------------------------------------

\* Credit adds one to one column of a row, and makes the row if there is none.
LEMMA CreditTyped ==
    ASSUME NEW row \in Row \cup {Absent}, NEW result \in {"wins", "losses"}
    PROVE  Credit(row, result) \in Row
BY DEF Credit, Row, NoGames

\* What a handler that goes on, or returns, does to the packets.
LEMMA GotoTyped ==
    ASSUME TypeInv, NEW s \in Session, NEW next \in Step, Goto(s, next),
           next \in InTransaction \cup {"signup", "signed"} => args[s] \in Account,
           next \in {"login", "load"} => args[s].id \in Id
    PROVE  /\ PacketTyped'
           /\ \A r \in Session : handler'[r] = IF r = s THEN next ELSE handler[r]
BY DEF TypeInv, PacketTyped, PacketInv, TypeOK, Goto

LEMMA ReturnsTyped ==
    ASSUME TypeInv, NEW s \in Session, Returns(s)
    PROVE  /\ PacketTyped'
           /\ \A r \in Session : handler'[r] = IF r = s THEN "idle" ELSE handler[r]
<1>1. NoArgs \in [id : Id \cup {Absent}, nick : Nick \cup {Absent}]
  BY DEF NoArgs
<1>2. "idle" \in Step
  BY DEF Step
<1> QED
  BY <1>1, <1>2 DEF TypeInv, PacketTyped, PacketInv, TypeOK, Returns, InTransaction

\* Giving up rolls the tables back and releases the mutex.
LEMMA GiveUpTyped ==
    ASSUME TypeInv, NEW s \in Session, owner = s, GiveUp(s)
    PROVE  TypeInv'
<1>1. /\ PacketTyped'
      /\ \A r \in Session : handler'[r] = IF r = s THEN "idle" ELSE handler[r]
  BY ReturnsTyped DEF GiveUp
<1>2. \A r \in Session : owner' = r <=> handler'[r] \in InTransaction
  BY <1>1, AccountsAssumption DEF AccountsAssumption, TypeInv, TypeOK, GiveUp, InTransaction
<1> QED
  BY <1>1, <1>2 DEF TypeInv, TypeOK, PacketTyped, GiveUp, fields, history

\* Types, and dbMutex_ is held exactly inside SignupUser.
LEMMA TypeInvInductive == Spec => []TypeInv
<1>1. ASSUME Init PROVE TypeInv
  <2>1. db \in Tables /\ saved \in Tables
    BY <1>1 DEF Init, Tables
  <2>2. PacketTyped
    BY <1>1 DEF Init, PacketTyped, PacketInv, NoArgs, Step, InTransaction
  <2>3. earned \in [Id -> Row]
    BY <1>1 DEF Init, NoGames, Row
  <2>4. \A s \in Session : owner = s <=> handler[s] \in InTransaction
    BY <1>1, AccountsAssumption DEF Init, InTransaction, AccountsAssumption
  <2> QED
    BY <1>1, <2>1, <2>2, <2>3, <2>4 DEF Init, TypeInv, TypeOK, PacketTyped
<1>2. TypeInv /\ [Next]_vars => TypeInv'
  <2> SUFFICES ASSUME TypeInv, [Next]_vars PROVE TypeInv'
    OBVIOUS
  <2> USE DEF disk, packet, fields, history
  <2>1. ASSUME NEW s \in Session, Signup(s) PROVE TypeInv'
    BY <2>1 DEF Signup, AwaitsPacket, Receives, Account, TypeInv, TypeOK, PacketInv,
       Step, InTransaction
  <2>2. ASSUME NEW s \in Session, Login(s) PROVE TypeInv'
    BY <2>2 DEF Login, AwaitsPacket, Receives, Account, TypeInv, TypeOK, PacketInv,
       Step, InTransaction
  <2>3. ASSUME NEW s \in Session, EditNick(s) PROVE TypeInv'
    BY <2>3 DEF EditNick, TypeInv, TypeOK, PacketInv
  <2>4. ASSUME NEW s \in Session, BeginTransaction(s) PROVE TypeInv'
    <3>1. CASE owner' = s /\ Goto(s, "check")
      <4>1. /\ PacketTyped'
            /\ \A r \in Session : handler'[r] = IF r = s THEN "check" ELSE handler[r]
        BY <2>4, <3>1, GotoTyped
           DEF BeginTransaction, TypeInv, PacketInv, InTransaction, Step
      <4>2. \A r \in Session : owner' = r <=> handler'[r] \in InTransaction
        BY <2>4, <3>1, <4>1, AccountsAssumption
           DEF BeginTransaction, TypeInv, TypeOK, InTransaction, AccountsAssumption
      <4> QED
        BY <2>4, <3>1, <4>1, <4>2 DEF BeginTransaction, TypeInv, TypeOK, PacketTyped
    <3>2. CASE owner' = Absent /\ Returns(s)
      <4>1. /\ PacketTyped'
            /\ \A r \in Session : handler'[r] = IF r = s THEN "idle" ELSE handler[r]
        BY <3>2, ReturnsTyped
      <4>2. \A r \in Session : owner' = r <=> handler'[r] \in InTransaction
        BY <2>4, <3>2, <4>1, AccountsAssumption
           DEF BeginTransaction, TypeInv, TypeOK, InTransaction, AccountsAssumption
      <4> QED
        BY <2>4, <3>2, <4>1, <4>2 DEF BeginTransaction, TypeInv, TypeOK, PacketTyped
    <3> QED
      BY <2>4, <3>1, <3>2 DEF BeginTransaction
  <2>5. ASSUME NEW s \in Session, CheckDuplicate(s) PROVE TypeInv'
    <3>1. CASE GiveUp(s)
      BY <2>5, <3>1, GiveUpTyped DEF CheckDuplicate, Locked
    <3>2. CASE Goto(s, "user") /\ UNCHANGED <<disk, fields, acked, earned>> /\ blind' \in BOOLEAN
      <4>1. /\ PacketTyped'
            /\ \A r \in Session : handler'[r] = IF r = s THEN "user" ELSE handler[r]
        BY <2>5, <3>2, GotoTyped
           DEF CheckDuplicate, Locked, TypeInv, PacketInv, InTransaction, Step
      <4>2. \A r \in Session : owner' = r <=> handler'[r] \in InTransaction
        BY <2>5, <3>2, <4>1 DEF CheckDuplicate, Locked, TypeInv, TypeOK, InTransaction
      <4> QED
        BY <3>2, <4>1, <4>2 DEF TypeInv, TypeOK, PacketTyped
    <3> QED
      BY <2>5, <3>1, <3>2 DEF CheckDuplicate, TypeInv, TypeOK
  <2>6. ASSUME NEW s \in Session, InsertUser(s) PROVE TypeInv'
    <3>1. CASE GiveUp(s)
      BY <2>6, <3>1, GiveUpTyped DEF InsertUser, Locked
    <3>2. CASE ~GiveUp(s)
      <4>1. /\ PacketTyped'
            /\ \A r \in Session : handler'[r] = IF r = s THEN "stats" ELSE handler[r]
        BY <2>6, <3>2, GotoTyped
           DEF InsertUser, Locked, TypeInv, PacketInv, InTransaction, Step
      <4>2. \A r \in Session : owner' = r <=> handler'[r] \in InTransaction
        BY <2>6, <3>2, <4>1 DEF InsertUser, Locked, TypeInv, TypeOK, InTransaction
      <4>3. db' \in Tables
        BY <2>6, <3>2
           DEF InsertUser, Locked, TypeInv, TypeOK, PacketInv, InTransaction, Tables
      <4> QED
        BY <2>6, <3>2, <4>1, <4>2, <4>3 DEF InsertUser, TypeInv, TypeOK, PacketTyped
    <3> QED
      BY <3>1, <3>2
  <2>7. ASSUME NEW s \in Session, InsertStats(s) PROVE TypeInv'
    <3>1. CASE GiveUp(s)
      BY <2>7, <3>1, GiveUpTyped DEF InsertStats, Locked
    <3>2. CASE ~GiveUp(s)
      <4>1. /\ PacketTyped'
            /\ \A r \in Session : handler'[r] = IF r = s THEN "commit" ELSE handler[r]
        BY <2>7, <3>2, GotoTyped
           DEF InsertStats, Locked, TypeInv, PacketInv, InTransaction, Step
      <4>2. \A r \in Session : owner' = r <=> handler'[r] \in InTransaction
        BY <2>7, <3>2, <4>1 DEF InsertStats, Locked, TypeInv, TypeOK, InTransaction
      <4>3. db' \in Tables
        BY <2>7, <3>2 DEF InsertStats, TypeInv, TypeOK, Tables, NoGames, Row
      <4> QED
        BY <2>7, <3>2, <4>1, <4>2, <4>3 DEF InsertStats, TypeInv, TypeOK, PacketTyped
    <3> QED
      BY <3>1, <3>2
  <2>8. ASSUME NEW s \in Session, Commit(s) PROVE TypeInv'
    <3>1. CASE GiveUp(s)
      BY <2>8, <3>1, GiveUpTyped DEF Commit, Locked
    <3>2. CASE ~GiveUp(s)
      <4>1. /\ PacketTyped'
            /\ \A r \in Session : handler'[r] = IF r = s THEN "signed" ELSE handler[r]
        BY <2>8, <3>2, GotoTyped
           DEF Commit, Locked, TypeInv, PacketInv, InTransaction, Step
      <4>2. \A r \in Session : owner' = r <=> handler'[r] \in InTransaction
        BY <2>8, <3>2, <4>1, AccountsAssumption
           DEF Commit, Locked, TypeInv, TypeOK, InTransaction, AccountsAssumption
      <4> QED
        BY <2>8, <3>2, <4>1, <4>2 DEF Commit, TypeInv, TypeOK, PacketTyped
    <3> QED
      BY <3>1, <3>2
  <2>9. ASSUME NEW s \in Session, SignupOk(s) PROVE TypeInv'
    <3>1. /\ PacketTyped'
          /\ \A r \in Session : handler'[r] = IF r = s THEN "idle" ELSE handler[r]
      BY <2>9, ReturnsTyped DEF SignupOk
    <3>2. \A r \in Session : owner' = r <=> handler'[r] \in InTransaction
      BY <2>9, <3>1 DEF SignupOk, TypeInv, TypeOK, InTransaction
    <3>3. args[s] \in Account
      BY <2>9 DEF SignupOk, TypeInv, PacketInv
    <3>4. acked' \subseteq Account /\ nickname' \in [Session -> Nick \cup {Absent}]
      BY <2>9, <3>3 DEF SignupOk, TypeInv, TypeOK, Account
    <3> QED
      BY <2>9, <3>1, <3>2, <3>4 DEF SignupOk, TypeInv, TypeOK, PacketTyped
  <2>10. ASSUME NEW s \in Session, CheckPassword(s) PROVE TypeInv'
    <3>1. PICK next \in {"load", "idle"} :
             /\ PacketTyped'
             /\ \A r \in Session : handler'[r] = IF r = s THEN next ELSE handler[r]
      <4>1. CASE Goto(s, "load")
        BY <2>10, <4>1, GotoTyped
           DEF CheckPassword, TypeInv, PacketInv, InTransaction, Step
      <4>2. CASE Returns(s)
        BY <4>2, ReturnsTyped
      <4> QED
        BY <2>10, <4>1, <4>2 DEF CheckPassword
    <3>2. \A r \in Session : owner' = r <=> handler'[r] \in InTransaction
      BY <2>10, <3>1 DEF CheckPassword, TypeInv, TypeOK, InTransaction
    <3> QED
      BY <2>10, <3>1, <3>2 DEF CheckPassword, TypeInv, TypeOK, PacketTyped
  <2>11. ASSUME NEW s \in Session, LoadUser(s) PROVE TypeInv'
    <3>1. /\ PacketTyped'
          /\ \A r \in Session : handler'[r] = IF r = s THEN "idle" ELSE handler[r]
      BY <2>11, ReturnsTyped DEF LoadUser
    <3>2. \A r \in Session : owner' = r <=> handler'[r] \in InTransaction
      BY <2>11, <3>1 DEF LoadUser, TypeInv, TypeOK, InTransaction
    <3>3. /\ state' \in [Session -> {"AUTHENTICATING", "IN_LOBBY"}]
          /\ nickname' \in [Session -> Nick \cup {Absent}]
          /\ account' \in [Session -> Id \cup {Absent}]
      BY <2>11 DEF LoadUser, TypeInv, TypeOK, Tables, Account
    <3> QED
      BY <2>11, <3>1, <3>2, <3>3 DEF LoadUser, TypeInv, TypeOK, PacketTyped
  <2>12. ASSUME NEW s \in Session, NEW result \in {"wins", "losses"},
                SaveGameResult(s, result)
         PROVE  TypeInv'
    <3>1. PICK a \in db.users :
             a.nick = nickname[s]
             /\ db' = [db EXCEPT !.stats[a.id] = Credit(db.stats[a.id], result)]
      BY <2>12 DEF SaveGameResult
    <3>2. a.id \in Id
      BY <3>1 DEF Account, TypeInv, TypeOK, Tables
    <3>3. Credit(db.stats[a.id], result) \in Row
      BY <3>2, CreditTyped DEF TypeInv, TypeOK, Tables
    <3>4. db' \in Tables /\ saved' \in Tables
      BY <2>12, <3>1, <3>2, <3>3 DEF SaveGameResult, TypeInv, TypeOK, Tables
    <3>5. earned' \in [Id -> Row]
      <4>1. CASE account[s] \in Id
        <5>1. [earned[account[s]] EXCEPT ![result] = @ + 1] \in Row
          BY <4>1 DEF TypeInv, TypeOK, Row
        <5> QED
          BY <2>12, <4>1, <5>1 DEF SaveGameResult, Earns, TypeInv, TypeOK
      <4>2. CASE account[s] \notin Id
        BY <2>12, <4>2 DEF SaveGameResult, Earns, TypeInv, TypeOK
      <4> QED
        BY <4>1, <4>2
    <3> QED
      BY <2>12, <3>4, <3>5 DEF SaveGameResult, TypeInv, TypeOK, PacketInv
  <2>13. ASSUME NEW s \in Session, Leave(s) PROVE TypeInv'
    BY <2>13 DEF Leave, TypeInv, TypeOK, PacketInv
  <2>14. ASSUME Restart PROVE TypeInv'
    <3>1. PacketTyped'
      BY <2>14 DEF Restart, PacketTyped, PacketInv, NoArgs, Step, InTransaction
    <3>2. \A r \in Session : owner' = r <=> handler'[r] \in InTransaction
      BY <2>14, AccountsAssumption DEF Restart, InTransaction, AccountsAssumption
    <3> QED
      BY <2>14, <3>1, <3>2 DEF Restart, TypeInv, TypeOK, PacketTyped
  <2>15. CASE UNCHANGED vars
    BY <2>15 DEF vars, TypeInv, TypeOK, PacketInv
  <2> QED
    BY <2>1, <2>2, <2>3, <2>4, <2>5, <2>6, <2>7, <2>8, <2>9, <2>10, <2>11, <2>12,
       <2>13, <2>14, <2>15 DEF Next
<1> QED
  BY <1>1, <1>2, PTL DEF Spec

-----------------------------------------------------------------------------
(* What is stored.                                                         *)

\* A duplicate check that said so makes the table with the new account have
\* no two accounts of one id or nickname.
LEMMA NewAccountDistinct ==
    ASSUME NEW U, NEW b \in Account,
           \A a, c \in U : a.id = c.id \/ a.nick = c.nick => a = c,
           ~\E a \in U : a.id = b.id \/ a.nick = b.nick
    PROVE  \A a, c \in U \cup {b} : a.id = c.id \/ a.nick = c.nick => a = c
OBVIOUS

\* Giving up, or a restart, returns to the committed tables.
LEMMA RolledBack ==
    ASSUME TypeInv, StorageInv, db' = saved, saved' = saved,
           UNCHANGED <<acked, blind>>,
           \A r \in Session : handler'[r] \notin InTransaction,
           \A r \in Session : handler'[r] = "signed" =>
              handler[r] = "signed" /\ args'[r] = args[r]
    PROVE  StorageInv'
BY DEF StorageInv, NoTransactionLeftOpen, TransactionInv, AccountsDistinct,
   AccountsHaveStats, SignedInv, SignupIsKept, InTransaction

LEMMA GiveUpStored ==
    ASSUME TypeInv, StorageInv, NEW s \in Session, owner = s, GiveUp(s)
    PROVE  StorageInv'
<1>1. \A r \in Session : handler'[r] \notin InTransaction
  BY DEF TypeInv, TypeOK, GiveUp, Returns, InTransaction
<1>2. \A r \in Session : handler'[r] = "signed" =>
         handler[r] = "signed" /\ args'[r] = args[r]
  BY DEF TypeInv, TypeOK, GiveUp, Returns
<1> QED
  BY <1>1, <1>2, RolledBack DEF GiveUp, history

\* A step that leaves the tables alone and moves no worker in or out of a
\* transaction, or to "signed".
LEMMA TablesUntouched ==
    ASSUME TypeInv, StorageInv, UNCHANGED <<db, saved, owner, acked, blind>>,
           \A r \in Session :
              \/ handler'[r] = handler[r] /\ args'[r] = args[r]
              \/ handler'[r] \notin InTransaction \cup {"signed"}
    PROVE  StorageInv'
BY DEF StorageInv, NoTransactionLeftOpen, TransactionInv, AccountsDistinct,
   AccountsHaveStats, SignedInv, SignupIsKept, InTransaction, Duplicate

\* What is committed, and what the open transaction adds to it.
LEMMA StorageInvInductive == Spec => []StorageInv
<1>1. ASSUME Init PROVE StorageInv
  BY <1>1 DEF Init, StorageInv, NoTransactionLeftOpen, TransactionInv,
     AccountsDistinct, AccountsHaveStats, SignedInv, SignupIsKept, InTransaction
<1>2. TypeInv /\ StorageInv /\ [Next]_vars => StorageInv'
  <2> SUFFICES ASSUME TypeInv, StorageInv, [Next]_vars PROVE StorageInv'
    OBVIOUS
  <2> USE DEF disk, packet, fields, history
  <2>1. ASSUME NEW s \in Session, Signup(s) PROVE StorageInv'
    <3>1. \A r \in Session :
             \/ handler'[r] = handler[r] /\ args'[r] = args[r]
             \/ handler'[r] \notin InTransaction \cup {"signed"}
      BY <2>1 DEF Signup, Receives, TypeInv, TypeOK, InTransaction
    <3> QED
      BY <2>1, <3>1, TablesUntouched DEF Signup
  <2>2. ASSUME NEW s \in Session, Login(s) PROVE StorageInv'
    <3>1. \A r \in Session :
             \/ handler'[r] = handler[r] /\ args'[r] = args[r]
             \/ handler'[r] \notin InTransaction \cup {"signed"}
      BY <2>2 DEF Login, Receives, TypeInv, TypeOK, InTransaction
    <3> QED
      BY <2>2, <3>1, TablesUntouched DEF Login
  <2>3. ASSUME NEW s \in Session, EditNick(s) PROVE StorageInv'
    BY <2>3, TablesUntouched DEF EditNick
  <2>4. ASSUME NEW s \in Session, BeginTransaction(s) PROVE StorageInv'
    <3>1. db = saved
      BY <2>4 DEF BeginTransaction, StorageInv, NoTransactionLeftOpen
    <3>2. \A r \in Session :
             \/ handler'[r] = handler[r] /\ args'[r] = args[r]
             \/ handler'[r] \in {"check", "idle"}
      BY <2>4 DEF BeginTransaction, Goto, Returns, TypeInv, TypeOK
    <3> QED
      BY <2>4, <3>1, <3>2 DEF BeginTransaction, StorageInv, NoTransactionLeftOpen,
         TransactionInv, AccountsDistinct, AccountsHaveStats, SignedInv,
         SignupIsKept, Duplicate
  <2>5. ASSUME NEW s \in Session, CheckDuplicate(s) PROVE StorageInv'
    <3>1. CASE GiveUp(s)
      BY <2>5, <3>1, GiveUpStored DEF CheckDuplicate, Locked
    <3>2. CASE ~GiveUp(s)
      <4>1. /\ Goto(s, "user") /\ UNCHANGED <<db, saved, owner, acked, args>>
            /\ ~blind' => ~blind /\ ~Duplicate(args[s].id, args[s].nick)
        BY <2>5, <3>2 DEF CheckDuplicate, TypeInv, TypeOK, Goto
      <4>2. \A r \in Session : r # s => handler'[r] = handler[r]
                                        /\ handler'[r] \notin InTransaction
        BY <2>5, <4>1 DEF CheckDuplicate, Locked, Goto, TypeInv, TypeOK
      <4>3. handler'[s] = "user" /\ db = saved /\ owner # Absent
        BY <2>5, <4>1, AccountsAssumption
           DEF CheckDuplicate, Locked, Goto, TypeInv, TypeOK, StorageInv,
               TransactionInv, AccountsAssumption
      <4>4. TransactionInv'
        BY <4>1, <4>2, <4>3 DEF TransactionInv, InTransaction, Duplicate
      <4> QED
        BY <4>1, <4>2, <4>3, <4>4 DEF StorageInv, NoTransactionLeftOpen,
           AccountsDistinct, AccountsHaveStats, SignedInv, SignupIsKept
    <3> QED
      BY <3>1, <3>2
  <2>6. ASSUME NEW s \in Session, InsertUser(s) PROVE StorageInv'
    <3>1. CASE GiveUp(s)
      BY <2>6, <3>1, GiveUpStored DEF InsertUser, Locked
    <3>2. CASE ~GiveUp(s)
      <4>1. /\ db' = [db EXCEPT !.users = @ \cup {args[s]}]
            /\ Goto(s, "stats") /\ UNCHANGED <<saved, owner, acked, blind, args>>
            /\ owner = s /\ handler[s] = "user" /\ args[s] \in Account
            /\ owner # Absent
        BY <2>6, <3>2, AccountsAssumption DEF InsertUser, Locked, Goto,
           AccountsAssumption, TypeInv, PacketInv, InTransaction
      <4>2. \A r \in Session : r # s => handler'[r] = handler[r]
                                        /\ handler'[r] \notin InTransaction
        BY <4>1 DEF Goto, TypeInv, TypeOK
      <4>3. handler'[s] = "stats" /\ db = saved
        BY <4>1 DEF Goto, TypeInv, TypeOK, StorageInv, TransactionInv
      <4>4. db'.users = saved.users \cup {args[s]} /\ db'.stats = saved.stats
        BY <4>1, <4>3 DEF TypeInv, TypeOK, Tables
      <4>5. AccountsDistinct'
        BY <4>1, <4>3, <4>4, NewAccountDistinct
           DEF StorageInv, AccountsDistinct, TransactionInv, Duplicate
      <4>6. TransactionInv'
        BY <4>1, <4>2, <4>3, <4>4 DEF TransactionInv, InTransaction
      <4> QED
        BY <4>1, <4>2, <4>3, <4>4, <4>5, <4>6 DEF StorageInv,
           NoTransactionLeftOpen, AccountsHaveStats, SignedInv, SignupIsKept
    <3> QED
      BY <3>1, <3>2
  <2>7. ASSUME NEW s \in Session, InsertStats(s) PROVE StorageInv'
    <3>1. CASE GiveUp(s)
      BY <2>7, <3>1, GiveUpStored DEF InsertStats, Locked
    <3>2. CASE ~GiveUp(s)
      <4>1. /\ db' = IF db.stats[args[s].id] = Absent
                       THEN [db EXCEPT !.stats[args[s].id] = NoGames] ELSE db
            /\ Goto(s, "commit") /\ UNCHANGED <<saved, owner, acked, blind, args>>
            /\ owner = s /\ handler[s] = "stats" /\ args[s] \in Account
            /\ owner # Absent
        BY <2>7, <3>2, AccountsAssumption DEF InsertStats, Locked, Goto,
           AccountsAssumption, TypeInv, PacketInv, InTransaction
      <4>2. \A r \in Session : r # s => handler'[r] = handler[r]
                                        /\ handler'[r] \notin InTransaction
        BY <4>1 DEF Goto, TypeInv, TypeOK
      <4>3. /\ handler'[s] = "commit"
            /\ db.users = saved.users \cup {args[s]} /\ db.stats = saved.stats
        BY <4>1 DEF Goto, TypeInv, TypeOK, StorageInv, TransactionInv
      <4>4. /\ db'.users = db.users
            /\ \A i \in Id : db'.stats[i] =
                  IF saved.stats[i] = Absent /\ i = args[s].id
                    THEN NoGames ELSE saved.stats[i]
        BY <4>1, <4>3 DEF TypeInv, TypeOK, Tables, Account
      <4>5. TransactionInv'
        BY <4>1, <4>2, <4>3, <4>4 DEF TransactionInv, InTransaction
      <4> QED
        BY <4>1, <4>2, <4>3, <4>4, <4>5 DEF StorageInv, AccountsDistinct,
           NoTransactionLeftOpen, AccountsHaveStats, SignedInv, SignupIsKept
    <3> QED
      BY <3>1, <3>2
  <2>8. ASSUME NEW s \in Session, Commit(s) PROVE StorageInv'
    <3>1. CASE GiveUp(s)
      BY <2>8, <3>1, GiveUpStored DEF Commit, Locked
    <3>2. CASE ~GiveUp(s)
      <4>1. /\ saved' = db /\ Goto(s, "signed")
            /\ UNCHANGED <<db, acked, blind, args>>
            /\ owner = s /\ handler[s] = "commit" /\ args[s] \in Account
        BY <2>8, <3>2 DEF Commit, Locked, Goto, TypeInv, PacketInv, InTransaction
      <4>2. \A r \in Session : r # s => handler'[r] = handler[r]
                                        /\ handler'[r] \notin InTransaction
        BY <4>1 DEF Goto, TypeInv, TypeOK
      <4>3. /\ handler'[s] = "signed"
            /\ db.users = saved.users \cup {args[s]}
            /\ \A i \in Id : db.stats[i] =
                  IF saved.stats[i] = Absent /\ i = args[s].id
                    THEN NoGames ELSE saved.stats[i]
        BY <4>1 DEF Goto, TypeInv, TypeOK, StorageInv, TransactionInv
      <4>4. AccountsHaveStats'
        <5>1. NoGames # Absent
          BY AccountsAssumption DEF AccountsAssumption, NoGames
        <5> QED
          BY <4>1, <4>3, <5>1 DEF StorageInv, AccountsHaveStats
      <4>5. TransactionInv'
        BY <4>1, <4>2, <4>3 DEF TransactionInv, InTransaction
      <4> QED
        BY <4>1, <4>2, <4>3, <4>4, <4>5 DEF StorageInv, AccountsDistinct,
           NoTransactionLeftOpen, SignedInv, SignupIsKept
    <3> QED
      BY <3>1, <3>2
  <2>9. ASSUME NEW s \in Session, SignupOk(s) PROVE StorageInv'
    <3>1. args[s] \in saved.users
      BY <2>9 DEF SignupOk, StorageInv, SignedInv
    <3>2. \A r \in Session :
             \/ handler'[r] = handler[r] /\ args'[r] = args[r]
             \/ handler'[r] = "idle"
      BY <2>9 DEF SignupOk, Returns, TypeInv, TypeOK
    <3> QED
      BY <2>9, <3>1, <3>2 DEF SignupOk, StorageInv, NoTransactionLeftOpen,
         TransactionInv, AccountsDistinct, AccountsHaveStats, SignedInv,
         SignupIsKept, Duplicate
  <2>10. ASSUME NEW s \in Session, CheckPassword(s) PROVE StorageInv'
    <3>1. \A r \in Session :
             \/ handler'[r] = handler[r] /\ args'[r] = args[r]
             \/ handler'[r] \notin InTransaction \cup {"signed"}
      BY <2>10 DEF CheckPassword, Goto, Returns, TypeInv, TypeOK, InTransaction
    <3> QED
      BY <2>10, <3>1, TablesUntouched DEF CheckPassword
  <2>11. ASSUME NEW s \in Session, LoadUser(s) PROVE StorageInv'
    <3>1. \A r \in Session :
             \/ handler'[r] = handler[r] /\ args'[r] = args[r]
             \/ handler'[r] \notin InTransaction \cup {"signed"}
      BY <2>11 DEF LoadUser, Returns, TypeInv, TypeOK, InTransaction
    <3> QED
      BY <2>11, <3>1, TablesUntouched DEF LoadUser
  <2>12. ASSUME NEW s \in Session, NEW result \in {"wins", "losses"},
                SaveGameResult(s, result)
         PROVE  StorageInv'
    <3>1. PICK a \in db.users :
             a.nick = nickname[s]
             /\ db' = [db EXCEPT !.stats[a.id] = Credit(db.stats[a.id], result)]
      BY <2>12 DEF SaveGameResult
    <3>2. /\ owner = Absent /\ db = saved /\ saved' = db'
          /\ UNCHANGED <<owner, handler, args, acked, blind>>
      BY <2>12 DEF SaveGameResult, StorageInv, NoTransactionLeftOpen
    <3>3. \A r \in Session : handler[r] \notin InTransaction
      BY <3>2, AccountsAssumption DEF TypeInv, TypeOK, AccountsAssumption
    <3>4. a.id \in Id
      BY <3>1 DEF Account, TypeInv, TypeOK, Tables
    <3>5. Credit(db.stats[a.id], result) # Absent
      BY <3>4, CreditTyped, AccountsAssumption
         DEF TypeInv, TypeOK, Tables, AccountsAssumption, Row
    <3>6. saved.stats[a.id] # Absent
      BY <3>1, <3>2, <3>4 DEF StorageInv, AccountsHaveStats
    <3>7. /\ saved'.users = saved.users
          /\ \A i \in Id : saved'.stats[i] # Absent <=> saved.stats[i] # Absent
      BY <3>1, <3>2, <3>4, <3>5, <3>6 DEF TypeInv, TypeOK, Tables
    <3> QED
      BY <3>2, <3>3, <3>7 DEF StorageInv, NoTransactionLeftOpen, TransactionInv,
         AccountsDistinct, AccountsHaveStats, SignedInv, SignupIsKept, InTransaction
  <2>13. ASSUME NEW s \in Session, Leave(s) PROVE StorageInv'
    BY <2>13, TablesUntouched DEF Leave
  <2>14. ASSUME Restart PROVE StorageInv'
    <3>1. \A r \in Session : handler'[r] = "idle"
      BY <2>14 DEF Restart
    <3> QED
      BY <2>14, <3>1, RolledBack DEF Restart, InTransaction
  <2>15. CASE UNCHANGED vars
    BY <2>15, TablesUntouched DEF vars
  <2> QED
    BY <2>1, <2>2, <2>3, <2>4, <2>5, <2>6, <2>7, <2>8, <2>9, <2>10, <2>11, <2>12,
       <2>13, <2>14, <2>15 DEF Next
<1> QED
  BY <1>1, <1>2, TypeInvInductive, PTL DEF Spec

-----------------------------------------------------------------------------
(* Players and their results.                                              *)

\* HandleAuthProtocol only ever runs for a session that is not logged in.
BusyInv == \A s \in Session : handler[s] # "idle" => state[s] = "AUTHENTICATING"

LEMMA BusyInvInductive == Spec => []BusyInv
<1>1. Init => BusyInv
  BY DEF Init, BusyInv
<1>2. TypeInv /\ BusyInv /\ [Next]_vars => BusyInv'
  <2> SUFFICES ASSUME TypeInv, BusyInv, [Next]_vars PROVE BusyInv'
    OBVIOUS
  <2> USE DEF disk, packet, fields, history, BusyInv, TypeInv, TypeOK
  <2>1. ASSUME NEW s \in Session,
               \/ Signup(s) \/ Login(s) \/ EditNick(s) \/ SignupOk(s)
               \/ CheckPassword(s) \/ LoadUser(s) \/ BeginTransaction(s)
        PROVE  BusyInv'
    BY <2>1 DEF Signup, Login, EditNick, SignupOk, CheckPassword, LoadUser,
       BeginTransaction, AwaitsPacket, Receives, Returns, Goto
  <2>2. ASSUME NEW s \in Session,
               CheckDuplicate(s) \/ InsertUser(s) \/ InsertStats(s) \/ Commit(s)
        PROVE  BusyInv'
    BY <2>2 DEF CheckDuplicate, InsertUser, InsertStats, Commit, Locked, GiveUp,
       Returns, Goto
  <2>3. ASSUME NEW s \in Session, NEW result \in {"wins", "losses"},
               SaveGameResult(s, result)
        PROVE  BusyInv'
    BY <2>3 DEF SaveGameResult
  <2>4. CASE (\E s \in Session : Leave(s)) \/ Restart \/ UNCHANGED vars
    BY <2>4 DEF Leave, Restart, vars
  <2> QED
    BY <2>1, <2>2, <2>3, <2>4 DEF Next
<1> QED
  BY <1>1, <1>2, TypeInvInductive, PTL DEF Spec

\* A row after the storing of one more result.
Counted(i) == IF saved.stats[i] = Absent THEN NoGames ELSE saved.stats[i]

\* A sign-up changes no count: its new row holds zeros.
LEMMA CountsKept ==
    ASSUME TypeInv, StorageInv, PlayerInv, UNCHANGED <<blind, earned, state>>,
           UNCHANGED <<nickname, account>>, saved.users \subseteq saved'.users,
           \A i \in Id : saved'.stats[i] = saved.stats[i]
                         \/ (saved.stats[i] = Absent /\ saved'.stats[i] = NoGames)
    PROVE  PlayerInv'
BY DEF PlayerInv, PlayersBearTheirNickname, ResultsReachTheirAccount

\* Who plays under which account, and what the account has earned.
LEMMA PlayerInvInductive == Spec => []PlayerInv
<1>1. ASSUME Init PROVE PlayerInv
  BY <1>1, AccountsAssumption DEF Init, PlayerInv, PlayersBearTheirNickname,
     ResultsReachTheirAccount, AccountsAssumption
<1>2. TypeInv /\ StorageInv /\ BusyInv /\ PlayerInv /\ [Next]_vars => PlayerInv'
  <2> SUFFICES ASSUME TypeInv, StorageInv, BusyInv, PlayerInv, [Next]_vars
               PROVE  PlayerInv'
    OBVIOUS
  <2> USE DEF disk, packet, fields, history
  <2>1. ASSUME NEW s \in Session,
               \/ Signup(s) \/ Login(s) \/ BeginTransaction(s)
               \/ InsertUser(s) \/ InsertStats(s) \/ CheckPassword(s)
        PROVE  PlayerInv'
    BY <2>1, CountsKept DEF Signup, Login, BeginTransaction, InsertUser,
       InsertStats, CheckPassword, GiveUp
  <2>2. ASSUME NEW s \in Session, CheckDuplicate(s) PROVE PlayerInv'
    BY <2>2 DEF CheckDuplicate, GiveUp, PlayerInv, PlayersBearTheirNickname,
       ResultsReachTheirAccount
  <2>3. ASSUME NEW s \in Session, Commit(s) PROVE PlayerInv'
    <3>1. CASE GiveUp(s)
      BY <3>1, CountsKept DEF GiveUp
    <3>2. CASE ~GiveUp(s)
      <4>1. /\ saved' = db /\ handler[s] = "commit"
            /\ UNCHANGED <<blind, earned, state, nickname, account>>
        BY <2>3, <3>2 DEF Commit, Locked
      <4>2. \A i \in Id : saved'.stats[i] = saved.stats[i]
                          \/ (saved.stats[i] = Absent /\ saved'.stats[i] = NoGames)
        BY <4>1 DEF StorageInv, TransactionInv
      <4> QED
        BY <4>1, <4>2, CountsKept DEF StorageInv
    <3> QED
      BY <3>1, <3>2
  <2>4. ASSUME NEW s \in Session, EditNick(s) \/ SignupOk(s) PROVE PlayerInv'
    <3>1. state[s] = "AUTHENTICATING"
      BY <2>4 DEF EditNick, SignupOk, AwaitsPacket, BusyInv
    <3>2. \A r \in Session : r # s => nickname'[r] = nickname[r]
      BY <2>4 DEF EditNick, SignupOk, TypeInv, TypeOK
    <3> QED
      BY <2>4, <3>1, <3>2 DEF EditNick, SignupOk, PlayerInv,
         PlayersBearTheirNickname, ResultsReachTheirAccount
  <2>5. ASSUME NEW s \in Session, LoadUser(s) PROVE PlayerInv'
    <3>1. db = saved /\ UNCHANGED <<saved, blind, earned>>
      BY <2>5 DEF LoadUser, StorageInv, NoTransactionLeftOpen
    <3>2. PlayersBearTheirNickname'
      <4>1. ASSUME NEW a \in db.users, account' = [account EXCEPT ![s] = a.id],
                   nickname' = [nickname EXCEPT ![s] = a.nick],
                   state' = [state EXCEPT ![s] = "IN_LOBBY"]
            PROVE  PlayersBearTheirNickname'
        BY <3>1, <4>1 DEF PlayerInv, PlayersBearTheirNickname, TypeInv, TypeOK
      <4>2. CASE UNCHANGED fields
        BY <3>1, <4>2 DEF PlayerInv, PlayersBearTheirNickname
      <4> QED
        BY <2>5, <4>1, <4>2 DEF LoadUser
    <3> QED
      BY <3>1, <3>2 DEF PlayerInv, ResultsReachTheirAccount
  <2>6. ASSUME NEW s \in Session, NEW result \in {"wins", "losses"},
               SaveGameResult(s, result)
        PROVE  PlayerInv'
    <3>1. PICK a \in db.users :
             a.nick = nickname[s]
             /\ db' = [db EXCEPT !.stats[a.id] = Credit(db.stats[a.id], result)]
      BY <2>6 DEF SaveGameResult
    <3>2. /\ state[s] = "IN_LOBBY" /\ db = saved /\ saved' = db'
          /\ earned' = [earned EXCEPT ![account[s]][result] = @ + 1]
          /\ UNCHANGED <<blind, state, nickname, account>>
      BY <2>6 DEF SaveGameResult, Earns, StorageInv, NoTransactionLeftOpen
    <3>3. a.id \in Id /\ saved'.users = saved.users
      BY <3>1, <3>2 DEF Account, TypeInv, TypeOK, Tables
    <3>4. ResultsReachTheirAccount'
      <4> SUFFICES ASSUME ~blind, NEW i \in Id
                   PROVE  earned'[i] = Counted(i)'
        BY <3>2 DEF ResultsReachTheirAccount, Counted
      <4>1. account[s] = a.id
        BY <3>1, <3>2 DEF PlayerInv, PlayersBearTheirNickname, StorageInv,
           AccountsDistinct
      <4>2. earned[i] = Counted(i) /\ earned[a.id] = Counted(a.id)
        BY <3>3 DEF PlayerInv, ResultsReachTheirAccount, Counted
      <4>3. saved.stats[a.id] # Absent
        BY <3>1, <3>2, <3>3 DEF StorageInv, AccountsHaveStats
      <4>4. saved'.stats =
              [saved.stats EXCEPT ![a.id] = Credit(saved.stats[a.id], result)]
        BY <3>1, <3>2 DEF TypeInv, TypeOK, Tables
      <4>5. \A r \in Id : r # a.id => saved'.stats[r] = saved.stats[r]
        BY <4>4 DEF TypeInv, TypeOK, Tables
      <4>6. CASE i = a.id
        <5>1. saved'.stats[i] = [saved.stats[i] EXCEPT ![result] = @ + 1]
          BY <3>1, <3>2, <3>3, <4>3, <4>6 DEF Credit, TypeInv, TypeOK, Tables
        <5>2. saved'.stats[i] # Absent
          <6>1. Credit(db.stats[a.id], result) \in Row
            BY <3>3, CreditTyped DEF TypeInv, TypeOK, Tables
          <6> QED
            BY <3>1, <3>2, <3>3, <4>6, <6>1, AccountsAssumption
               DEF AccountsAssumption, Row, TypeInv, TypeOK, Tables
        <5>3. earned'[i] = [earned[i] EXCEPT ![result] = @ + 1]
          BY <3>2, <4>1, <4>6 DEF TypeInv, TypeOK
        <5> QED
          BY <4>2, <4>3, <4>6, <5>1, <5>2, <5>3 DEF Counted
      <4>7. CASE i # a.id
        BY <3>1, <3>2, <3>3, <4>1, <4>2, <4>7
           DEF Counted, TypeInv, TypeOK, Tables
      <4> QED
        BY <4>6, <4>7
    <3> QED
      BY <3>2, <3>3, <3>4 DEF PlayerInv, PlayersBearTheirNickname
  <2>7. ASSUME NEW s \in Session, Leave(s) PROVE PlayerInv'
    BY <2>7 DEF Leave, PlayerInv, PlayersBearTheirNickname,
       ResultsReachTheirAccount, TypeInv, TypeOK
  <2>8. ASSUME Restart PROVE PlayerInv'
    BY <2>8 DEF Restart, PlayerInv, PlayersBearTheirNickname, ResultsReachTheirAccount
  <2>9. CASE UNCHANGED vars
    BY <2>9 DEF vars, PlayerInv, PlayersBearTheirNickname, ResultsReachTheirAccount
  <2> QED
    BY <2>1, <2>2, <2>3, <2>4, <2>5, <2>6, <2>7, <2>8, <2>9 DEF Next
<1> QED
  BY <1>1, <1>2, TypeInvInductive, StorageInvInductive, BusyInvInductive, PTL DEF Spec

-----------------------------------------------------------------------------
(* What a client sees: Accounts implements AccountRules.                   *)

\* The check of a sign-up that is under way still holds of what is stored.
FreshInv == \A s \in Session :
    handler[s] \in {"stats", "commit"} /\ ~blind =>
        ~\E a \in saved.users : a.id = args[s].id \/ a.nick = args[s].nick

\* A worker that does not hold the mutex cannot spoil the check of the one
\* that does.
LEMMA FreshInvInductive == Spec => []FreshInv
<1>1. Init => FreshInv
  BY DEF Init, FreshInv
<1>2. TypeInv /\ StorageInv /\ FreshInv /\ [Next]_vars => FreshInv'
  <2> SUFFICES ASSUME TypeInv, StorageInv, FreshInv, [Next]_vars PROVE FreshInv'
    OBVIOUS
  <2> USE DEF disk, packet, fields, history
  <2>1. ASSUME NEW s \in Session,
               \/ Signup(s) \/ Login(s) \/ EditNick(s) \/ SignupOk(s)
               \/ CheckPassword(s) \/ LoadUser(s) \/ BeginTransaction(s)
        PROVE  FreshInv'
    BY <2>1 DEF FreshInv, TypeInv, TypeOK, Signup, Login, EditNick, SignupOk,
       CheckPassword, LoadUser, BeginTransaction, Receives, Returns, Goto
  <2>2. ASSUME NEW s \in Session, CheckDuplicate(s) PROVE FreshInv'
    <3>1. \A r \in Session : r # s => handler[r] \notin {"stats", "commit"}
      BY <2>2, AccountsAssumption DEF CheckDuplicate, Locked, TypeInv, TypeOK,
         InTransaction, AccountsAssumption
    <3> QED
      BY <2>2, <3>1 DEF CheckDuplicate, GiveUp, Returns, Goto, FreshInv, TypeInv, TypeOK
  <2>3. ASSUME NEW s \in Session, InsertUser(s) PROVE FreshInv'
    BY <2>3 DEF InsertUser, Locked, GiveUp, Returns, Goto, FreshInv, TypeInv, TypeOK,
       StorageInv, TransactionInv, Duplicate
  <2>4. ASSUME NEW s \in Session, InsertStats(s) PROVE FreshInv'
    BY <2>4 DEF InsertStats, Locked, GiveUp, Returns, Goto, FreshInv, TypeInv, TypeOK
  <2>5. ASSUME NEW s \in Session, Commit(s) PROVE FreshInv'
    <3>1. \A r \in Session : r # s => handler[r] \notin {"stats", "commit"}
      BY <2>5, AccountsAssumption DEF Commit, Locked, TypeInv, TypeOK,
         InTransaction, AccountsAssumption
    <3> QED
      BY <2>5, <3>1 DEF Commit, GiveUp, Returns, Goto, FreshInv, TypeInv, TypeOK
  <2>6. ASSUME NEW s \in Session, NEW result \in {"wins", "losses"},
               SaveGameResult(s, result)
        PROVE  FreshInv'
    <3>1. \A r \in Session : handler[r] \notin {"stats", "commit"}
      BY <2>6, AccountsAssumption DEF SaveGameResult, TypeInv, TypeOK,
         InTransaction, AccountsAssumption
    <3> QED
      BY <2>6, <3>1 DEF SaveGameResult, FreshInv
  <2>7. CASE (\E s \in Session : Leave(s)) \/ Restart \/ UNCHANGED vars
    BY <2>7 DEF Leave, Restart, vars, FreshInv
  <2> QED
    BY <2>1, <2>2, <2>3, <2>4, <2>5, <2>6, <2>7 DEF Next
<1> QED
  BY <1>1, <1>2, TypeInvInductive, StorageInvInductive, PTL DEF Spec

\* A handler that is not at a committed sign-up, before or after the step,
\* shows the client nothing.
LEMMA UnansweredKept ==
    ASSUME \A r \in Session :
              \/ handler'[r] = handler[r] /\ args'[r] = args[r]
              \/ handler[r] # "signed" /\ handler'[r] # "signed"
    PROVE  Unanswered' = Unanswered
BY DEF Unanswered

\* Giving up is invisible: the tables that are saved are what they were.
LEMMA GiveUpUnseen ==
    ASSUME TypeInv, NEW s \in Session, handler[s] # "signed", GiveUp(s)
    PROVE  UNCHANGED Rules!vars
<1>1. \A r \in Session :
         \/ handler'[r] = handler[r] /\ args'[r] = args[r]
         \/ handler[r] # "signed" /\ handler'[r] # "signed"
  BY DEF GiveUp, Returns, TypeInv, TypeOK
<1> QED
  BY <1>1, UnansweredKept DEF GiveUp, Rules!vars, Rules!fields, fields, history

\* Each step is one of the rules, or is not seen.
LEMMA StepFollowsRules ==
    ASSUME TypeInv, StorageInv, BusyInv, FreshInv, [Next]_vars
    PROVE  [Rules!Next]_(Rules!vars)
<1> USE DEF disk, packet, fields, history, Rules!vars, Rules!fields
<1> DEFINE Quiet == \A r \in Session :
              \/ handler'[r] = handler[r] /\ args'[r] = args[r]
              \/ handler[r] # "signed" /\ handler'[r] # "signed"
<1>0. \A r \in Session :
         /\ handler[r] # "signed" => Unanswered[r] = Rules!None
         /\ handler[r] = "signed" => Unanswered[r] = args[r]
  BY DEF Unanswered, NoArgs, Rules!None
<1>1. ASSUME NEW s \in Session,
             Signup(s) \/ Login(s) \/ BeginTransaction(s) \/ CheckPassword(s)
      PROVE  UNCHANGED Rules!vars
  <2>1. Quiet
    BY <1>1 DEF Signup, Login, BeginTransaction, CheckPassword, AwaitsPacket,
       Receives, Returns, Goto, TypeInv, TypeOK
  <2> QED
    BY <1>1, <2>1, UnansweredKept DEF Signup, Login, BeginTransaction, CheckPassword
<1>2. ASSUME NEW s \in Session, EditNick(s) PROVE Rules!Next
  <2>1. Unanswered' = Unanswered
    BY <1>2, UnansweredKept DEF EditNick
  <2>2. Rules!EditNick(s)
    BY <1>0, <1>2, <2>1 DEF EditNick, AwaitsPacket, Rules!EditNick, Rules!Unknown
  <2> QED
    BY <2>2 DEF Rules!Next
<1>3. ASSUME NEW s \in Session, CheckDuplicate(s) PROVE [Rules!Next]_(Rules!vars)
  <2>1. CASE GiveUp(s)
    BY <1>3, <2>1, GiveUpUnseen DEF CheckDuplicate, Locked
  <2>2. CASE ~GiveUp(s)
    <3>1. /\ UNCHANGED <<db, saved, owner, state, nickname, account>>
          /\ blind' = blind \/ blind' = TRUE
          /\ Goto(s, "user") /\ handler[s] = "check"
      BY <1>3, <2>2 DEF CheckDuplicate, Locked
    <3>2. Unanswered' = Unanswered
      BY <3>1, UnansweredKept DEF Goto, TypeInv, TypeOK
    <3> QED
      BY <3>1, <3>2 DEF Rules!Next, Rules!CheckFails
  <2> QED
    BY <2>1, <2>2
<1>4. ASSUME NEW s \in Session, InsertUser(s) \/ InsertStats(s)
      PROVE  UNCHANGED Rules!vars
  <2>1. CASE GiveUp(s)
    BY <1>4, <2>1, GiveUpUnseen DEF InsertUser, InsertStats, Locked
  <2>2. CASE ~GiveUp(s)
    <3>1. Quiet
      BY <1>4, <2>2 DEF InsertUser, InsertStats, Locked, Goto, TypeInv, TypeOK
    <3> QED
      BY <1>4, <2>2, <3>1, UnansweredKept DEF InsertUser, InsertStats
  <2> QED
    BY <2>1, <2>2
<1>5. ASSUME NEW s \in Session, Commit(s) PROVE [Rules!Next]_(Rules!vars)
  <2>1. CASE GiveUp(s)
    BY <1>5, <2>1, GiveUpUnseen DEF Commit, Locked
  <2>2. CASE ~GiveUp(s)
    <3>1. /\ handler[s] = "commit" /\ saved' = db /\ Goto(s, "signed")
          /\ UNCHANGED <<state, nickname, account, blind>>
      BY <1>5, <2>2 DEF Commit, Locked
    <3>2. args[s] \in Rules!Account /\ state[s] = "AUTHENTICATING"
      BY <3>1 DEF TypeInv, PacketInv, InTransaction, Account, Rules!Account, BusyInv
    <3>3. saved'.users = saved.users \cup {args[s]}
      BY <3>1 DEF StorageInv, TransactionInv
    <3>4. Unanswered' = [Unanswered EXCEPT ![s] = args[s]]
      BY <3>1 DEF Goto, Unanswered, TypeInv, TypeOK
    <3>5. blind \/ \A b \in saved.users : ~Rules!SharesName(args[s], b)
      BY <3>1 DEF FreshInv, Rules!SharesName
    <3>6. Rules!SignUp(s, args[s])
      BY <1>0, <3>1, <3>2, <3>3, <3>4, <3>5 DEF Rules!SignUp, Rules!Unknown
    <3> QED
      BY <3>2, <3>6 DEF Rules!Next
  <2> QED
    BY <2>1, <2>2
<1>6. ASSUME NEW s \in Session, SignupOk(s) PROVE Rules!Next
  <2>1. args[s] \in Account /\ args[s] # NoArgs
    BY <1>6, AccountsAssumption
       DEF SignupOk, TypeInv, PacketInv, Account, NoArgs, AccountsAssumption
  <2>2. Unanswered' = [Unanswered EXCEPT ![s] = Rules!None]
    BY <1>6 DEF SignupOk, Returns, Unanswered, NoArgs, Rules!None, TypeInv, TypeOK
  <2>3. Rules!AnswerSignUp(s)
    BY <1>0, <1>6, <2>1, <2>2 DEF SignupOk, Rules!AnswerSignUp, Rules!None, NoArgs
  <2> QED
    BY <2>3 DEF Rules!Next
<1>7. ASSUME NEW s \in Session, LoadUser(s) PROVE [Rules!Next]_(Rules!vars)
  <2>1. Quiet
    BY <1>7 DEF LoadUser, Returns, TypeInv, TypeOK
  <2>2. db = saved /\ state[s] = "AUTHENTICATING" /\ handler[s] = "load"
    BY <1>7 DEF LoadUser, StorageInv, NoTransactionLeftOpen, BusyInv
  <2>3. ASSUME NEW a \in db.users, account' = [account EXCEPT ![s] = a.id],
               nickname' = [nickname EXCEPT ![s] = a.nick],
               state' = [state EXCEPT ![s] = "IN_LOBBY"]
        PROVE  Rules!Next
    <3>1. Rules!LogIn(s, a)
      BY <1>0, <1>7, <2>1, <2>2, <2>3, UnansweredKept
         DEF LoadUser, Rules!LogIn, Rules!Unknown
    <3> QED
      BY <2>2, <3>1 DEF Rules!Next
  <2>4. CASE UNCHANGED fields
    BY <1>7, <2>1, <2>4, UnansweredKept DEF LoadUser
  <2> QED
    BY <1>7, <2>3, <2>4 DEF LoadUser
<1>8. ASSUME NEW s \in Session, NEW result \in {"wins", "losses"},
             SaveGameResult(s, result)
      PROVE  UNCHANGED Rules!vars
  <2>1. db = saved /\ saved' = db'
    BY <1>8 DEF SaveGameResult, StorageInv, NoTransactionLeftOpen
  <2>2. db'.users = db.users
    BY <1>8 DEF SaveGameResult, TypeInv, TypeOK, Tables
  <2>3. Unanswered' = Unanswered
    BY <1>8, UnansweredKept DEF SaveGameResult
  <2> QED
    BY <1>8, <2>1, <2>2, <2>3 DEF SaveGameResult
<1>9. ASSUME NEW s \in Session, Leave(s) PROVE Rules!Next
  <2>1. Unanswered' = Unanswered
    BY <1>9, UnansweredKept DEF Leave
  <2>2. Rules!Leave(s)
    BY <1>0, <1>9, <2>1 DEF Leave, Rules!Leave
  <2> QED
    BY <2>2 DEF Rules!Next
<1>10. ASSUME Restart PROVE Rules!Next
  <2>1. Unanswered' = [s \in Session |-> Rules!None]
    BY <1>10 DEF Restart, Unanswered, NoArgs, Rules!None
  <2> QED
    BY <1>10, <2>1 DEF Restart, Rules!Restart, Rules!Next
<1>11. CASE UNCHANGED vars
  BY <1>11, UnansweredKept DEF vars
<1> QED
  BY <1>1, <1>2, <1>3, <1>4, <1>5, <1>6, <1>7, <1>8, <1>9, <1>10, <1>11 DEF Next

-----------------------------------------------------------------------------
(* The results.                                                            *)

\* The tables, the packets and the sessions keep their types, and dbMutex_
\* is held exactly by the worker that is inside SignupUser.
THEOREM AccountsTypeCorrect == Spec => []TypeOK
BY TypeInvInductive, PTL DEF TypeInv

\* No failed statement of a sign-up leaves its transaction open.
THEOREM TransactionsEnd == Spec => []NoTransactionLeftOpen
BY StorageInvInductive, PTL DEF StorageInv

\* While no duplicate check has failed, no two accounts share a name.
THEOREM AccountsStayDistinct == Spec => []AccountsDistinct
BY StorageInvInductive, PTL DEF StorageInv

\* Sign-ups are atomic across failures and restarts.
THEOREM SignupsAtomic == Spec => []AccountsHaveStats
BY StorageInvInductive, PTL DEF StorageInv

\* An acknowledged sign-up is never lost.
THEOREM SignupsDurable == Spec => []SignupIsKept
BY StorageInvInductive, PTL DEF StorageInv

\* A player's nickname is that of his account.
THEOREM PlayersNamed == Spec => []PlayersBearTheirNickname
BY PlayerInvInductive, PTL DEF PlayerInv

\* SaveGameResult, which knows only a nickname, credits the right account,
\* and neither failed sign-ups nor restarts take a result away.
THEOREM ResultsCredited == Spec => []ResultsReachTheirAccount
BY PlayerInvInductive, PTL DEF PlayerInv

\* With all its statements, failures and restarts a sign-up is one step for
\* the clients, a login finds what is stored, and a restart takes nothing away.
THEOREM RefinesAccountRules == Spec => AccountRulesSpec
<1>1. Init => Rules!Init
  BY DEF Init, Rules!Init, Rules!Account, Rules!Distinct, Rules!None, Unanswered, NoArgs
<1> QED
  BY <1>1, StepFollowsRules, TypeInvInductive, StorageInvInductive, BusyInvInductive,
     FreshInvInductive, PTL DEF Spec, AccountRulesSpec, Rules!Spec

=============================================================================
