---------------------------- MODULE AccountRules ----------------------------
(***************************************************************************)
(* What DatabaseManager and HandleAuthProtocol promise to a client: a      *)
(* sign-up takes effect in one step or not at all, is answered after that, *)
(* and its account is there for every later login, also after a restart.   *)
(* Accounts implements this with statements, a mutex and rollbacks.        *)
(***************************************************************************)
CONSTANTS Session, Id, Nick, Absent

VARIABLES
    accounts,      \* the accounts that are stored
    unanswered,    \* the account of a sign-up whose answer is still to come
    state,         \* currentState_
    nickname,      \* username_
    account,       \* userInfo_.id, once logged in
    blind          \* a duplicate check failed and passed for none

fields == <<state, nickname, account>>
vars == <<accounts, unanswered, fields, blind>>

Account == [id : Id, nick : Nick]
None == [id |-> Absent, nick |-> Absent]

SharesName(a, b) == a.id = b.id \/ a.nick = b.nick
Distinct(A) == \A a, b \in A : SharesName(a, b) => a = b

\* The file of an earlier run is there.
Init ==
    /\ accounts \in SUBSET Account /\ Distinct(accounts)
    /\ unanswered = [s \in Session |-> None]
    /\ state = [s \in Session |-> "AUTHENTICATING"]
    /\ nickname = [s \in Session |-> Absent]
    /\ account = [s \in Session |-> Absent]
    /\ blind = FALSE

Unknown(s) == state[s] = "AUTHENTICATING" /\ unanswered[s] = None

CheckFails ==
    /\ blind' = TRUE
    /\ UNCHANGED <<accounts, unanswered, fields>>

SignUp(s, a) ==
    /\ Unknown(s)
    /\ blind \/ \A b \in accounts : ~SharesName(a, b)
    /\ accounts' = accounts \cup {a}
    /\ unanswered' = [unanswered EXCEPT ![s] = a]
    /\ UNCHANGED <<fields, blind>>

AnswerSignUp(s) ==
    /\ unanswered[s] # None
    /\ nickname' = [nickname EXCEPT ![s] = unanswered[s].nick]
    /\ unanswered' = [unanswered EXCEPT ![s] = None]
    /\ UNCHANGED <<accounts, state, account, blind>>

EditNick(s) ==
    /\ Unknown(s)
    /\ \E n \in Nick : nickname' = [nickname EXCEPT ![s] = n]
    /\ UNCHANGED <<accounts, unanswered, state, account, blind>>

LogIn(s, a) ==
    /\ Unknown(s)
    /\ state' = [state EXCEPT ![s] = "IN_LOBBY"]
    /\ nickname' = [nickname EXCEPT ![s] = a.nick]
    /\ account' = [account EXCEPT ![s] = a.id]
    /\ UNCHANGED <<accounts, unanswered, blind>>

Leave(s) ==
    /\ unanswered[s] = None
    /\ state' = [state EXCEPT ![s] = "AUTHENTICATING"]
    /\ nickname' = [nickname EXCEPT ![s] = Absent]
    /\ account' = [account EXCEPT ![s] = Absent]
    /\ UNCHANGED <<accounts, unanswered, blind>>

\* What was stored stays, answered or not.
Restart ==
    /\ unanswered' = [s \in Session |-> None]
    /\ state' = [s \in Session |-> "AUTHENTICATING"]
    /\ nickname' = [s \in Session |-> Absent]
    /\ account' = [s \in Session |-> Absent]
    /\ UNCHANGED <<accounts, blind>>

Next ==
    \/ \E s \in Session :
          \/ \E a \in Account : SignUp(s, a)
          \/ \E a \in accounts : LogIn(s, a)
          \/ AnswerSignUp(s) \/ EditNick(s) \/ Leave(s)
    \/ CheckFails \/ Restart

Spec == Init /\ [][Next]_vars
=============================================================================
