---------------------------- MODULE ServerNetwork ----------------------------
(***************************************************************************)
(* The threads of the server: main, the console handler, the accept thread *)
(* and the worker threads of NetworkManager around one completion port,    *)
(* and the receives and sends that sessions post to it.  An action is what *)
(* one thread does up to the next point where another may notice.          *)
(*                                                                         *)
(* What the handler of a packet does is left open here; LoginSystem gives  *)
(* it.  The creation threads of rooms, which Stop does not wait for, are   *)
(* left to Matchmaking.  A definition named after another with a twist     *)
(* stands before the one it replaces in a mutation run.                    *)
(***************************************************************************)
EXTENDS Integers, Sequences

CONSTANTS
    Session,     \* connections
    workerThreadCount,
    NoSession,
    MaxSends     \* bound: sends of a session that fail

Worker == 1 .. workerThreadCount

ASSUME NetworkAssumption ==
    /\ NoSession \notin Session
    /\ workerThreadCount \in Nat /\ MaxSends \in Nat

VARIABLES
    main,        \* where the main thread is
    stop,        \* where IOCPServer::Stop is
    event,       \* g_shutdownEvent
    serving,     \* isRunning of IOCPServer
    running,     \* isRunning_ of NetworkManager
    listening,   \* listenSocket_ is open
    acceptor,    \* where the accept thread is
    link,        \* how far a connection has come
    table,       \* the sessions in sessions_
    doomed,      \* the copy of it that DisconnectAll goes through
    closed,      \* isClosed_
    posted,      \* receives that the system has not completed
    failing,     \* sends that will fail; the others change nothing
    port,        \* the completion port
    worker,      \* where every worker is
    work         \* the completion it deals with

control == <<main, stop, event, serving, running, listening>>
sessionVars == <<link, table, doomed, closed>>
io == <<posted, failing, port>>
workers == <<worker, work>>
netVars == <<control, acceptor, sessionVars, io, workers>>

\* A receive brings data, or it fails or ends the connection.
Result == {"data", "none"}
Recv(s, result) == [op |-> "RECV", of |-> s, result |-> result]
FailedSend(s) == [op |-> "SEND", of |-> s, result |-> "none"]
Quit == [op |-> "QUIT", of |-> NoSession, result |-> "data"]
NoWork == [op |-> "NONE", of |-> NoSession, result |-> "data"]

Completion ==
    [op : {"RECV", "SEND"}, of : Session, result : Result] \cup {Quit, NoWork}

NetInit ==
    /\ main = "begin" /\ stop = "none"
    /\ event = FALSE /\ serving = FALSE /\ running = FALSE
    /\ listening = FALSE /\ acceptor = "none"
    /\ link = [s \in Session |-> "none"]
    /\ table = {} /\ doomed = {} /\ closed = {}
    /\ posted = [s \in Session |-> 0]
    /\ failing = [s \in Session |-> 0]
    /\ port = <<>>
    /\ worker = [w \in Worker |-> "none"]
    /\ work = [w \in Worker |-> NoWork]

\* Session::Close: a second call does nothing.  The memory is looked at
\* nowhere in this model.
Close(s) ==
    /\ closed' = closed \cup {s}
    /\ table' = table \ {s}
    /\ UNCHANGED <<link, doomed>>

-----------------------------------------------------------------------------
(* main, up to the event it waits for.                                     *)

CreateListenSocket ==
    /\ main = "begin"
    /\ \/ main' = "bound" /\ listening' = TRUE
       \/ main' = "exited" /\ UNCHANGED listening
    /\ UNCHANGED <<stop, event, serving, running, acceptor, sessionVars, io,
                   workers>>

\* The workers run before isRunning_ is set.
CreateWorkerThreads ==
    /\ main = "bound"
    /\ main' = "workers"
    /\ worker' = [w \in Worker |-> "check"]
    /\ UNCHANGED <<stop, event, serving, running, listening, acceptor,
                   sessionVars, io, work>>

\* A worker that tests it before is done; the others pass the test.
TooEarly(w) ==
    /\ worker[w] = "check"
    /\ worker' = [worker EXCEPT ![w] = "done"]
    /\ UNCHANGED <<control, acceptor, sessionVars, io, work>>

InitializeReturns ==
    /\ main = "workers"
    /\ main' = "initialized" /\ running' = TRUE
    /\ worker' = [w \in Worker |-> IF worker[w] = "check" THEN "wait" ELSE worker[w]]
    /\ UNCHANGED <<stop, event, serving, listening, acceptor, sessionVars, io,
                   work>>

Start ==
    /\ main = "initialized"
    /\ main' = "starting" /\ serving' = TRUE
    /\ UNCHANGED <<stop, event, running, listening, acceptor, sessionVars, io,
                   workers>>

StartAccept ==
    /\ main = "starting"
    /\ main' = "waiting" /\ acceptor' = "check"
    /\ UNCHANGED <<stop, event, serving, running, listening, sessionVars, io,
                   workers>>

-----------------------------------------------------------------------------
(* Stop, run by the console handler or by the destructor of IOCPServer:    *)
(* whoever finds isRunning set.                                            *)

BeginStop == stop' = "shutdown" /\ serving' = FALSE

\* ConsoleHandler: a Stop that has nothing to do returns at once.
CtrlC ==
    /\ main # "exited"
    /\ IF serving THEN BeginStop /\ UNCHANGED event
       ELSE event' = TRUE /\ UNCHANGED <<stop, serving>>
    /\ UNCHANGED <<main, running, listening, acceptor, sessionVars, io, workers>>

Shutdown ==
    /\ stop = "shutdown"
    /\ stop' = "disconnect" /\ running' = FALSE /\ listening' = FALSE
    /\ UNCHANGED <<main, event, serving, acceptor, sessionVars, io, workers>>

DisconnectAll ==
    /\ stop = "disconnect"
    /\ stop' = "close" /\ doomed' = table /\ table' = {}
    /\ UNCHANGED <<main, event, serving, running, listening, acceptor, link,
                   closed, io, workers>>

CloseDoomed(s) ==
    /\ stop = "close" /\ s \in doomed
    /\ doomed' = doomed \ {s} /\ closed' = closed \cup {s}
    /\ UNCHANGED <<control, acceptor, link, table, io, workers>>

StopReturns ==
    /\ stop = "close" /\ doomed = {}
    /\ stop' = "done" /\ event' = TRUE
    /\ UNCHANGED <<main, serving, running, listening, acceptor, sessionVars, io,
                   workers>>

-----------------------------------------------------------------------------
(* main, from the event to the end of the process.                         *)

\* The destructor of IOCPServer calls Stop, too.  After a second Ctrl+C it
\* finds the first one's Stop still under way and does not wait for it.
MainWakes ==
    /\ main = "waiting" /\ event
    /\ IF serving THEN main' = "stopping" /\ BeginStop
       ELSE main' = "dropping" /\ UNCHANGED <<stop, serving>>
    /\ UNCHANGED <<event, running, listening, acceptor, sessionVars, io, workers>>

MainStopped ==
    /\ main = "stopping" /\ stop = "done"
    /\ main' = "dropping"
    /\ UNCHANGED <<stop, event, serving, running, listening, acceptor,
                   sessionVars, io, workers>>

\* sessionManager_ goes first, and disconnects all once more; in one step,
\* because Stop shows the steps.  Then the destructor of NetworkManager.
DropSessions ==
    /\ main = "dropping"
    /\ main' = "joinAccept" /\ running' = FALSE
    /\ table' = {} /\ closed' = closed \cup table
    /\ UNCHANGED <<stop, event, serving, listening, acceptor, link, doomed, io,
                   workers>>

JoinAcceptOneQuitShort ==
    /\ main = "joinAccept" /\ acceptor \in {"none", "done"}
    /\ main' = "joinWorkers"
    /\ port' = port \o [k \in 1 .. workerThreadCount - 1 |-> Quit]
    /\ UNCHANGED <<stop, event, serving, running, listening, acceptor,
                   sessionVars, posted, failing, workers>>

\* One packet without a session for every worker.
JoinAccept ==
    /\ main = "joinAccept" /\ acceptor \in {"none", "done"}
    /\ main' = "joinWorkers"
    /\ port' = port \o [w \in Worker |-> Quit]
    /\ UNCHANGED <<stop, event, serving, running, listening, acceptor,
                   sessionVars, posted, failing, workers>>

\* The process ends, and with it every socket.
JoinWorkers ==
    /\ main = "joinWorkers" /\ \A w \in Worker : worker[w] = "done"
    /\ main' = "exited" /\ listening' = FALSE
    /\ closed' = Session /\ table' = {}
    /\ UNCHANGED <<stop, event, serving, running, acceptor, link, doomed, io,
                   workers>>

\* Undefined behaviour: a thread that is still at work calls the
\* SessionManager that main has destroyed.  The process may end here.
Crashes ==
    /\ main \in {"joinAccept", "joinWorkers"}
    /\ \/ acceptor \in {"handle", "first"}
       \/ \E w \in Worker : worker[w] \in {"busy", "handled"}
    /\ main' = "exited" /\ listening' = FALSE
    /\ closed' = Session /\ table' = {}
    /\ UNCHANGED <<stop, event, serving, running, acceptor, link, doomed, io,
                   workers>>

-----------------------------------------------------------------------------
(* The accept thread.                                                      *)

Up == main # "exited"

\* A connection waits in the backlog of the listening socket.
ClientConnects(s) ==
    /\ listening /\ link[s] = "none"
    /\ link' = [link EXCEPT ![s] = "backlog"]
    /\ UNCHANGED <<control, acceptor, table, doomed, closed, io, workers>>

AcceptChecks ==
    /\ Up /\ acceptor = "check"
    /\ acceptor' = IF running THEN "accept" ELSE "done"
    /\ UNCHANGED <<control, sessionVars, io, workers>>

Accept(s) ==
    /\ Up /\ acceptor = "accept" /\ listening /\ link[s] = "backlog"
    /\ link' = [link EXCEPT ![s] = "accepted"]
    /\ acceptor' = "handle"
    /\ UNCHANGED <<control, table, doomed, closed, io, workers>>

AcceptFails ==
    /\ Up /\ acceptor = "accept" /\ ~listening
    /\ acceptor' = "check"
    /\ UNCHANGED <<control, sessionVars, io, workers>>

\* The port does not take the socket.
AssociateFails(s) ==
    /\ Up /\ acceptor = "handle" /\ link[s] = "accepted"
    /\ acceptor' = "check"
    /\ Close(s)
    /\ UNCHANGED <<control, io, workers>>

AddSession(s) ==
    /\ Up /\ acceptor = "handle" /\ link[s] = "accepted" /\ s \notin closed
    /\ link' = [link EXCEPT ![s] = "registered"]
    /\ table' = table \cup {s}
    /\ acceptor' = "first"
    /\ UNCHANGED <<control, doomed, closed, io, workers>>

\* PostRecv: a closed session has no socket to receive from.
PostRecv(s) == s \notin closed /\ posted' = [posted EXCEPT ![s] = @ + 1]

FirstReceive(s) ==
    /\ Up /\ acceptor = "first" /\ link[s] = "registered"
    /\ acceptor' = "check"
    /\ link' = [link EXCEPT ![s] = "served"]
    /\ \/ PostRecv(s) /\ UNCHANGED <<table, closed>>
       \/ UNCHANGED posted /\ closed' = closed \cup {s} /\ table' = table \ {s}
    /\ UNCHANGED <<control, doomed, failing, port, workers>>

-----------------------------------------------------------------------------
(* The system completes receives and sends.                                *)

\* The receives of a closed socket are aborted.
ReceiveCompletes(s, result) ==
    /\ Up /\ posted[s] > 0
    /\ s \in closed => result = "none"
    /\ posted' = [posted EXCEPT ![s] = @ - 1]
    /\ port' = Append(port, Recv(s, result))
    /\ UNCHANGED <<control, acceptor, sessionVars, failing, workers>>

SendFails(s) ==
    /\ Up /\ failing[s] > 0
    /\ failing' = [failing EXCEPT ![s] = @ - 1]
    /\ port' = Append(port, FailedSend(s))
    /\ UNCHANGED <<control, acceptor, sessionVars, posted, workers>>

\* PostSend.  bound: none fails while the port holds one that did.
PostSend(s) ==
    \/ UNCHANGED failing
    \/ /\ s \notin closed /\ failing[s] < MaxSends
       /\ \A i \in DOMAIN port : port[i] # FailedSend(s)
       /\ failing' = [failing EXCEPT ![s] = @ + 1]

-----------------------------------------------------------------------------
(* The workers.                                                            *)

GetQueuedCompletionStatus(w) ==
    /\ Up /\ worker[w] = "wait" /\ port # <<>>
    /\ worker' = [worker EXCEPT ![w] = "busy"]
    /\ work' = [work EXCEPT ![w] = Head(port)]
    /\ port' = Tail(port)
    /\ UNCHANGED <<control, acceptor, sessionVars, posted, failing>>

Busy(w, op, result) ==
    Up /\ worker[w] = "busy" /\ work[w].op = op /\ work[w].result = result

\* The end of the loop, and its test.
LoopsOn(w) ==
    /\ worker' = [worker EXCEPT ![w] = IF running THEN "wait" ELSE "done"]
    /\ work' = [work EXCEPT ![w] = NoWork]

\* The packet from the destructor is a success, so that the first test of
\* the loop does not apply; ProcessCompletionPacket ignores it.
ProcessQuit(w) ==
    /\ Busy(w, "QUIT", "data")
    /\ LoopsOn(w)
    /\ UNCHANGED <<control, acceptor, sessionVars, io>>

\* A receive or a send failed, or the client has closed the connection: the
\* worker closes the session, whatever another worker is doing with it.
ConnectionEnds(w) ==
    /\ Busy(w, "RECV", "none") \/ Busy(w, "SEND", "none")
    /\ Close(work[w].of)
    /\ LoopsOn(w)
    /\ UNCHANGED <<control, acceptor, io>>

\* The handler has returned.
HandlerReturns(w) ==
    /\ Busy(w, "RECV", "data")
    /\ worker' = [worker EXCEPT ![w] = "handled"]
    /\ UNCHANGED <<control, acceptor, sessionVars, posted, port, work>>

\* A handler sends on its way, or with its return.
HandlerSends(w) ==
    /\ Busy(w, "RECV", "data")
    /\ PostSend(work[w].of)
    /\ UNCHANGED <<control, acceptor, sessionVars, posted, port, workers>>

HandlePacket(w) ==
    /\ HandlerReturns(w)
    /\ PostSend(work[w].of)

\* A handler that failed returns without a new receive.
NextReceiveOnSuccessOnly(w) ==
    /\ Up /\ worker[w] = "handled"
    /\ PostRecv(work[w].of) \/ UNCHANGED posted
    /\ UNCHANGED <<table, closed>>
    /\ LoopsOn(w)
    /\ UNCHANGED <<control, acceptor, link, doomed, failing, port>>

\* The end of ProcessRecv.
NextReceive(w) ==
    LET s == work[w].of
    IN  /\ Up /\ worker[w] = "handled"
        /\ \/ PostRecv(s) /\ UNCHANGED <<table, closed>>
           \/ UNCHANGED posted /\ closed' = closed \cup {s} /\ table' = table \ {s}
        /\ LoopsOn(w)
        /\ UNCHANGED <<control, acceptor, link, doomed, failing, port>>

-----------------------------------------------------------------------------
MainStep ==
    \/ CreateListenSocket \/ CreateWorkerThreads \/ InitializeReturns \/ Start
    \/ StartAccept \/ MainWakes \/ MainStopped \/ DropSessions \/ JoinAccept
    \/ JoinWorkers

StopStep ==
    Shutdown \/ DisconnectAll \/ StopReturns \/ \E s \in Session : CloseDoomed(s)

AcceptStep ==
    \/ AcceptChecks \/ AcceptFails
    \/ \E s \in Session :
          Accept(s) \/ AssociateFails(s) \/ AddSession(s) \/ FirstReceive(s)

\* What a worker does outside the handlers.
WorkerStep(w) ==
    \/ TooEarly(w) \/ GetQueuedCompletionStatus(w) \/ ProcessQuit(w)
    \/ ConnectionEnds(w) \/ NextReceive(w)

NetNext ==
    \/ MainStep \/ StopStep \/ CtrlC \/ Crashes \/ AcceptStep
    \/ \E s \in Session :
          \/ ClientConnects(s) \/ SendFails(s)
          \/ \E result \in Result : ReceiveCompletes(s, result)
    \/ \E w \in Worker : WorkerStep(w) \/ HandlerSends(w) \/ HandlePacket(w)

NetSpec == NetInit /\ [][NetNext]_netVars

-----------------------------------------------------------------------------
(* Properties.                                                             *)

\* The variables hold values of their types.
NetTypeOK ==
    /\ main \in {"begin", "bound", "workers", "initialized", "starting",
                 "waiting", "stopping", "dropping", "joinAccept",
                 "joinWorkers", "exited"}
    /\ stop \in {"none", "shutdown", "disconnect", "close", "done"}
    /\ event \in BOOLEAN /\ serving \in BOOLEAN
    /\ running \in BOOLEAN /\ listening \in BOOLEAN
    /\ acceptor \in {"none", "check", "accept", "handle", "first", "done"}
    /\ link \in [Session -> {"none", "backlog", "accepted", "registered", "served"}]
    /\ table \subseteq Session /\ doomed \subseteq Session /\ closed \subseteq Session
    /\ posted \in [Session -> Nat]
    /\ failing \in [Session -> 0 .. MaxSends]
    /\ port \in Seq(Completion)
    /\ worker \in [Worker -> {"none", "check", "wait", "busy", "handled", "done"}]
    /\ work \in [Worker -> Completion]

\* Where the receives of a session are: with the system, in the port, or in
\* the hands of a worker.
Receives(s) ==
    {<<"posted", k>> : k \in 1 .. posted[s]}
    \cup {<<"port", i>> : i \in {j \in DOMAIN port :
                                   port[j].op = "RECV" /\ port[j].of = s}}
    \cup {<<"worker", w>> : w \in {v \in Worker :
                                     work[v].op = "RECV" /\ work[v].of = s}}

\* A session that is served has exactly one receive under way until it is
\* closed, and never more than one: no two workers are in handlers of the
\* same session, which no mutex guards, and none is forgotten.
OneReceive ==
    \A s \in Session :
        /\ \A r1, r2 \in Receives(s) : r1 = r2
        /\ link[s] = "served" /\ s \notin closed => Receives(s) # {}

\* Once the server was told to stop, it does: every thread that main joins
\* returns, whatever the clients do.
StopEnds == (event \/ stop # "none") ~> (main = "exited")
=============================================================================
