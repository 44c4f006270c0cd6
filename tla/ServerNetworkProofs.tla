------------------------- MODULE ServerNetworkProofs -------------------------
(***************************************************************************)
(* Proofs about ServerNetwork, for any number of connections and workers.  *)
(* OneReceive is inductive once it is said where the receives are, and that *)
(* a connection the accept thread has not passed on has none.              *)
(***************************************************************************)
EXTENDS ServerNetwork, SequenceTheorems, TLAPS

\* A worker has a completion while it deals with one; a handler returned
\* from a receive; and there are no workers before main creates them.
WorkInv == \A w \in Worker :
    /\ main \in {"begin", "bound"} => worker[w] = "none"
    /\ worker[w] = "handled" => work[w] \in [op : {"RECV"}, of : Session, result : Result]
    /\ worker[w] \notin {"busy", "handled"} => work[w] = NoWork

TypeInv == NetTypeOK /\ WorkInv

OfReceive(c, s) == c.op = "RECV" /\ c.of = s

\* The three places where a receive of s may be hold one at most.
AtMostOne(s) ==
    /\ posted[s] \in {0, 1}
    /\ \A i, j \in DOMAIN port : OfReceive(port[i], s) /\ OfReceive(port[j], s) => i = j
    /\ \A v, w \in Worker : OfReceive(work[v], s) /\ OfReceive(work[w], s) => v = w
    /\ posted[s] = 1 => /\ \A i \in DOMAIN port : ~OfReceive(port[i], s)
                        /\ \A w \in Worker : ~OfReceive(work[w], s)
    /\ \A i \in DOMAIN port, w \in Worker :
          ~(OfReceive(port[i], s) /\ OfReceive(work[w], s))

NoReceive(s) ==
    /\ posted[s] = 0
    /\ \A i \in DOMAIN port : ~OfReceive(port[i], s)
    /\ \A w \in Worker : ~OfReceive(work[w], s)

ReceiveInv == \A s \in Session :
    /\ AtMostOne(s)
    /\ link[s] # "served" => NoReceive(s)
    /\ link[s] = "served" /\ s \notin closed => ~NoReceive(s)

-----------------------------------------------------------------------------
(* The completion port.                                                    *)

LEMMA PortAppended ==
    ASSUME TypeInv, NEW c \in Completion, port' = Append(port, c)
    PROVE  /\ port' \in Seq(Completion)
           /\ DOMAIN port = 1 .. Len(port) /\ DOMAIN port' = 1 .. Len(port) + 1
           /\ \A i \in DOMAIN port : port'[i] = port[i]
           /\ port'[Len(port) + 1] = c
<1>1. port \in Seq(Completion)
  BY DEF TypeInv, NetTypeOK
<1> QED
  BY <1>1, AppendProperties

LEMMA PortTaken ==
    ASSUME TypeInv, port # <<>>, port' = Tail(port)
    PROVE  /\ port' \in Seq(Completion) /\ Head(port) = port[1]
           /\ Head(port) \in Completion
           /\ DOMAIN port = 1 .. Len(port) /\ Len(port) \in Nat \ {0}
           /\ DOMAIN port' = 1 .. Len(port) - 1
           /\ \A i \in DOMAIN port' : port'[i] = port[i + 1]
<1>1. port \in Seq(Completion)
  BY DEF TypeInv, NetTypeOK
<1> QED
  BY <1>1, HeadTailProperties, EmptySeq

LEMMA PortGetsQuits ==
    ASSUME TypeInv, port' = port \o [w \in Worker |-> Quit]
    PROVE  /\ port' \in Seq(Completion)
           /\ DOMAIN port = 1 .. Len(port)
           /\ \A i \in DOMAIN port' :
                 \/ i \in DOMAIN port /\ port'[i] = port[i]
                 \/ i \notin DOMAIN port /\ port'[i] = Quit
           /\ DOMAIN port \subseteq DOMAIN port'
<1> DEFINE quits == [w \in Worker |-> Quit]
<1>1. port \in Seq(Completion)
  BY DEF TypeInv, NetTypeOK
<1>2. quits \in Seq(Completion) /\ Len(quits) = workerThreadCount
  BY NetworkAssumption DEF NetworkAssumption, Worker, Completion
<1>3. \A i \in 1 .. Len(quits) : quits[i] = Quit
  BY <1>2 DEF Worker
<1>4. port' = port \o quits
  OBVIOUS
<1> HIDE DEF quits
<1>5. /\ port \o quits \in Seq(Completion)
      /\ Len(port \o quits) = Len(port) + Len(quits)
      /\ \A i \in 1 .. Len(port) + Len(quits) :
            (port \o quits)[i] = IF i <= Len(port) THEN port[i] ELSE quits[i - Len(port)]
  BY <1>1, <1>2, ConcatProperties
<1>6. /\ DOMAIN port = 1 .. Len(port) /\ Len(port) \in Nat /\ Len(quits) \in Nat
      /\ DOMAIN port' = 1 .. Len(port) + Len(quits)
  BY <1>1, <1>2, <1>4, <1>5, LenProperties
<1>7. ASSUME NEW i \in DOMAIN port'
      PROVE  \/ i \in DOMAIN port /\ port'[i] = port[i]
             \/ i \notin DOMAIN port /\ port'[i] = Quit
  <2>1. CASE i <= Len(port)
    BY <1>4, <1>5, <1>6, <2>1
  <2>2. CASE ~(i <= Len(port))
    BY <1>3, <1>4, <1>5, <1>6, <2>2
  <2> QED
    BY <2>1, <2>2
<1>8. DOMAIN port \subseteq DOMAIN port'
  BY <1>6
<1>9. port' \in Seq(Completion)
  BY <1>4, <1>5
<1> QED
  BY <1>6, <1>7, <1>8, <1>9

-----------------------------------------------------------------------------
(* Types.                                                                  *)

LEMMA Completions ==
    /\ \A s \in Session, result \in Result : Recv(s, result) \in Completion
    /\ \A s \in Session : FailedSend(s) \in Completion
    /\ Quit \in Completion /\ NoWork \in Completion
BY DEF Recv, FailedSend, Completion, Result

\* A worker that loops is done with its completion.
LEMMA LoopTyped ==
    ASSUME TypeInv, NEW w \in Worker, worker[w] \in {"busy", "handled"}, LoopsOn(w),
           UNCHANGED control
    PROVE  /\ worker' \in [Worker -> {"none", "check", "wait", "busy", "handled", "done"}]
           /\ work' \in [Worker -> Completion]
           /\ WorkInv'
<1>1. main \notin {"begin", "bound"} /\ main' = main
  BY DEF TypeInv, WorkInv, control
<1>2. /\ worker' \in [Worker -> {"none", "check", "wait", "busy", "handled", "done"}]
      /\ work' \in [Worker -> Completion]
  BY Completions DEF TypeInv, NetTypeOK, LoopsOn
<1>3. WorkInv'
  BY <1>1 DEF TypeInv, NetTypeOK, LoopsOn, WorkInv
<1> QED
  BY <1>2, <1>3

LEMMA PostSendTyped ==
    ASSUME TypeInv, NEW s \in Session, PostSend(s)
    PROVE  failing' \in [Session -> 0 .. MaxSends]
<1>1. failing \in [Session -> 0 .. MaxSends] /\ MaxSends \in Nat
  BY NetworkAssumption DEF TypeInv, NetTypeOK, NetworkAssumption
<1>2. CASE failing[s] < MaxSends /\ failing' = [failing EXCEPT ![s] = @ + 1]
  <2>1. failing[s] + 1 \in 0 .. MaxSends
    BY <1>1, <1>2
  <2> QED
    BY <1>1, <1>2, <2>1
<1> QED
  BY <1>1, <1>2 DEF PostSend

LEMMA TypeInvInit == ASSUME NetInit PROVE TypeInv
<1>1. port \in Seq(Completion)
  BY EmptySeq DEF NetInit
<1>2. WorkInv
  BY DEF NetInit, WorkInv
<1>3. failing \in [Session -> 0 .. MaxSends]
  BY NetworkAssumption DEF NetInit, NetworkAssumption
<1>4. worker \in [Worker -> {"none", "check", "wait", "busy", "handled", "done"}]
      /\ work \in [Worker -> Completion]
  BY Completions DEF NetInit
<1> QED
  BY <1>1, <1>2, <1>3, <1>4 DEF NetInit, TypeInv, NetTypeOK

LEMMA TypeInvStep == TypeInv /\ [NetNext]_netVars => TypeInv'
<1> SUFFICES ASSUME TypeInv, [NetNext]_netVars PROVE TypeInv'
  OBVIOUS
<1> USE DEF control, sessionVars, io, workers
<1>1. ASSUME MainStep \/ StopStep \/ CtrlC \/ Crashes PROVE TypeInv'
  <2>1. CASE JoinAccept
    BY <2>1, PortGetsQuits DEF JoinAccept, TypeInv, NetTypeOK, WorkInv
  <2>2. CASE Shutdown
    BY <2>2 DEF Shutdown, TypeInv, NetTypeOK, WorkInv
  <2>3. CASE DisconnectAll
    BY <2>3 DEF DisconnectAll, TypeInv, NetTypeOK, WorkInv
  <2>4. CASE \E s \in Session : CloseDoomed(s)
    BY <2>4 DEF CloseDoomed, TypeInv, NetTypeOK, WorkInv
  <2>5. CASE StopReturns
    BY <2>5 DEF StopReturns, TypeInv, NetTypeOK, WorkInv
  <2>6. CASE CtrlC
    <3>1. event' \in BOOLEAN /\ serving' \in BOOLEAN
      BY <2>6 DEF CtrlC, BeginStop, TypeInv, NetTypeOK
    <3>2. stop' \in {"none", "shutdown", "disconnect", "close", "done"}
      BY <2>6 DEF CtrlC, BeginStop, TypeInv, NetTypeOK
    <3>3. UNCHANGED <<main, running, listening, acceptor, sessionVars, io, workers>>
      BY <2>6 DEF CtrlC
    <3> QED
      BY <3>1, <3>2, <3>3 DEF TypeInv, NetTypeOK, WorkInv
  <2>7. CASE Crashes
    BY <2>7 DEF Crashes, TypeInv, NetTypeOK, WorkInv
  <2>8. CASE CreateListenSocket
    <3>1. main' \in {"bound", "exited"} /\ listening' \in BOOLEAN
      BY <2>8 DEF CreateListenSocket, TypeInv, NetTypeOK
    <3>2. UNCHANGED <<stop, event, serving, running, acceptor, sessionVars, io,
                      workers>>
      BY <2>8 DEF CreateListenSocket
    <3>3. main' \in {"begin", "bound", "workers", "initialized", "starting",
                     "waiting", "stopping", "dropping", "joinAccept",
                     "joinWorkers", "exited"}
      BY <3>1
    <3>4. NetTypeOK'
      BY <3>1, <3>2, <3>3 DEF TypeInv, NetTypeOK
    <3>5. main = "begin"
      BY <2>8 DEF CreateListenSocket
    <3>6. WorkInv'
      BY <3>2, <3>5 DEF TypeInv, WorkInv
    <3> QED
      BY <3>4, <3>6 DEF TypeInv
  <2>9. CASE CreateWorkerThreads
    BY <2>9 DEF CreateWorkerThreads, TypeInv, NetTypeOK, WorkInv
  <2>10. CASE InitializeReturns
    BY <2>10 DEF InitializeReturns, TypeInv, NetTypeOK, WorkInv
  <2>11. CASE Start
    BY <2>11 DEF Start, TypeInv, NetTypeOK, WorkInv
  <2>12. CASE StartAccept
    BY <2>12 DEF StartAccept, TypeInv, NetTypeOK, WorkInv
  <2>13. CASE MainWakes
    BY <2>13 DEF MainWakes, BeginStop, TypeInv, NetTypeOK, WorkInv
  <2>14. CASE MainStopped
    BY <2>14 DEF MainStopped, TypeInv, NetTypeOK, WorkInv
  <2>15. CASE DropSessions
    BY <2>15 DEF DropSessions, TypeInv, NetTypeOK, WorkInv
  <2>16. CASE JoinWorkers
    BY <2>16 DEF JoinWorkers, TypeInv, NetTypeOK, WorkInv
  <2> QED
    BY <1>1, <2>1, <2>2, <2>3, <2>4, <2>5, <2>6, <2>7, <2>8, <2>9, <2>10, <2>11, <2>12, <2>13, <2>14, <2>15, <2>16
       DEF MainStep, StopStep
<1>2. ASSUME AcceptStep PROVE TypeInv'
  <2>1. CASE AcceptChecks
    BY <2>1 DEF AcceptChecks, TypeInv, NetTypeOK, WorkInv
  <2>2. CASE AcceptFails
    BY <2>2 DEF AcceptFails, TypeInv, NetTypeOK, WorkInv
  <2>3. CASE \E s \in Session : Accept(s)
    BY <2>3 DEF Accept, TypeInv, NetTypeOK, WorkInv
  <2>4. CASE \E s \in Session : AssociateFails(s)
    BY <2>4 DEF AssociateFails, Close, TypeInv, NetTypeOK, WorkInv
  <2>5. CASE \E s \in Session : AddSession(s)
    BY <2>5 DEF AddSession, TypeInv, NetTypeOK, WorkInv
  <2>6. CASE \E s \in Session : FirstReceive(s)
    BY <2>6 DEF FirstReceive, PostRecv, TypeInv, NetTypeOK, WorkInv
  <2> QED
    BY <1>2, <2>1, <2>2, <2>3, <2>4, <2>5, <2>6 DEF AcceptStep
<1>3. ASSUME NEW s \in Session, ClientConnects(s) PROVE TypeInv'
  BY <1>3 DEF ClientConnects, TypeInv, NetTypeOK, WorkInv
<1>4. ASSUME NEW s \in Session, NEW result \in Result, ReceiveCompletes(s, result)
      PROVE  TypeInv'
  <2>1. port' \in Seq(Completion)
    BY <1>4, Completions, PortAppended DEF ReceiveCompletes
  <2>2. posted' \in [Session -> Nat]
    BY <1>4 DEF ReceiveCompletes, TypeInv, NetTypeOK
  <2> QED
    BY <1>4, <2>1, <2>2 DEF ReceiveCompletes, TypeInv, NetTypeOK, WorkInv
<1>5. ASSUME NEW s \in Session, SendFails(s) PROVE TypeInv'
  <2>1. port' \in Seq(Completion)
    BY <1>5, Completions, PortAppended DEF SendFails
  <2>2. failing' \in [Session -> 0 .. MaxSends]
    BY <1>5, NetworkAssumption DEF SendFails, TypeInv, NetTypeOK, NetworkAssumption
  <2> QED
    BY <1>5, <2>1, <2>2 DEF SendFails, TypeInv, NetTypeOK, WorkInv
<1>6. ASSUME NEW w \in Worker, TooEarly(w) PROVE TypeInv'
  <2>1. main \notin {"begin", "bound"}
    BY <1>6 DEF TooEarly, TypeInv, WorkInv
  <2>2. WorkInv'
    BY <1>6, <2>1 DEF TooEarly, TypeInv, NetTypeOK, WorkInv
  <2> QED
    BY <1>6, <2>2 DEF TooEarly, TypeInv, NetTypeOK
<1>7. ASSUME NEW w \in Worker, GetQueuedCompletionStatus(w) PROVE TypeInv'
  <2>1. port' \in Seq(Completion) /\ Head(port) \in Completion
    BY <1>7, PortTaken DEF GetQueuedCompletionStatus
  <2> QED
    BY <1>7, <2>1 DEF GetQueuedCompletionStatus, TypeInv, NetTypeOK, WorkInv
<1>8. ASSUME NEW w \in Worker, ProcessQuit(w) PROVE TypeInv'
  BY <1>8, LoopTyped DEF ProcessQuit, Busy, TypeInv, NetTypeOK
<1>9. ASSUME NEW w \in Worker, ConnectionEnds(w) PROVE TypeInv'
  <2>1. work[w].of \in Session
    BY <1>9 DEF ConnectionEnds, Busy, TypeInv, NetTypeOK, Completion, Quit, NoWork
  <2> QED
    BY <1>9, <2>1, LoopTyped DEF ConnectionEnds, Busy, Close, TypeInv, NetTypeOK
<1>10. ASSUME NEW w \in Worker, HandlerSends(w) PROVE TypeInv'
  <2>1. work[w] \in [op : {"RECV"}, of : Session, result : Result]
    BY <1>10 DEF HandlerSends, Busy, TypeInv, NetTypeOK, Completion, Quit, NoWork
  <2>2. failing' \in [Session -> 0 .. MaxSends]
    BY <1>10, <2>1, PostSendTyped DEF HandlerSends
  <2> QED
    BY <1>10, <2>2 DEF HandlerSends, TypeInv, NetTypeOK, WorkInv
<1>11. ASSUME NEW w \in Worker, HandlePacket(w) PROVE TypeInv'
  <2>1. work[w] \in [op : {"RECV"}, of : Session, result : Result]
    BY <1>11 DEF HandlePacket, HandlerReturns, Busy, TypeInv, NetTypeOK, Completion,
       Quit, NoWork
  <2>2. failing' \in [Session -> 0 .. MaxSends]
    BY <1>11, <2>1, PostSendTyped DEF HandlePacket
  <2>3. main \notin {"begin", "bound"}
    BY <1>11 DEF HandlePacket, HandlerReturns, Busy, TypeInv, WorkInv
  <2>4. WorkInv'
    BY <1>11, <2>1, <2>3 DEF HandlePacket, HandlerReturns, TypeInv, NetTypeOK, WorkInv
  <2> QED
    BY <1>11, <2>2, <2>4 DEF HandlePacket, HandlerReturns, TypeInv, NetTypeOK
<1>12. ASSUME NEW w \in Worker, NextReceive(w) PROVE TypeInv'
  <2>1. work[w].of \in Session
    BY <1>12 DEF NextReceive, TypeInv, WorkInv
  <2>2. /\ posted' \in [Session -> Nat]
        /\ closed' \subseteq Session /\ table' \subseteq Session
    BY <1>12, <2>1 DEF NextReceive, PostRecv, TypeInv, NetTypeOK
  <2> QED
    BY <1>12, <2>2, LoopTyped DEF NextReceive, TypeInv, NetTypeOK
<1>13. CASE UNCHANGED netVars
  BY <1>13 DEF netVars, TypeInv, NetTypeOK, WorkInv
<1> QED
  BY <1>1, <1>2, <1>3, <1>4, <1>5, <1>6, <1>7, <1>8, <1>9, <1>10, <1>11,
     <1>12, <1>13 DEF NetNext, WorkerStep

LEMMA TypeInvInductive == NetSpec => []TypeInv
BY TypeInvInit, TypeInvStep, PTL DEF NetSpec

-----------------------------------------------------------------------------
(* The receives of a session.                                              *)

\* A step that moves no receive, gives no connection over to its handlers and
\* opens no session again.
LEMMA ReceivesKept ==
    ASSUME TypeInv, ReceiveInv, UNCHANGED <<posted, port, work>>,
           closed \subseteq closed',
           \A s \in Session : link'[s] = "served" <=> link[s] = "served"
    PROVE  ReceiveInv'
BY DEF ReceiveInv, AtMostOne, NoReceive

\* The port gets entries that are no receives.
LEMMA PortGetsOthers ==
    ASSUME TypeInv, ReceiveInv, UNCHANGED <<posted, work, link, closed>>,
           DOMAIN port \subseteq DOMAIN port',
           \A i \in DOMAIN port' :
              \/ i \in DOMAIN port /\ port'[i] = port[i]
              \/ i \notin DOMAIN port /\ port'[i].op # "RECV"
    PROVE  ReceiveInv'
<1>1. \A s \in Session : \A i \in DOMAIN port' :
         OfReceive(port'[i], s) => i \in DOMAIN port /\ OfReceive(port[i], s)
  BY DEF OfReceive
<1>2. \A s \in Session : \A i \in DOMAIN port :
         OfReceive(port[i], s) => i \in DOMAIN port' /\ OfReceive(port'[i], s)
  OBVIOUS
<1> QED
  BY <1>1, <1>2 DEF ReceiveInv, AtMostOne, NoReceive

\* A worker is done with a completion, and the session of it is closed or it
\* was none of its receives.
LEMMA WorkDropped ==
    ASSUME TypeInv, ReceiveInv, NEW w \in Worker,
           UNCHANGED <<posted, port, link>>,
           work' = [work EXCEPT ![w] = NoWork],
           closed \subseteq closed',
           \A s \in Session : OfReceive(work[w], s) => s \in closed'
    PROVE  ReceiveInv'
<1>1. \A s \in Session : \A v \in Worker :
         OfReceive(work'[v], s) <=> v # w /\ OfReceive(work[v], s)
  BY DEF TypeInv, NetTypeOK, OfReceive, NoWork
<1> QED
  BY <1>1 DEF ReceiveInv, AtMostOne, NoReceive

LEMMA ReceiveInvInductive == NetSpec => []ReceiveInv
<1>1. ASSUME NetInit PROVE ReceiveInv
  <2>1. DOMAIN port = {}
    BY <1>1 DEF NetInit
  <2>2. \A s \in Session : NoReceive(s) /\ link[s] = "none"
    BY <1>1, <2>1 DEF NetInit, NoReceive, OfReceive, NoWork
  <2> QED
    BY <2>2 DEF ReceiveInv, AtMostOne, NoReceive
<1>2. TypeInv /\ ReceiveInv /\ [NetNext]_netVars => ReceiveInv'
  <2> SUFFICES ASSUME TypeInv, ReceiveInv, [NetNext]_netVars PROVE ReceiveInv'
    OBVIOUS
  <2> USE DEF control, sessionVars, io, workers
  <2>1. ASSUME MainStep \/ StopStep \/ CtrlC \/ Crashes PROVE ReceiveInv'
    <3>1. CASE JoinAccept
      BY <3>1, PortGetsQuits, PortGetsOthers DEF JoinAccept, Quit
    <3>2. CASE StopStep \/ CtrlC \/ Crashes
      BY <3>2, ReceivesKept DEF StopStep, CtrlC, Crashes, Shutdown, DisconnectAll,
         CloseDoomed, StopReturns, BeginStop, TypeInv, NetTypeOK
    <3>3. CASE MainStep /\ ~JoinAccept
      BY <3>3, ReceivesKept DEF MainStep, CreateListenSocket, CreateWorkerThreads,
         InitializeReturns, Start, StartAccept, MainWakes, MainStopped, DropSessions,
         JoinWorkers, BeginStop, TypeInv, NetTypeOK
    <3> QED
      BY <2>1, <3>1, <3>2, <3>3
  <2>2. ASSUME AcceptStep PROVE ReceiveInv'
    <3>1. CASE AcceptChecks \/ AcceptFails
      BY <3>1, ReceivesKept DEF AcceptChecks, AcceptFails
    <3>2. ASSUME NEW s \in Session, Accept(s) \/ AssociateFails(s) \/ AddSession(s)
          PROVE  ReceiveInv'
      BY <3>2, ReceivesKept DEF Accept, AssociateFails, AddSession, Close, TypeInv, NetTypeOK
    <3>3. ASSUME NEW s \in Session, FirstReceive(s) PROVE ReceiveInv'
      <4>1. NoReceive(s)
        BY <3>3 DEF FirstReceive, ReceiveInv
      <4>2. \A r \in Session : r # s => posted'[r] = posted[r] /\ link'[r] = link[r]
        BY <3>3 DEF FirstReceive, PostRecv, TypeInv, NetTypeOK
      <4>3. \/ posted'[s] = 1 /\ closed' = closed
            \/ posted'[s] = 0 /\ closed' = closed \cup {s}
        BY <3>3, <4>1 DEF FirstReceive, PostRecv, NoReceive, TypeInv, NetTypeOK
      <4>4. link'[s] = "served" /\ UNCHANGED <<port, work>>
        BY <3>3 DEF FirstReceive, TypeInv, NetTypeOK
      <4> QED
        BY <4>1, <4>2, <4>3, <4>4 DEF ReceiveInv, AtMostOne, NoReceive
    <3> QED
      BY <2>2, <3>1, <3>2, <3>3 DEF AcceptStep
  <2>3. ASSUME NEW s \in Session, ClientConnects(s) PROVE ReceiveInv'
    BY <2>3, ReceivesKept DEF ClientConnects, TypeInv, NetTypeOK
  <2>4. ASSUME NEW s \in Session, NEW result \in Result, ReceiveCompletes(s, result)
        PROVE  ReceiveInv'
    <3>1. /\ posted[s] = 1 /\ posted'[s] = 0
          /\ \A r \in Session : r # s => posted'[r] = posted[r]
          /\ UNCHANGED <<work, link, closed>>
      BY <2>4 DEF ReceiveCompletes, ReceiveInv, AtMostOne, TypeInv, NetTypeOK
    <3>2. /\ DOMAIN port = 1 .. Len(port) /\ DOMAIN port' = 1 .. Len(port) + 1
          /\ \A i \in DOMAIN port : port'[i] = port[i]
          /\ port'[Len(port) + 1] = Recv(s, result)
      BY <2>4, Completions, PortAppended DEF ReceiveCompletes
    <3>3. Len(port) \in Nat
      BY LenProperties DEF TypeInv, NetTypeOK
    <3>4. \A r \in Session : \A i \in DOMAIN port' :
             OfReceive(port'[i], r) <=> \/ i \in DOMAIN port /\ OfReceive(port[i], r)
                                        \/ i = Len(port) + 1 /\ r = s
      BY <3>2, <3>3 DEF OfReceive, Recv
    <3>5. /\ \A i \in DOMAIN port : ~OfReceive(port[i], s)
          /\ \A w \in Worker : ~OfReceive(work[w], s)
          /\ link[s] = "served"
      BY <3>1 DEF ReceiveInv, AtMostOne, NoReceive
    <3>6. ASSUME NEW r \in Session, r # s
          PROVE  /\ AtMostOne(r)'
                 /\ link'[r] # "served" => NoReceive(r)'
                 /\ link'[r] = "served" /\ r \notin closed' => ~NoReceive(r)'
      <4>1. \A i \in DOMAIN port' :
               OfReceive(port'[i], r) => i \in DOMAIN port /\ OfReceive(port[i], r)
        BY <3>4, <3>6
      <4>2. \A i \in DOMAIN port : i \in DOMAIN port' /\ port'[i] = port[i]
        BY <3>2, <3>3
      <4> QED
        BY <3>1, <3>6, <4>1, <4>2 DEF ReceiveInv, AtMostOne, NoReceive
    <3>7. AtMostOne(s)'
      BY <3>1, <3>4, <3>5 DEF AtMostOne
    <3>8. ~NoReceive(s)'
      BY <3>2, <3>3, <3>4 DEF NoReceive
    <3> QED
      BY <3>1, <3>5, <3>6, <3>7, <3>8 DEF ReceiveInv
  <2>5. ASSUME NEW s \in Session, SendFails(s) PROVE ReceiveInv'
    <3>1. /\ DOMAIN port = 1 .. Len(port) /\ DOMAIN port' = 1 .. Len(port) + 1
          /\ \A i \in DOMAIN port : port'[i] = port[i]
          /\ port'[Len(port) + 1] = FailedSend(s)
      BY <2>5, Completions, PortAppended DEF SendFails
    <3>2. Len(port) \in Nat
      BY LenProperties DEF TypeInv, NetTypeOK
    <3> QED
      BY <2>5, <3>1, <3>2, PortGetsOthers DEF SendFails, FailedSend
  <2>6. ASSUME NEW w \in Worker, TooEarly(w) \/ HandlerSends(w) \/ HandlePacket(w)
        PROVE  ReceiveInv'
    BY <2>6, ReceivesKept DEF TooEarly, HandlerSends, HandlePacket, HandlerReturns
  <2>7. ASSUME NEW w \in Worker, GetQueuedCompletionStatus(w) PROVE ReceiveInv'
    <3>1. /\ DOMAIN port = 1 .. Len(port) /\ Len(port) \in Nat \ {0}
          /\ DOMAIN port' = 1 .. Len(port) - 1
          /\ \A i \in DOMAIN port' : port'[i] = port[i + 1]
          /\ Head(port) = port[1]
      BY <2>7, PortTaken DEF GetQueuedCompletionStatus
    <3>2. /\ work[w] = NoWork /\ work'[w] = port[1]
          /\ \A v \in Worker : v # w => work'[v] = work[v]
          /\ UNCHANGED <<posted, link, closed>>
      BY <2>7, <3>1 DEF GetQueuedCompletionStatus, TypeInv, WorkInv, NetTypeOK
    <3>3. \A r \in Session : ~OfReceive(work[w], r)
      BY <3>2 DEF OfReceive, NoWork
    <3>4. ASSUME NEW r \in Session
          PROVE  AtMostOne(r)' /\ (NoReceive(r)' <=> NoReceive(r))
      <4>1. \A i \in DOMAIN port' : i + 1 \in DOMAIN port /\ i + 1 # 1
        BY <3>1
      <4>2. \A i \in DOMAIN port : i # 1 => i - 1 \in DOMAIN port' /\ port'[i - 1] = port[i]
        BY <3>1
      <4>3. 1 \in DOMAIN port
        BY <3>1
      <4>4. \A i \in DOMAIN port' : i \in Int
        BY <3>1
      <4> HIDE DEF OfReceive
      <4>5. CASE OfReceive(port[1], r)
        <5>1. /\ \A i \in DOMAIN port' : ~OfReceive(port'[i], r)
              /\ \A v \in Worker : OfReceive(work'[v], r) <=> v = w
              /\ posted[r] = 0
          BY <3>1, <3>2, <3>3, <4>1, <4>3, <4>4, <4>5 DEF ReceiveInv, AtMostOne
        <5> QED
          BY <3>2, <4>3, <4>5, <5>1 DEF AtMostOne, NoReceive
      <4>6. CASE ~OfReceive(port[1], r)
        <5>1. \A v \in Worker : OfReceive(work'[v], r) <=> OfReceive(work[v], r)
          BY <3>2, <3>3, <4>6
        <5>2. \A i \in DOMAIN port' : OfReceive(port'[i], r) <=> OfReceive(port[i + 1], r)
          BY <3>1
        <5>3. AtMostOne(r)
          BY DEF ReceiveInv
        <5>4. AtMostOne(r)'
          BY <3>1, <3>2, <4>1, <4>4, <5>1, <5>2, <5>3 DEF AtMostOne
        <5>5. NoReceive(r)' <=> NoReceive(r)
          BY <3>1, <3>2, <4>1, <4>2, <4>6, <5>1, <5>2 DEF NoReceive
        <5> QED
          BY <5>4, <5>5
      <4> QED
        BY <4>5, <4>6
    <3> QED
      BY <3>2, <3>4 DEF ReceiveInv
  <2>8. ASSUME NEW w \in Worker, ProcessQuit(w) PROVE ReceiveInv'
    BY <2>8, WorkDropped DEF ProcessQuit, Busy, LoopsOn, OfReceive
  <2>9. ASSUME NEW w \in Worker, ConnectionEnds(w) PROVE ReceiveInv'
    BY <2>9, WorkDropped DEF ConnectionEnds, Busy, LoopsOn, Close, OfReceive
  <2>10. ASSUME NEW w \in Worker, NextReceive(w) PROVE ReceiveInv'
    <3>1. PICK s \in Session :
             /\ s = work[w].of /\ OfReceive(work[w], s)
             /\ UNCHANGED <<port, link>> /\ work' = [work EXCEPT ![w] = NoWork]
      BY <2>10 DEF NextReceive, LoopsOn, TypeInv, WorkInv, OfReceive
    <3>2. CASE UNCHANGED posted /\ closed' = closed \cup {s}
      BY <3>1, <3>2, WorkDropped DEF OfReceive
    <3>3. CASE PostRecv(s) /\ UNCHANGED closed
      <4>1. /\ posted[s] = 0
            /\ \A i \in DOMAIN port : ~OfReceive(port[i], s)
            /\ \A v \in Worker : v # w => ~OfReceive(work[v], s)
            /\ link[s] = "served"
        BY <3>1 DEF ReceiveInv, AtMostOne, NoReceive
      <4>2. posted'[s] = 1 /\ \A r \in Session : r # s => posted'[r] = posted[r]
        BY <3>1, <3>3, <4>1 DEF PostRecv, TypeInv, NetTypeOK
      <4>3. \A r \in Session : \A v \in Worker :
               OfReceive(work'[v], r) <=> v # w /\ OfReceive(work[v], r)
        BY <3>1 DEF TypeInv, NetTypeOK, OfReceive, NoWork
      <4>4. \A r \in Session : r # s => ~OfReceive(work[w], r)
        BY <3>1 DEF OfReceive
      <4>5. ASSUME NEW r \in Session, r # s
            PROVE  AtMostOne(r)' /\ (NoReceive(r)' <=> NoReceive(r))
        BY <3>1, <4>2, <4>3, <4>4, <4>5 DEF ReceiveInv, AtMostOne, NoReceive
      <4>6. AtMostOne(s)' /\ ~NoReceive(s)'
        BY <3>1, <4>1, <4>2, <4>3 DEF AtMostOne, NoReceive
      <4> QED
        BY <3>1, <3>3, <4>1, <4>5, <4>6 DEF ReceiveInv
    <3> QED
      BY <2>10, <3>1, <3>2, <3>3 DEF NextReceive
  <2>11. CASE UNCHANGED netVars
    BY <2>11, ReceivesKept DEF netVars
  <2> QED
    BY <2>1, <2>2, <2>3, <2>4, <2>5, <2>6, <2>7, <2>8, <2>9, <2>10, <2>11
       DEF NetNext, WorkerStep
<1> QED
  BY <1>1, <1>2, TypeInvInductive, PTL DEF NetSpec

-----------------------------------------------------------------------------
(* The results.                                                            *)

\* The threads, the port and the sessions keep their types.
THEOREM NetworkTypeCorrect == NetSpec => []NetTypeOK
BY TypeInvInductive, PTL DEF TypeInv

\* However many workers, connections and failing sends there are, and
\* whenever the server is stopped, the handlers of one session never overlap,
\* and an open session never ends up without a receive.
THEOREM ReceivesNeverOverlap == NetSpec => []OneReceive
<1>1. TypeInv /\ ReceiveInv => OneReceive
  <2> SUFFICES ASSUME TypeInv, ReceiveInv, NEW s \in Session
               PROVE  /\ \A r1, r2 \in Receives(s) : r1 = r2
                      /\ link[s] = "served" /\ s \notin closed => Receives(s) # {}
    BY DEF OneReceive
  <2>1. AtMostOne(s) /\ (link[s] = "served" /\ s \notin closed => ~NoReceive(s))
    BY DEF ReceiveInv
  <2>2. \A r1, r2 \in Receives(s) : r1 = r2
    BY <2>1 DEF AtMostOne, Receives, OfReceive
  <2>3. ~NoReceive(s) => Receives(s) # {}
    <3>1. CASE posted[s] # 0
      <4>1. <<"posted", 1>> \in Receives(s)
        BY <2>1, <3>1 DEF AtMostOne, Receives
      <4> QED
        BY <4>1
    <3>2. ASSUME NEW i \in DOMAIN port, OfReceive(port[i], s) PROVE Receives(s) # {}
      <4>1. <<"port", i>> \in Receives(s)
        BY <3>2 DEF Receives, OfReceive
      <4> QED
        BY <4>1
    <3>3. ASSUME NEW w \in Worker, OfReceive(work[w], s) PROVE Receives(s) # {}
      <4>1. <<"worker", w>> \in Receives(s)
        BY <3>3 DEF Receives, OfReceive
      <4> QED
        BY <4>1
    <3> QED
      BY <3>1, <3>2, <3>3 DEF NoReceive
  <2> QED
    BY <2>1, <2>2, <2>3
<1> QED
  BY <1>1, TypeInvInductive, ReceiveInvInductive, PTL

=============================================================================
