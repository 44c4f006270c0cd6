------------------------- MODULE MatchmakingProofs -------------------------
(***************************************************************************)
(* Proofs about Matchmaking, for any number of connections, sockets,       *)
(* threads and players of a room.                                          *)
(***************************************************************************)
EXTENDS Matchmaking, FiniteSetTheorems, SequenceTheorems, TLAPS

-----------------------------------------------------------------------------
(* Filter.                                                                 *)

\* The elements of K up to i.
UpTo(K, i) == {j \in K : j <= i}

\* In a finite set of naturals every rank from 1 to its size is taken by
\* exactly one element: ranks are told apart, and there are enough of them.
LEMMA Ranks ==
    ASSUME NEW K \in SUBSET Nat, IsFiniteSet(K)
    PROVE  /\ \A i \in K : Cardinality(UpTo(K, i)) \in 1 .. Cardinality(K)
           /\ \A i, j \in K :
                 Cardinality(UpTo(K, i)) = Cardinality(UpTo(K, j)) => i = j
           /\ \A k \in 1 .. Cardinality(K) :
                 \E i \in K : Cardinality(UpTo(K, i)) = k
<1> DEFINE rank == [i \in K |-> Cardinality(UpTo(K, i))]
           n == Cardinality(K)
<1>1. n \in Nat
  BY FS_CardinalityType
<1>2. ASSUME NEW i \in K
      PROVE  /\ IsFiniteSet(UpTo(K, i))
             /\ Cardinality(UpTo(K, i)) \in 1 .. n
  <2>1. UpTo(K, i) \in SUBSET K /\ i \in UpTo(K, i)
    BY DEF UpTo
  <2>2. /\ IsFiniteSet(UpTo(K, i))
        /\ Cardinality(UpTo(K, i)) <= n
    BY <2>1, FS_Subset
  <2>3. Cardinality(UpTo(K, i)) \in Nat /\ Cardinality(UpTo(K, i)) # 0
    BY <2>1, <2>2, FS_CardinalityType, FS_EmptySet
  <2> QED
    BY <1>1, <2>2, <2>3
<1>3. ASSUME NEW i \in K, NEW j \in K, i < j
      PROVE  Cardinality(UpTo(K, i)) # Cardinality(UpTo(K, j))
  <2>1. \A k \in K : k <= i => k <= j
    BY <1>3
  <2>2. UpTo(K, i) \subseteq UpTo(K, j)
    BY <2>1 DEF UpTo
  <2>3. j \in UpTo(K, j) /\ j \notin UpTo(K, i)
    BY <1>3 DEF UpTo
  <2> QED
    BY <1>2, <2>2, <2>3, FS_Subset
<1>4. ASSUME NEW i \in K, NEW j \in K,
             Cardinality(UpTo(K, i)) = Cardinality(UpTo(K, j))
      PROVE  i = j
  BY <1>3, <1>4
<1>5. rank \in Injection(K, 1 .. n)
  BY <1>2, <1>4 DEF Injection, IsInjective
<1>6. IsFiniteSet(1 .. n) /\ Cardinality(1 .. n) = n
  BY <1>1, FS_Interval
<1>7. rank \in Surjection(K, 1 .. n)
  BY <1>5, <1>6, FS_Injection
<1>8. \A k \in 1 .. n : \E i \in K : rank[i] = k
  BY <1>7 DEF Surjection
<1> QED
  BY <1>2, <1>4, <1>8

\* The k-th element exists and has k elements up to it.
LEMMA NthFacts ==
    ASSUME NEW K \in SUBSET Nat, IsFiniteSet(K)
    PROVE  /\ \A k \in 1 .. Cardinality(K) : Nth(K, k) \in K
           /\ \A i \in K : \E k \in 1 .. Cardinality(K) : Nth(K, k) = i
           /\ \A k, l \in 1 .. Cardinality(K) : Nth(K, k) = Nth(K, l) => k = l
<1>1. ASSUME NEW k \in 1 .. Cardinality(K)
      PROVE  Nth(K, k) \in K /\ Cardinality(UpTo(K, Nth(K, k))) = k
  <2>1. \E i \in K : Cardinality(UpTo(K, i)) = k
    BY Ranks
  <2> QED
    BY <2>1 DEF Nth, UpTo
<1>2. ASSUME NEW i \in K
      PROVE  \E k \in 1 .. Cardinality(K) : Nth(K, k) = i
  <2>1. Cardinality(UpTo(K, i)) \in 1 .. Cardinality(K)
    BY Ranks
  <2> DEFINE m == Nth(K, Cardinality(UpTo(K, i)))
  <2>2. m \in K /\ Cardinality(UpTo(K, m)) = Cardinality(UpTo(K, i))
    BY <1>1, <2>1
  <2> HIDE DEF m
  <2>3. m = i
    BY <2>2, Ranks
  <2> QED
    BY <2>1, <2>3 DEF m
<1>3. \A k, l \in 1 .. Cardinality(K) : Nth(K, k) = Nth(K, l) => k = l
  <2> DEFINE f(k) == Cardinality(UpTo(K, Nth(K, k)))
  <2>1. \A k \in 1 .. Cardinality(K) : f(k) = k
    BY <1>1
  <2>2. \A k, l : Nth(K, k) = Nth(K, l) => f(k) = f(l)
    OBVIOUS
  <2> HIDE DEF f
  <2> QED
    BY <2>1, <2>2
<1> QED
  BY <1>1, <1>2, <1>3

\* Filter keeps the elements of a sequence that are in S, and no others.
LEMMA FilterFacts ==
    ASSUME NEW D, NEW q \in Seq(D), NEW S
    PROVE  /\ Filter(q, S) \in Seq(D)
           /\ Range(Filter(q, S)) = Range(q) \cap S
           /\ IsInjective(q) => IsInjective(Filter(q, S))
<1> DEFINE K == {i \in DOMAIN q : q[i] \in S}
           n == Cardinality(K)
<1>1. K \in SUBSET Nat /\ IsFiniteSet(K) /\ n \in Nat
  <2>1. DOMAIN q = 1 .. Len(q) /\ Len(q) \in Nat
    BY LenProperties
  <2>2. IsFiniteSet(DOMAIN q)
    BY <2>1, FS_Interval
  <2> QED
    BY <2>1, <2>2, FS_Subset, FS_CardinalityType
<1>2. Filter(q, S) = [k \in 1 .. n |-> q[Nth(K, k)]]
  BY DEF Filter
<1>3. \A k \in 1 .. n : Nth(K, k) \in K
  BY <1>1, NthFacts
<1>4. \A i \in K : q[i] \in D
  BY LenProperties, ElementOfSeq
<1> HIDE DEF K, n
<1>5. Filter(q, S) \in [1 .. n -> D]
  BY <1>2, <1>3, <1>4
<1>6. Filter(q, S) \in Seq(D)
  BY <1>1, <1>5, SeqDef
<1>7. \A i \in K : \E k \in 1 .. n : Nth(K, k) = i
  BY <1>1, NthFacts DEF n
<1>8. Range(Filter(q, S)) = {q[i] : i \in K}
  BY <1>2, <1>3, <1>7 DEF Range
<1>9. {q[i] : i \in K} = Range(q) \cap S
  BY DEF K, Range
<1>10. ASSUME IsInjective(q) PROVE IsInjective(Filter(q, S))
  <2>1. DOMAIN Filter(q, S) = 1 .. n
    BY <1>5
  <2>2. \A k, l \in 1 .. n : Nth(K, k) = Nth(K, l) => k = l
    BY <1>1, NthFacts DEF n
  <2>3. K \subseteq DOMAIN q
    BY DEF K
  <2> SUFFICES ASSUME NEW k \in 1 .. n, NEW l \in 1 .. n,
                      Filter(q, S)[k] = Filter(q, S)[l]
               PROVE  k = l
    BY <2>1 DEF IsInjective
  <2>4. q[Nth(K, k)] = q[Nth(K, l)]
    BY <1>2
  <2>5. Nth(K, k) = Nth(K, l)
    BY <1>3, <1>10, <2>3, <2>4 DEF IsInjective
  <2> QED
    BY <2>2, <2>5
<1> QED
  BY <1>6, <1>8, <1>9, <1>10

-----------------------------------------------------------------------------
(* Types, and the queue.                                                   *)

\* The inductive invariant: a session that is open stands in the table, a
\* thread that was started has its players and looks only at those it has,
\* and a room that has started is full.
Started(r) == room[r] \in {"started", "ending", "over"}

TableInv == \A s \in Session : link[s] = "open" => sessions[SocketOf[s]] = s

ThreadInv ==
    \A t \in Thread :
        /\ step[t] # "unused" => roster[t] \in [1 .. MAX_PLAYERS -> Session]
        /\ step[t] \in {"linking", "unlinking"} => at[t] <= MAX_PLAYERS
        /\ step[t] \in {"seating", "linking"} => gmPtr[t] \in Room

FullInv == \A r \in Room : Started(r) => Len(slots[r]) = MAX_PLAYERS

QueueInv == TypeOK /\ WaiterIsQueued /\ TableInv /\ ThreadInv /\ FullInv

\* Room numbers start at 1.
LEMMA RoomFacts ==
    /\ Thread = Room /\ Room \subseteq Nat \ {0} /\ NoRoom \notin Room
    /\ MAX_PLAYERS \in Nat \ {0}
    /\ \A s \in Session : s # NoSession /\ SocketOf[s] \in Socket
    /\ \A t \in Thread : Second[t] \in RoomId
  BY MatchAssumption DEF Thread, Room, NoRoom, RoomId

\* What GetWaitingPlayers leaves in the queue, and whom it counts.
LEMMA QueueFacts ==
    ASSUME TypeOK
    PROVE  /\ CleanQueue \in Seq(Socket)
           /\ Range(CleanQueue) = Range(queue) \cap Valid
           /\ Len(GetWaitingPlayers) = MAX_PLAYERS =>
                 GetWaitingPlayers \in [1 .. MAX_PLAYERS -> Session]
<1>1. /\ CleanQueue \in Seq(Socket)
      /\ Range(CleanQueue) = Range(queue) \cap Valid
  BY FilterFacts DEF TypeOK, CleanQueue
<1>2. PICK n \in Nat : CleanQueue \in [1 .. n -> Socket]
  BY <1>1, SeqDef
<1>3. \A k \in 1 .. n : CleanQueue[k] \in Valid
  BY <1>1, <1>2 DEF Range
<1>4. \A x \in Valid : sessions[x] \in Session
  BY DEF Valid, TypeOK
<1>5. GetWaitingPlayers \in [1 .. n -> Session]
  BY <1>2, <1>3, <1>4 DEF GetWaitingPlayers
<1>6. Len(GetWaitingPlayers) = n
  BY <1>2, <1>5, SeqDef, LenProperties
<1> QED
  BY <1>1, <1>5, <1>6

\* An element that is appended joins those that were there.
LEMMA RangeOfAppend ==
    ASSUME NEW D, NEW q \in Seq(D), NEW e \in D
    PROVE  /\ Append(q, e) \in Seq(D)
           /\ Len(Append(q, e)) = Len(q) + 1
           /\ Range(Append(q, e)) = Range(q) \cup {e}
           /\ Append(q, e)[Len(q) + 1] = e
           /\ \A k \in 1 .. Len(q) : Append(q, e)[k] = q[k]
<1>1. /\ Len(q) \in Nat /\ DOMAIN q = 1 .. Len(q)
      /\ Append(q, e) \in Seq(D)
      /\ Len(Append(q, e)) = Len(q) + 1
      /\ Append(q, e)[Len(q) + 1] = e
      /\ \A k \in 1 .. Len(q) : Append(q, e)[k] = q[k]
  BY LenProperties
<1>2. DOMAIN Append(q, e) = 1 .. Len(q) + 1
  BY <1>1, LenProperties
<1>3. Range(Append(q, e)) = Range(q) \cup {e}
  BY <1>1, <1>2 DEF Range
<1> QED
  BY <1>1, <1>3

LEMMA QueueInit == Init => QueueInv
<1> SUFFICES ASSUME Init PROVE QueueInv
  OBVIOUS
<1>1. TypeOK
  <2>1. queue \in Seq(Socket) /\ \A r \in Room : slots[r] \in Seq(Session)
    BY EmptySeq DEF Init
  <2>2. \A r \in Room : Len(slots[r]) <= MAX_PLAYERS
    BY RoomFacts, EmptySeq DEF Init
  <2>3. at \in [Thread -> 1 .. MAX_PLAYERS + 1]
        /\ released \in [Room -> 0 .. 2 * MAX_PLAYERS]
        /\ asks \in [Session -> 0 .. MaxAsks]
    BY RoomFacts, MatchAssumption DEF Init
  <2> QED
    BY <2>1, <2>2, <2>3 DEF Init, TypeOK, NoRoom
<1>2. WaiterIsQueued /\ TableInv /\ ThreadInv /\ FullInv
  BY DEF Init, WaiterIsQueued, TableInv, ThreadInv, FullInv, Started
<1> QED
  BY <1>1, <1>2 DEF QueueInv

\* The steps of connections and packets.
LEMMA SessionStep ==
    ASSUME QueueInv, NEW s \in Session,
           \/ Connect(s) \/ Close(s) \/ Dispatch(s) \/ Login(s)
           \/ PacketIgnored(s) \/ AddToMatchingQueue(s)
           \/ RemoveFromMatchingQueue(s)
    PROVE  QueueInv'
<1> USE RoomFacts DEF QueueInv, fields, table, threads, rooms, Returns
<1>1. UNCHANGED <<threads, rooms>>
  BY DEF Connect, Close, Dispatch, Login, PacketIgnored, AddToMatchingQueue,
         RemoveFromMatchingQueue
<1>2. ThreadInv' /\ FullInv'
  BY <1>1 DEF ThreadInv, FullInv, Started
<1>3. CASE Connect(s)
  <2>1. TypeOK'
    BY <1>3 DEF Connect, TypeOK
  <2>2. WaiterIsQueued'
    BY <1>3 DEF Connect, TypeOK, WaiterIsQueued
  <2>3. TableInv'
    BY <1>3 DEF Connect, TypeOK, TableInv
  <2> QED
    BY <1>2, <2>1, <2>2, <2>3
<1>4. CASE Close(s)
  <2>1. TypeOK'
    BY <1>4 DEF Close, TypeOK
  <2>2. WaiterIsQueued'
    BY <1>4 DEF Close, TypeOK, WaiterIsQueued
  <2>3. TableInv'
    BY <1>4 DEF Close, TypeOK, TableInv
  <2> QED
    BY <1>2, <2>1, <2>2, <2>3
<1>5. CASE Dispatch(s) \/ Login(s) \/ PacketIgnored(s)
  <2>1. TypeOK'
    <3>1. CASE Dispatch(s)
      BY <3>1 DEF Dispatch, TypeOK
    <3>2. CASE Login(s)
      BY <3>2 DEF Login, TypeOK
    <3>3. CASE PacketIgnored(s)
      BY <3>3 DEF PacketIgnored, TypeOK
    <3> QED
      BY <1>5, <3>1, <3>2, <3>3
  <2>2. WaiterIsQueued' /\ TableInv'
    BY <1>5 DEF Dispatch, Login, PacketIgnored, WaiterIsQueued, TableInv
  <2> QED
    BY <1>2, <2>1, <2>2
<1>6. CASE AddToMatchingQueue(s)
  <2>1. queue' \in Seq(Socket)
        /\ Range(queue') = Range(queue) \cup {SocketOf[s]}
    BY <1>6, RangeOfAppend DEF AddToMatchingQueue, TypeOK
  <2>2. asks' \in [Session -> 0 .. MaxAsks]
    BY <1>6, MatchAssumption DEF AddToMatchingQueue, TypeOK
  <2>3. TypeOK'
    BY <1>6, <2>1, <2>2 DEF AddToMatchingQueue, TypeOK
  <2>4. WaiterIsQueued' /\ TableInv'
    BY <1>6, <2>1 DEF AddToMatchingQueue, TypeOK, WaiterIsQueued, TableInv
  <2> QED
    BY <1>2, <2>3, <2>4
<1>7. CASE RemoveFromMatchingQueue(s)
  <2>1. TypeOK'
    BY <1>7 DEF RemoveFromMatchingQueue, TypeOK
  <2>2. WaiterIsQueued' /\ TableInv'
    BY <1>7 DEF RemoveFromMatchingQueue, TypeOK, WaiterIsQueued, TableInv
  <2> QED
    BY <1>2, <2>1, <2>2
<1> QED
  BY <1>3, <1>4, <1>5, <1>6, <1>7

\* The step that counts: whoever waits stays in the queue, and whoever is
\* counted is a session.
LEMMA CountStep ==
    ASSUME QueueInv, NEW s \in Session, CountWaitingPlayers(s)
    PROVE  QueueInv'
<1> USE RoomFacts DEF QueueInv, fields, table, rooms, Returns
<1>1. /\ queue' = CleanQueue /\ CleanQueue \in Seq(Socket)
      /\ Range(CleanQueue) = Range(queue) \cap Valid
  BY QueueFacts DEF CountWaitingPlayers
<1>2. UNCHANGED <<sessions, link, waiting, slots, room, at, gmPtr>>
  BY DEF CountWaitingPlayers
<1>3. WaiterIsQueued'
  <2> SUFFICES ASSUME NEW u \in Session, link[u] = "open", waiting[u] = "asked"
               PROVE  SocketOf[u] \in Range(CleanQueue)
    BY <1>1, <1>2 DEF WaiterIsQueued
  <2>1. SocketOf[u] \in Range(queue)
    BY DEF WaiterIsQueued
  <2>2. sessions[SocketOf[u]] = u
    BY DEF TableInv
  <2>3. SocketOf[u] \in Valid
    BY <2>2 DEF Valid
  <2> QED
    BY <1>1, <2>1, <2>3
<1>4. TableInv' /\ FullInv'
  BY <1>2 DEF TableInv, FullInv, Started
<1>5. CASE UNCHANGED <<step, roster>>
  <2>1. TypeOK'
    BY <1>1, <1>5 DEF CountWaitingPlayers, TypeOK
  <2>2. ThreadInv'
    BY <1>2, <1>5 DEF ThreadInv
  <2> QED
    BY <1>3, <1>4, <2>1, <2>2
<1>6. ASSUME NEW t \in Thread,
             step[t] = "unused",
             step' = [step EXCEPT ![t] = "spawned"],
             roster' = [roster EXCEPT ![t] = GetWaitingPlayers],
             Len(GetWaitingPlayers) = MAX_PLAYERS
      PROVE  QueueInv'
  <2>1. GetWaitingPlayers \in [1 .. MAX_PLAYERS -> Session]
    BY <1>6, QueueFacts
  <2>2. roster' \in [Thread -> {<<>>} \cup [1 .. MAX_PLAYERS -> Session]]
    BY <1>6, <2>1 DEF TypeOK
  <2>3. step' \in [Thread -> {"unused", "spawned", "inserted", "seating",
                              "linking", "failed", "erased", "rollback",
                              "unlinking", "wild", "done"}]
    BY <1>6 DEF TypeOK
  <2>4. handler' \in [Session -> {"idle", "auth", "lobby", "queued"}]
    BY DEF CountWaitingPlayers, TypeOK
  <2>5. TypeOK'
    <3>1. UNCHANGED <<sessions, asks, link, waiting, state, gm, at, gmPtr,
                      activeGames, slots, room, released>>
      BY DEF CountWaitingPlayers
    <3>2. queue' \in Seq(Socket)
      BY <1>1
    <3> QED
      BY <2>2, <2>3, <2>4, <3>1, <3>2 DEF TypeOK
  <2>6. ThreadInv'
    <3> SUFFICES ASSUME NEW u \in Thread
                 PROVE  /\ step'[u] # "unused" =>
                              roster'[u] \in [1 .. MAX_PLAYERS -> Session]
                        /\ step'[u] \in {"linking", "unlinking"} =>
                              at[u] <= MAX_PLAYERS
                        /\ step'[u] \in {"seating", "linking"} =>
                              gmPtr[u] \in Room
      BY <1>2 DEF ThreadInv
    <3>1. CASE u = t
      BY <1>6, <2>1, <3>1 DEF TypeOK
    <3>2. CASE u # t
      BY <1>6, <3>2 DEF TypeOK, ThreadInv
    <3> QED
      BY <3>1, <3>2
  <2> QED
    BY <1>3, <1>4, <2>5, <2>6
<1> QED
  BY <1>5, <1>6 DEF CountWaitingPlayers, IsFullMatch

\* Rooms and creation threads leave the table and the queue alone; at most
\* they end somebody's waiting.
LEMMA OutsideQueue ==
    ASSUME QueueInv, UNCHANGED <<table, link>>,
           \/ UNCHANGED waiting
           \/ \E s \in Session : waiting' = [waiting EXCEPT ![s] = "no"]
    PROVE  WaiterIsQueued' /\ TableInv'
  BY DEF QueueInv, TypeOK, WaiterIsQueued, TableInv, table

\* What ~GameManager does to fields and seats keeps their types, and empties
\* the rooms it destroys.
LEMMA DestroyedTyped ==
    ASSUME TypeOK, NEW R, Destroyed(R)
    PROVE  /\ state' \in [Session -> {"AUTHENTICATING", "IN_LOBBY", "IN_GAME"}]
           /\ gm' \in [Session -> Room \cup {NoRoom}]
           /\ slots' \in [Room -> Seq(Session)]
           /\ \A r \in Room : Len(slots'[r]) <= MAX_PLAYERS
           /\ \A r \in Room : slots'[r] = IF r \in R THEN <<>> ELSE slots[r]
<1>1. <<>> \in Seq(Session) /\ Len(<<>>) = 0
  BY EmptySeq
<1>2. slots' = [r \in Room |-> IF r \in R THEN <<>> ELSE slots[r]]
  BY DEF Destroyed
<1>3. slots' \in [Room -> Seq(Session)]
  BY <1>1, <1>2 DEF TypeOK
<1>4. \A r \in Room : Len(slots'[r]) <= MAX_PLAYERS
  BY <1>1, <1>2, RoomFacts DEF TypeOK
<1>5. /\ state' \in [Session -> {"AUTHENTICATING", "IN_LOBBY", "IN_GAME"}]
      /\ gm' \in [Session -> Room \cup {NoRoom}]
  BY DEF Destroyed, TypeOK
<1> QED
  BY <1>2, <1>3, <1>4, <1>5

\* EndGame of a room that runs.
LEMMA GameStep ==
    ASSUME QueueInv, NEW r \in Room,
           GameEnds(r) \/ Release(r) \/ EndGameReturns(r)
    PROVE  QueueInv'
<1> USE RoomFacts DEF QueueInv, fields, threads
<1>1. WaiterIsQueued' /\ TableInv'
  BY OutsideQueue DEF GameEnds, Release, EndGameReturns
<1>2. ThreadInv'
  BY DEF GameEnds, Release, EndGameReturns, ThreadInv
<1>3. CASE GameEnds(r) \/ EndGameReturns(r)
  <2>1. TypeOK'
    <3>1. CASE GameEnds(r)
      <4>1. released' \in [Room -> 0 .. 2 * MAX_PLAYERS]
        BY <3>1 DEF GameEnds, TypeOK
      <4> QED
        BY <3>1, <4>1 DEF GameEnds, TypeOK, table
    <3>2. CASE EndGameReturns(r)
      BY <3>2 DEF EndGameReturns, TypeOK, table
    <3> QED
      BY <1>3, <3>1, <3>2
  <2>2. FullInv'
    BY <1>3 DEF GameEnds, EndGameReturns, TypeOK, FullInv, Started
  <2> QED
    BY <1>1, <1>2, <2>1, <2>2
<1>4. CASE Release(r)
  <2> DEFINE k == released[r] \div 2 + 1
  <2>1. released[r] \in 0 .. 2 * MAX_PLAYERS - 1
    BY <1>4 DEF Release, TypeOK
  <2>2. k \in 1 .. MAX_PLAYERS
    BY <2>1
  <2>3. Len(slots[r]) = MAX_PLAYERS
    BY <1>4 DEF Release, FullInv, Started
  <2>4. slots[r] \in Seq(Session)
    BY DEF TypeOK
  <2>5. slots[r][k] \in Session
    BY <2>2, <2>3, <2>4, ElementOfSeq
  <2>6. /\ state' \in [Session -> {"AUTHENTICATING", "IN_LOBBY", "IN_GAME"}]
        /\ gm' \in [Session -> Room \cup {NoRoom}]
    <3>1. /\ state \in [Session -> {"AUTHENTICATING", "IN_LOBBY", "IN_GAME"}]
          /\ gm \in [Session -> Room \cup {NoRoom}]
      BY DEF TypeOK
    <3>2. \/ UNCHANGED gm /\ state' = [state EXCEPT ![slots[r][k]] = "IN_LOBBY"]
          \/ UNCHANGED state /\ gm' = [gm EXCEPT ![slots[r][k]] = NoRoom]
      BY <1>4 DEF Release
    <3> HIDE DEF k
    <3> QED
      BY <2>5, <3>1, <3>2
  <2>7. released' \in [Room -> 0 .. 2 * MAX_PLAYERS]
    <3>1. released[r] + 1 \in 0 .. 2 * MAX_PLAYERS
      BY <2>1
    <3> QED
      BY <1>4, <3>1 DEF Release, TypeOK
  <2>8. TypeOK'
    BY <1>4, <2>6, <2>7 DEF Release, TypeOK, table
  <2>9. FullInv'
    BY <1>4 DEF Release, FullInv, Started
  <2> QED
    BY <1>1, <1>2, <2>8, <2>9
<1> QED
  BY <1>3, <1>4

\* The player a thread is dealing with.
LEMMA PlayerAt ==
    ASSUME QueueInv, NEW t \in Thread, step[t] # "unused", at[t] <= MAX_PLAYERS
    PROVE  at[t] + 1 \in 1 .. MAX_PLAYERS + 1 /\ roster[t][at[t]] \in Session
<1>1. at[t] \in 1 .. MAX_PLAYERS /\ MAX_PLAYERS \in Nat
  BY RoomFacts DEF QueueInv, TypeOK
<1>2. roster[t] \in [1 .. MAX_PLAYERS -> Session]
  BY DEF QueueInv, ThreadInv
<1> QED
  BY <1>1, <1>2

\* Every step of a creation thread.
LEMMA ThreadStep ==
    ASSUME QueueInv, NEW t \in Thread, CreateGameRoom(t)
    PROVE  QueueInv'
<1> USE RoomFacts DEF QueueInv, fields, table, Goto
<1>1. WaiterIsQueued' /\ TableInv'
  <2>1. UNCHANGED <<table, link>>
    BY DEF CreateGameRoom, InsertRoom, FindRoom, UsesDestroyedRoom,
           SkipClosedPlayer, SeatPlayer, LinkPlayer, StartGame, EraseRoom,
           ReturnToLobby, UnlinkPlayer, RollbackReturns
  <2>2. CASE LinkPlayer(t) \/ UnlinkPlayer(t)
    <3>1. roster[t][at[t]] \in Session
      BY <2>2, PlayerAt DEF LinkPlayer, UnlinkPlayer, ThreadInv
    <3>2. waiting' = [waiting EXCEPT ![roster[t][at[t]]] = "no"]
      BY <2>2 DEF LinkPlayer, UnlinkPlayer
    <3> QED
      BY <2>1, <3>1, <3>2, OutsideQueue
  <2>3. CASE UNCHANGED waiting
    BY <2>1, <2>3, OutsideQueue
  <2> QED
    BY <2>2, <2>3
    DEF CreateGameRoom, InsertRoom, FindRoom, UsesDestroyedRoom,
        SkipClosedPlayer, SeatPlayer, StartGame, EraseRoom, ReturnToLobby,
        RollbackReturns
<1>2. CASE InsertRoom(t)
  <2> DEFINE old == {activeGames[Second[t]]} \ {NoRoom}
  <2>1. Destroyed(old)
    BY <1>2 DEF InsertRoom
  <2>2. /\ activeGames' \in [RoomId -> Room \cup {NoRoom}]
        /\ step' = [step EXCEPT ![t] = "inserted"]
        /\ UNCHANGED <<queue, sessions, asks, link, waiting, handler, roster,
                       at, gmPtr, released>>
    BY <1>2 DEF InsertRoom, TypeOK
  <2>3. room' = [r \in Room |-> IF r = t THEN "filling"
                                ELSE IF r \in old THEN "destroyed" ELSE room[r]]
    BY <1>2 DEF InsertRoom
  <2>4. room' \in [Room -> {"none", "filling", "started", "ending", "over",
                            "destroyed"}]
    BY <2>3 DEF TypeOK
  <2>5. TypeOK'
    BY <2>1, <2>2, <2>4, DestroyedTyped DEF TypeOK
  <2>6. FullInv'
    BY <2>1, <2>3, DestroyedTyped DEF FullInv, Started
  <2>7. ThreadInv'
    BY <1>2, <2>2 DEF InsertRoom, ThreadInv, TypeOK
  <2> QED
    BY <1>1, <2>5, <2>6, <2>7
<1>3. CASE FindRoom(t)
  <2>1. activeGames[Second[t]] \in Room \cup {NoRoom}
    BY DEF TypeOK
  <2>2. TypeOK'
    BY <1>3, <2>1 DEF FindRoom, TypeOK, rooms
  <2>3. FullInv'
    BY <1>3 DEF FindRoom, FullInv, Started, rooms
  <2>4. ThreadInv'
    BY <1>3, <2>1 DEF FindRoom, ThreadInv, TypeOK
  <2> QED
    BY <1>1, <2>2, <2>3, <2>4
<1>4. CASE UsesDestroyedRoom(t) \/ RollbackReturns(t)
  <2>1. TypeOK'
    <3>1. CASE UsesDestroyedRoom(t)
      BY <3>1 DEF UsesDestroyedRoom, TypeOK, rooms
    <3>2. CASE RollbackReturns(t)
      BY <3>2 DEF RollbackReturns, TypeOK, rooms
    <3> QED
      BY <1>4, <3>1, <3>2
  <2>2. FullInv'
    BY <1>4 DEF UsesDestroyedRoom, RollbackReturns, FullInv, Started, rooms
  <2>3. ThreadInv'
    BY <1>4 DEF UsesDestroyedRoom, RollbackReturns, ThreadInv, TypeOK
  <2> QED
    BY <1>1, <2>1, <2>2, <2>3
<1>5. CASE SkipClosedPlayer(t)
  <2>1. at' \in [Thread -> 1 .. MAX_PLAYERS + 1]
    BY <1>5 DEF SkipClosedPlayer, TypeOK
  <2>2. TypeOK'
    BY <1>5, <2>1 DEF SkipClosedPlayer, TypeOK, rooms
  <2>3. FullInv'
    BY <1>5 DEF SkipClosedPlayer, FullInv, Started, rooms
  <2>4. ThreadInv'
    BY <1>5 DEF SkipClosedPlayer, ThreadInv, TypeOK
  <2> QED
    BY <1>1, <2>2, <2>3, <2>4
<1>6. CASE SeatPlayer(t)
  <2>1. roster[t][at[t]] \in Session /\ gmPtr[t] \in Room
    BY <1>6, PlayerAt DEF SeatPlayer, ThreadInv
  <2>2. gm' \in [Session -> Room \cup {NoRoom}]
    BY <1>6, <2>1 DEF SeatPlayer, TypeOK
  <2>3. /\ slots' \in [Room -> Seq(Session)]
        /\ \A r \in Room : Len(slots'[r]) <= MAX_PLAYERS
        /\ \A r \in Room : Len(slots[r]) = MAX_PLAYERS => slots'[r] = slots[r]
    <3>1. CASE slots' = slots
      BY <3>1 DEF TypeOK
    <3>2. CASE /\ Len(slots[gmPtr[t]]) < MAX_PLAYERS
               /\ slots' = [slots EXCEPT
                               ![gmPtr[t]] = Append(@, roster[t][at[t]])]
      <4>1. slots[gmPtr[t]] \in Seq(Session)
        BY <2>1 DEF TypeOK
      <4>2. /\ Append(slots[gmPtr[t]], roster[t][at[t]]) \in Seq(Session)
            /\ Len(Append(slots[gmPtr[t]], roster[t][at[t]])) =
                 Len(slots[gmPtr[t]]) + 1
        BY <2>1, <4>1, RangeOfAppend
      <4>3. Len(slots[gmPtr[t]]) + 1 <= MAX_PLAYERS
        BY <3>2, <4>1, LenProperties
      <4> QED
        BY <2>1, <3>2, <4>2, <4>3 DEF TypeOK
    <3> QED
      BY <1>6, <3>1, <3>2 DEF SeatPlayer
  <2>4. TypeOK'
    <3>1. step' \in [Thread -> {"unused", "spawned", "inserted", "seating",
                                "linking", "failed", "erased", "rollback",
                                "unlinking", "wild", "done"}]
      BY <1>6 DEF SeatPlayer, TypeOK
    <3>2. UNCHANGED <<queue, sessions, asks, link, waiting, state, handler,
                      roster, at, gmPtr, activeGames, room, released>>
      BY <1>6 DEF SeatPlayer
    <3> QED
      BY <2>2, <2>3, <3>1, <3>2 DEF TypeOK
  <2>5. FullInv'
    BY <1>6, <2>3 DEF SeatPlayer, FullInv, Started
  <2>6. ThreadInv'
    BY <1>6 DEF SeatPlayer, ThreadInv, TypeOK
  <2> QED
    BY <1>1, <2>4, <2>5, <2>6
<1>7. CASE LinkPlayer(t)
  <2>1. roster[t][at[t]] \in Session /\ at[t] + 1 \in 1 .. MAX_PLAYERS + 1
    BY <1>7, PlayerAt DEF LinkPlayer, ThreadInv
  <2>2. TypeOK'
    BY <1>7, <2>1 DEF LinkPlayer, TypeOK, rooms
  <2>3. FullInv'
    BY <1>7 DEF LinkPlayer, FullInv, Started, rooms
  <2>4. ThreadInv'
    BY <1>7 DEF LinkPlayer, ThreadInv, TypeOK
  <2> QED
    BY <1>1, <2>2, <2>3, <2>4
<1>8. CASE StartGame(t)
  <2>1. gmPtr[t] \in Room
    BY <1>8 DEF StartGame, ThreadInv
  <2>2. TypeOK'
    <3>1. room' \in [Room -> {"none", "filling", "started", "ending", "over",
                              "destroyed"}]
      <4>1. room' = room \/ room' = [room EXCEPT ![gmPtr[t]] = "started"]
        BY <1>8 DEF StartGame
      <4> QED
        BY <2>1, <4>1 DEF TypeOK
    <3>2. step' = [step EXCEPT ![t] = "done"]
          \/ step' = [step EXCEPT ![t] = "failed"]
      BY <1>8 DEF StartGame
    <3>3. UNCHANGED <<table, link, fields, handler, roster, at, gmPtr,
                      activeGames, slots, released>>
      BY <1>8 DEF StartGame
    <3>4. step' \in [Thread -> {"unused", "spawned", "inserted", "seating",
                                "linking", "failed", "erased", "rollback",
                                "unlinking", "wild", "done"}]
      BY <3>2 DEF TypeOK
    <3> QED
      BY <3>1, <3>3, <3>4 DEF TypeOK
  <2>3. FullInv'
    <3>1. UNCHANGED slots
      BY <1>8 DEF StartGame
    <3>2. CASE CanStart(gmPtr[t])
      <4>1. room' = [room EXCEPT ![gmPtr[t]] = "started"]
        BY <1>8, <3>2 DEF StartGame
      <4>2. \A r \in Room : r # gmPtr[t] => room'[r] = room[r]
        BY <4>1 DEF TypeOK
      <4> QED
        BY <3>1, <3>2, <4>2 DEF FullInv, Started, CanStart
    <3>3. CASE ~CanStart(gmPtr[t])
      <4>1. UNCHANGED room
        BY <1>8, <3>3 DEF StartGame
      <4> QED
        BY <3>1, <4>1 DEF FullInv, Started
    <3> QED
      BY <3>2, <3>3
  <2>4. ThreadInv'
    BY <1>8 DEF StartGame, ThreadInv, TypeOK
  <2> QED
    BY <1>1, <2>2, <2>3, <2>4
<1>9. CASE EraseRoom(t)
  <2> DEFINE old == {activeGames[Second[t]]} \ {NoRoom}
  <2>1. Destroyed(old)
    BY <1>9 DEF EraseRoom
  <2>2. /\ activeGames' \in [RoomId -> Room \cup {NoRoom}]
        /\ step' \in [Thread -> {"unused", "spawned", "inserted", "seating",
                                 "linking", "failed", "erased", "rollback",
                                 "unlinking", "wild", "done"}]
        /\ at' \in [Thread -> 1 .. MAX_PLAYERS + 1]
        /\ UNCHANGED <<queue, sessions, asks, link, waiting, handler, roster,
                       gmPtr, released>>
    BY <1>9 DEF EraseRoom, TypeOK
  <2>3. room' = [r \in Room |-> IF r \in old THEN "destroyed" ELSE room[r]]
    BY <1>9 DEF EraseRoom
  <2>4. room' \in [Room -> {"none", "filling", "started", "ending", "over",
                            "destroyed"}]
    BY <2>3 DEF TypeOK
  <2>5. TypeOK'
    BY <2>1, <2>2, <2>4, DestroyedTyped DEF TypeOK
  <2>6. FullInv'
    BY <2>1, <2>3, DestroyedTyped DEF FullInv, Started
  <2>7. ThreadInv'
    BY <1>9 DEF EraseRoom, ThreadInv, TypeOK
  <2> QED
    BY <1>1, <2>5, <2>6, <2>7
<1>10. CASE ReturnToLobby(t)
  <2>1. roster[t][at[t]] \in Session
    BY <1>10, PlayerAt DEF ReturnToLobby
  <2>2. TypeOK'
    BY <1>10, <2>1 DEF ReturnToLobby, TypeOK, rooms
  <2>3. FullInv'
    BY <1>10 DEF ReturnToLobby, FullInv, Started, rooms
  <2>4. ThreadInv'
    BY <1>10 DEF ReturnToLobby, ThreadInv, TypeOK
  <2> QED
    BY <1>1, <2>2, <2>3, <2>4
<1>11. CASE UnlinkPlayer(t)
  <2>1. roster[t][at[t]] \in Session /\ at[t] + 1 \in 1 .. MAX_PLAYERS + 1
    BY <1>11, PlayerAt DEF UnlinkPlayer, ThreadInv
  <2>2. TypeOK'
    BY <1>11, <2>1 DEF UnlinkPlayer, TypeOK, rooms
  <2>3. FullInv'
    BY <1>11 DEF UnlinkPlayer, FullInv, Started, rooms
  <2>4. ThreadInv'
    BY <1>11 DEF UnlinkPlayer, ThreadInv, TypeOK
  <2> QED
    BY <1>1, <2>2, <2>3, <2>4
<1> QED
  BY <1>2, <1>3, <1>4, <1>5, <1>6, <1>7, <1>8, <1>9, <1>10, <1>11
  DEF CreateGameRoom

LEMMA QueueStep == QueueInv /\ [Next]_vars => QueueInv'
<1> SUFFICES ASSUME QueueInv, [Next]_vars PROVE QueueInv'
  OBVIOUS
<1>1. CASE UNCHANGED vars
  BY <1>1 DEF vars, table, fields, threads, rooms, QueueInv, TypeOK,
              WaiterIsQueued, TableInv, ThreadInv, FullInv, Started
<1> QED
  BY <1>1, SessionStep, CountStep, GameStep, ThreadStep DEF Next, Worker

LEMMA QueueCorrect == Spec => []QueueInv
<1> QED
  BY QueueInit, QueueStep, PTL DEF Spec

\* The variables keep the types the headers declare.
THEOREM MatchTypeCorrect == Spec => []TypeOK
<1>1. QueueInv => TypeOK
  BY DEF QueueInv
<1> QED
  BY <1>1, QueueCorrect, PTL

\* Nobody who waits is lost from the queue.
THEOREM WaitersAreQueued == Spec => []WaiterIsQueued
<1>1. QueueInv => WaiterIsQueued
  BY DEF QueueInv
<1> QED
  BY <1>1, QueueCorrect, PTL

-----------------------------------------------------------------------------
(* Rooms and their players, with one room a second.                        *)

\* The first n players of thread t have been dealt with: its room seats all
\* of them, in order, or fewer.
Seats(t, n) ==
    /\ Len(slots[t]) <= n
    /\ Len(slots[t]) = n => \A k \in 1 .. n : slots[t][k] = roster[t][k]

\* Where a thread is says what its room is like.
RoomInv(t) ==
    /\ step[t] \in {"unused", "spawned"} =>
          room[t] = "none" /\ activeGames[Second[t]] = NoRoom
    /\ step[t] \in {"unused", "spawned", "inserted"} =>
          at[t] = 1 /\ slots[t] = <<>>
    /\ step[t] \in {"inserted", "seating", "linking", "failed"} =>
          room[t] = "filling" /\ activeGames[Second[t]] = t
    /\ step[t] \in {"seating", "linking"} => gmPtr[t] = t
    /\ step[t] = "seating" => Seats(t, at[t] - 1)
    /\ step[t] = "linking" => Seats(t, at[t])
    /\ step[t] \in {"erased", "rollback", "unlinking"} =>
          room[t] = "destroyed" /\ activeGames[Second[t]] = NoRoom
    /\ step[t] = "done" =>
          \/ Started(t) /\ slots[t] = roster[t]
          \/ room[t] = "destroyed" /\ activeGames[Second[t]] = NoRoom
    /\ step[t] # "wild"

\* The room a session points to is alive and knows the session.
LinkInv(s) == gm[s] # NoRoom => Alive(gm[s]) /\ s \in Range(slots[gm[s]])

SeatInv ==
    /\ \A t \in Thread : RoomInv(t)
    /\ \A s \in Session : LinkInv(s)

LEMMA SeatInit == Init => SeatInv
<1> SUFFICES ASSUME Init PROVE SeatInv
  OBVIOUS
<1>1. ASSUME NEW t \in Thread PROVE RoomInv(t)
  BY RoomFacts DEF Init, RoomInv
<1>2. ASSUME NEW s \in Session PROVE LinkInv(s)
  BY DEF Init, LinkInv
<1> QED
  BY <1>1, <1>2 DEF SeatInv

\* A room that nobody touches, and a link that is kept or cut.
LEMMA RoomUntouched ==
    ASSUME NEW t, RoomInv(t), step'[t] = step[t], roster'[t] = roster[t],
           at'[t] = at[t], gmPtr'[t] = gmPtr[t], slots'[t] = slots[t],
           activeGames'[Second[t]] = activeGames[Second[t]],
           room'[t] = room[t]
    PROVE  RoomInv(t)'
BY DEF RoomInv, Seats, Started

LEMMA LinkKept ==
    ASSUME NEW s, LinkInv(s),
           \/ gm'[s] = NoRoom
           \/ /\ gm'[s] = gm[s] /\ slots'[gm[s]] = slots[gm[s]]
              /\ Alive(gm[s]) => room'[gm[s]] \in
                                   {"filling", "started", "ending", "over"}
    PROVE  LinkInv(s)'
BY DEF LinkInv, Alive

\* With one room a second a thread keeps to its own room.
LEMMA OtherThreads ==
    ASSUME OneRoomPerSecond, SeatInv, NEW t \in Thread,
           \A u \in Thread \ {t} :
              /\ step'[u] = step[u] /\ roster'[u] = roster[u] /\ at'[u] = at[u]
              /\ gmPtr'[u] = gmPtr[u] /\ slots'[u] = slots[u]
              /\ room'[u] = room[u],
           \A id \in RoomId \ {Second[t]} : activeGames'[id] = activeGames[id]
    PROVE  \A u \in Thread \ {t} : RoomInv(u)'
<1> SUFFICES ASSUME NEW u \in Thread, u # t PROVE RoomInv(u)'
  OBVIOUS
<1>1. Second[u] \in RoomId \ {Second[t]}
  BY RoomFacts DEF OneRoomPerSecond
<1>2. RoomInv(u)
  BY DEF SeatInv
<1> QED
  BY <1>1, <1>2, RoomUntouched

\* A room that has started belongs to a thread that is done.
LEMMA StartedIsDone ==
    ASSUME QueueInv, SeatInv, NEW t \in Thread, Started(t)
    PROVE  step[t] = "done" /\ slots[t] = roster[t]
BY DEF SeatInv, RoomInv, Started, QueueInv, TypeOK

\* Steps of connections and packets, among them the one that starts a thread.
LEMMA SessionSeats ==
    ASSUME QueueInv, SeatInv, NEW s \in Session,
           Connect(s) \/ Close(s) \/ Dispatch(s) \/ Worker(s)
    PROVE  SeatInv'
<1> USE DEF fields, table, threads, rooms
<1>1. UNCHANGED <<gm, slots, room, at, gmPtr, activeGames>>
  BY DEF Connect, Close, Dispatch, Worker, Login, PacketIgnored,
         AddToMatchingQueue, RemoveFromMatchingQueue, CountWaitingPlayers
<1>2. ASSUME NEW u \in Session PROVE LinkInv(u)'
  BY <1>1 DEF SeatInv, LinkInv, Alive
<1>3. CASE UNCHANGED <<step, roster>>
  <2>1. ASSUME NEW t \in Thread PROVE RoomInv(t)'
    BY <1>1, <1>3, RoomUntouched DEF SeatInv
  <2> QED
    BY <1>2, <2>1 DEF SeatInv
<1>4. ASSUME NEW t \in Thread, step[t] = "unused",
             step' = [step EXCEPT ![t] = "spawned"],
             roster' = [roster EXCEPT ![t] = GetWaitingPlayers]
      PROVE  SeatInv'
  <2>1. ASSUME NEW u \in Thread, u # t PROVE RoomInv(u)'
    <3>1. step'[u] = step[u] /\ roster'[u] = roster[u]
      BY <1>4, <2>1 DEF QueueInv, TypeOK
    <3> QED
      BY <1>1, <3>1, RoomUntouched DEF SeatInv
  <2>2. RoomInv(t)'
    <3>1. step'[t] = "spawned"
      BY <1>4 DEF QueueInv, TypeOK
    <3> QED
      BY <1>1, <1>4, <3>1 DEF SeatInv, RoomInv
  <2> QED
    BY <1>2, <2>1, <2>2 DEF SeatInv
<1> QED
  BY <1>3, <1>4
  DEF Connect, Close, Dispatch, Worker, Login, PacketIgnored,
      AddToMatchingQueue, RemoveFromMatchingQueue, CountWaitingPlayers

\* EndGame moves on the life of a room and cuts links to it.
LEMMA GameSeats ==
    ASSUME QueueInv, SeatInv, NEW r \in Room,
           GameEnds(r) \/ Release(r) \/ EndGameReturns(r)
    PROVE  SeatInv'
<1> USE RoomFacts DEF fields, threads
<1>1. UNCHANGED <<step, roster, at, gmPtr, activeGames, slots>>
  BY DEF GameEnds, Release, EndGameReturns
<1>2. /\ Started(r) /\ room'[r] \in {"started", "ending", "over"}
      /\ \A u \in Room \ {r} : room'[u] = room[u]
  <2>1. CASE GameEnds(r)
    BY <2>1 DEF GameEnds, Started, QueueInv, TypeOK
  <2>2. CASE Release(r)
    BY <2>2 DEF Release, Started
  <2>3. CASE EndGameReturns(r)
    BY <2>3 DEF EndGameReturns, Started, QueueInv, TypeOK
  <2> QED
    BY <2>1, <2>2, <2>3
<1>3. ASSUME NEW t \in Thread PROVE RoomInv(t)'
  <2>1. CASE t = r
    BY <1>1, <1>2, <2>1, StartedIsDone DEF RoomInv, Started
  <2>2. CASE t # r
    BY <1>1, <1>2, <2>2, RoomUntouched DEF SeatInv
  <2> QED
    BY <2>1, <2>2
<1>4. ASSUME NEW s \in Session PROVE LinkInv(s)'
  <2>1. gm'[s] = gm[s] \/ gm'[s] = NoRoom
    BY DEF GameEnds, Release, EndGameReturns, QueueInv, TypeOK
  <2>2. gm[s] \in Room =>
          (Alive(gm[s]) => room'[gm[s]] \in
                             {"filling", "started", "ending", "over"})
    BY <1>2 DEF Alive
  <2>3. gm[s] \in Room \cup {NoRoom}
    BY DEF QueueInv, TypeOK
  <2> QED
    BY <1>1, <2>1, <2>2, <2>3, LinkKept DEF SeatInv
<1> QED
  BY <1>3, <1>4 DEF SeatInv

\* Destroying no room changes nothing; destroying one cuts every link to it.
LEMMA DestroyedLinks ==
    ASSUME QueueInv, SeatInv, NEW R \in SUBSET Room, Destroyed(R),
           NEW s \in Session
    PROVE  \/ gm'[s] = NoRoom
           \/ gm'[s] = gm[s] /\ gm[s] \notin R
<1>1. gm' = [u \in Session |->
                IF u \in UNION {Range(slots[r]) : r \in R} THEN NoRoom ELSE gm[u]]
  BY DEF Destroyed
<1>2. CASE gm[s] \in R
  <2>1. s \in Range(slots[gm[s]])
    BY <1>2, RoomFacts DEF SeatInv, LinkInv
  <2> QED
    BY <1>1, <1>2, <2>1
<1> QED
  BY <1>1, <1>2

\* A thread inserts its room, which nobody has touched before.
LEMMA InsertSeats ==
    ASSUME OneRoomPerSecond, QueueInv, SeatInv, NEW t \in Thread, InsertRoom(t)
    PROVE  SeatInv'
<1> USE RoomFacts DEF fields, table, Goto
<1>1. /\ step[t] = "spawned" /\ room[t] = "none" /\ at[t] = 1 /\ slots[t] = <<>>
      /\ activeGames[Second[t]] = NoRoom
  BY DEF InsertRoom, SeatInv, RoomInv
<1>2. /\ Destroyed({})
      /\ room' = [r \in Room |-> IF r = t THEN "filling" ELSE room[r]]
  BY <1>1 DEF InsertRoom
<1>3. /\ step' = [step EXCEPT ![t] = "inserted"]
      /\ activeGames' = [activeGames EXCEPT ![Second[t]] = t]
      /\ UNCHANGED <<roster, at, gmPtr>>
  BY DEF InsertRoom
<1>4. \A r \in Room : slots'[r] = slots[r]
  <2>1. \A r \in Room : slots'[r] = IF r \in {} THEN <<>> ELSE slots[r]
    <3>1. TypeOK /\ Destroyed({})
      BY <1>2 DEF QueueInv
    <3> HIDE DEF TypeOK
    <3> QED
      BY ONLY <3>1, DestroyedTyped
  <2> QED
    BY <2>1
<1>5. \A u \in Thread \ {t} : RoomInv(u)'
  <2>1. \A u \in Thread \ {t} : step'[u] = step[u] /\ room'[u] = room[u]
    BY <1>2, <1>3 DEF QueueInv, TypeOK
  <2>2. \A id \in RoomId \ {Second[t]} : activeGames'[id] = activeGames[id]
    BY <1>3 DEF QueueInv, TypeOK
  <2> QED
    BY <1>3, <1>4, <2>1, <2>2, OtherThreads
<1>6. RoomInv(t)'
  <2>1. /\ step'[t] = "inserted" /\ room'[t] = "filling"
        /\ activeGames'[Second[t]] = t
    BY <1>2, <1>3 DEF QueueInv, TypeOK
  <2> QED
    BY <1>1, <1>3, <1>4, <2>1 DEF RoomInv
<1>7. ASSUME NEW s \in Session PROVE LinkInv(s)'
  <2>1. gm'[s] = NoRoom \/ gm'[s] = gm[s]
    BY <1>2, DestroyedLinks
  <2>2. gm[s] \in Room \cup {NoRoom} /\ LinkInv(s)
    BY DEF QueueInv, TypeOK, SeatInv
  <2>3. gm[s] # NoRoom => gm[s] # t /\ Alive(gm[s])
    BY <1>1, <2>2 DEF LinkInv, Alive
  <2>4. gm[s] # NoRoom => room'[gm[s]] = room[gm[s]]
                          /\ slots'[gm[s]] = slots[gm[s]]
    BY <1>2, <1>4, <2>2, <2>3
  <2> QED
    BY <2>1, <2>2, <2>4, LinkKept DEF Alive
<1> QED
  BY <1>5, <1>6, <1>7 DEF SeatInv

\* A thread erases its room, once, and with it every link to it.
LEMMA EraseSeats ==
    ASSUME OneRoomPerSecond, QueueInv, SeatInv, NEW t \in Thread, EraseRoom(t)
    PROVE  SeatInv'
<1> USE RoomFacts DEF fields, table, Goto
<1> DEFINE old == {activeGames[Second[t]]} \ {NoRoom}
<1>1. /\ step[t] = "failed" => old = {t}
      /\ step[t] = "erased" => old = {} /\ room[t] = "destroyed"
      /\ step[t] \in {"failed", "erased"} /\ old \in SUBSET {t}
  BY DEF EraseRoom, SeatInv, RoomInv
<1>2. /\ Destroyed(old)
      /\ room' = [r \in Room |-> IF r \in old THEN "destroyed" ELSE room[r]]
      /\ step' = [step EXCEPT ![t] = IF step[t] = "failed" THEN "erased"
                                     ELSE "rollback"]
      /\ activeGames' = [activeGames EXCEPT ![Second[t]] = NoRoom]
      /\ at' = [at EXCEPT ![t] = 1]
      /\ UNCHANGED <<roster, gmPtr>>
  BY DEF EraseRoom
<1> HIDE DEF old
<1>3. \A r \in Room : slots'[r] = IF r \in old THEN <<>> ELSE slots[r]
  BY <1>2, DestroyedTyped DEF QueueInv
<1>4. \A u \in Thread \ {t} : RoomInv(u)'
  <2>1. \A u \in Thread \ {t} :
           /\ step'[u] = step[u] /\ room'[u] = room[u] /\ at'[u] = at[u]
           /\ slots'[u] = slots[u]
    BY <1>1, <1>2, <1>3 DEF QueueInv, TypeOK
  <2>2. \A id \in RoomId \ {Second[t]} : activeGames'[id] = activeGames[id]
    BY <1>2 DEF QueueInv, TypeOK
  <2> QED
    BY <1>2, <2>1, <2>2, OtherThreads
<1>5. RoomInv(t)'
  <2>1. step'[t] \in {"erased", "rollback"} /\ activeGames'[Second[t]] = NoRoom
    BY <1>2 DEF QueueInv, TypeOK
  <2>2. room'[t] = "destroyed"
    BY <1>1, <1>2
  <2> QED
    BY <2>1, <2>2 DEF RoomInv
<1>6. ASSUME NEW s \in Session PROVE LinkInv(s)'
  <2>1. gm'[s] = NoRoom \/ (gm'[s] = gm[s] /\ gm[s] \notin old)
    BY <1>1, <1>2, DestroyedLinks
  <2>2. gm[s] \in Room \cup {NoRoom} /\ LinkInv(s)
    BY DEF QueueInv, TypeOK, SeatInv
  <2>3. gm[s] \in Room \ old => room'[gm[s]] = room[gm[s]]
                                /\ slots'[gm[s]] = slots[gm[s]]
    BY <1>2, <1>3
  <2> QED
    BY <2>1, <2>2, <2>3, LinkKept DEF Alive
<1> QED
  BY <1>4, <1>5, <1>6 DEF SeatInv

\* A player takes the next seat: there is one, because a room never seats more
\* players than its thread has dealt with.
LEMMA SeatSeats ==
    ASSUME OneRoomPerSecond, QueueInv, SeatInv, NEW t \in Thread, SeatPlayer(t)
    PROVE  SeatInv'
<1> USE RoomFacts DEF fields, table, Goto
<1> DEFINE p == roster[t][at[t]]
<1>1. /\ step[t] = "seating" /\ gmPtr[t] = t /\ room[t] = "filling"
      /\ activeGames[Second[t]] = t /\ Seats(t, at[t] - 1)
      /\ at[t] \in 1 .. MAX_PLAYERS /\ p \in Session
      /\ slots[t] \in Seq(Session)
  <2>1. step[t] = "seating" /\ at[t] <= MAX_PLAYERS
    BY DEF SeatPlayer
  <2>2. p \in Session
    BY <2>1, PlayerAt
  <2>3. at[t] \in 1 .. MAX_PLAYERS /\ slots[t] \in Seq(Session)
    BY <2>1 DEF QueueInv, TypeOK
  <2> QED
    BY <2>1, <2>2, <2>3 DEF SeatInv, RoomInv
<1>2. Len(slots[t]) \in Nat /\ Len(slots[t]) <= at[t] - 1
  BY <1>1, LenProperties DEF Seats
<1>3. /\ slots' = [slots EXCEPT ![t] = Append(slots[t], p)]
      /\ gm' = [gm EXCEPT ![p] = t]
      /\ step' = [step EXCEPT ![t] = "linking"]
      /\ UNCHANGED <<roster, at, gmPtr, activeGames, room>>
  BY <1>1, <1>2 DEF SeatPlayer
<1> HIDE DEF p
<1>4. /\ Len(Append(slots[t], p)) = Len(slots[t]) + 1
      /\ Append(slots[t], p)[Len(slots[t]) + 1] = p
      /\ \A k \in 1 .. Len(slots[t]) : Append(slots[t], p)[k] = slots[t][k]
      /\ Range(Append(slots[t], p)) = Range(slots[t]) \cup {p}
  BY <1>1, RangeOfAppend
<1>5. slots'[t] = Append(slots[t], p) /\ \A u \in Room \ {t} : slots'[u] = slots[u]
  BY <1>3 DEF QueueInv, TypeOK
<1>6. \A u \in Thread \ {t} : RoomInv(u)'
  <2>1. \A u \in Thread \ {t} : step'[u] = step[u]
    BY <1>3 DEF QueueInv, TypeOK
  <2> QED
    BY <1>3, <1>5, <2>1, OtherThreads
<1>7. RoomInv(t)'
  <2>1. Seats(t, at[t])'
    <3>1. Len(slots'[t]) <= at[t]
      BY <1>1, <1>2, <1>4, <1>5
    <3>2. ASSUME Len(slots'[t]) = at[t], NEW k \in 1 .. at[t]
          PROVE  slots'[t][k] = roster[t][k]
      <4>1. Len(slots[t]) = at[t] - 1
        <5>1. Len(slots[t]) + 1 = at[t]
          BY <1>4, <1>5, <3>2
        <5> QED
          BY <1>1, <1>2, <5>1
      <4>2. CASE k = at[t]
        BY <1>1, <1>4, <1>5, <4>1, <4>2 DEF p
      <4>3. CASE k \in 1 .. at[t] - 1
        BY <1>1, <1>4, <1>5, <4>1, <4>3 DEF Seats
      <4> QED
        BY <1>1, <4>2, <4>3
    <3> QED
      BY <1>3, <3>1, <3>2 DEF Seats
  <2>2. step'[t] = "linking"
    BY <1>3 DEF QueueInv, TypeOK
  <2> QED
    BY <1>1, <1>3, <2>1, <2>2 DEF RoomInv
<1>8. ASSUME NEW s \in Session PROVE LinkInv(s)'
  <2>1. gm[s] \in Room \cup {NoRoom} /\ LinkInv(s)
    BY DEF QueueInv, TypeOK, SeatInv
  <2>2. CASE s = p
    <3>1. gm'[s] = t
      BY <1>3, <2>2 DEF QueueInv, TypeOK
    <3>2. s \in Range(slots'[t])
      BY <1>4, <1>5, <2>2
    <3> QED
      BY <1>1, <1>3, <3>1, <3>2 DEF LinkInv, Alive
  <2>3. CASE s # p
    <3>1. gm'[s] = gm[s]
      BY <1>3, <2>3 DEF QueueInv, TypeOK
    <3>2. \A r \in Room : Range(slots[r]) \subseteq Range(slots'[r])
      BY <1>4, <1>5
    <3> QED
      BY <1>3, <2>1, <3>1, <3>2 DEF LinkInv, Alive
  <2> QED
    BY <2>2, <2>3
<1> QED
  BY <1>6, <1>7, <1>8 DEF SeatInv

\* StartGame starts a full room; a full room seats the whole roster.
LEMMA StartSeats ==
    ASSUME OneRoomPerSecond, QueueInv, SeatInv, NEW t \in Thread, StartGame(t)
    PROVE  SeatInv'
<1> USE RoomFacts DEF fields, table, Goto
<1>1. /\ step[t] = "seating" /\ gmPtr[t] = t /\ room[t] = "filling"
      /\ activeGames[Second[t]] = t /\ Seats(t, at[t] - 1)
      /\ at[t] \in 1 .. MAX_PLAYERS + 1 /\ at[t] > MAX_PLAYERS
      /\ slots[t] \in Seq(Session)
      /\ roster[t] \in [1 .. MAX_PLAYERS -> Session]
  BY DEF StartGame, SeatInv, RoomInv, QueueInv, TypeOK, ThreadInv
<1>2. /\ UNCHANGED <<roster, at, gmPtr, activeGames, slots, gm>>
      /\ room' = IF CanStart(t) THEN [room EXCEPT ![t] = "started"] ELSE room
      /\ step' = [step EXCEPT ![t] = IF CanStart(t) THEN "done" ELSE "failed"]
  BY <1>1 DEF StartGame
<1>3. \A u \in Thread \ {t} : RoomInv(u)'
  <2>1. \A u \in Thread \ {t} : step'[u] = step[u] /\ room'[u] = room[u]
    BY <1>2 DEF QueueInv, TypeOK
  <2> QED
    BY <1>2, <2>1, OtherThreads
<1>4. RoomInv(t)'
  <2>1. CASE CanStart(t)
    <3>1. Len(slots[t]) = MAX_PLAYERS /\ at[t] - 1 = MAX_PLAYERS
      BY <1>1, <2>1 DEF CanStart
    <3>2. \A k \in 1 .. MAX_PLAYERS : slots[t][k] = roster[t][k]
      BY <1>1, <3>1 DEF Seats
    <3>3. slots[t] \in [1 .. MAX_PLAYERS -> Session]
      BY <1>1, <3>1, LenProperties
    <3>4. slots[t] = roster[t]
      BY <1>1, <3>2, <3>3
    <3>5. step'[t] = "done" /\ room'[t] = "started"
      BY <1>2, <2>1 DEF QueueInv, TypeOK
    <3> QED
      BY <1>2, <3>4, <3>5 DEF RoomInv, Started
  <2>2. CASE ~CanStart(t)
    <3>1. step'[t] = "failed" /\ room'[t] = "filling"
      BY <1>1, <1>2, <2>2 DEF QueueInv, TypeOK
    <3> QED
      BY <1>1, <1>2, <3>1 DEF RoomInv
  <2> QED
    BY <2>1, <2>2
<1>5. ASSUME NEW s \in Session PROVE LinkInv(s)'
  <2>1. gm[s] \in Room \cup {NoRoom} /\ LinkInv(s)
    BY DEF QueueInv, TypeOK, SeatInv
  <2>2. \A r \in Room : Alive(r) => room'[r] \in
                                      {"filling", "started", "ending", "over"}
    BY <1>2 DEF Alive, QueueInv, TypeOK
  <2> QED
    BY <1>2, <2>1, <2>2, LinkKept
<1> QED
  BY <1>3, <1>4, <1>5 DEF SeatInv

\* The steps of a thread that touch neither rooms nor activeGames_.
LEMMA QuietSeats ==
    ASSUME OneRoomPerSecond, QueueInv, SeatInv, NEW t \in Thread,
           \/ FindRoom(t) \/ UsesDestroyedRoom(t) \/ SkipClosedPlayer(t)
           \/ LinkPlayer(t) \/ ReturnToLobby(t) \/ UnlinkPlayer(t)
           \/ RollbackReturns(t)
    PROVE  SeatInv'
<1> USE RoomFacts DEF fields, table, rooms, Goto
<1>1. UNCHANGED <<roster, activeGames, slots, room>>
  BY DEF FindRoom, UsesDestroyedRoom, SkipClosedPlayer, LinkPlayer,
         ReturnToLobby, UnlinkPlayer, RollbackReturns
<1>2. \A u \in Thread \ {t} : RoomInv(u)'
  <2>1. \A u \in Thread \ {t} : /\ step'[u] = step[u] /\ at'[u] = at[u]
                                /\ gmPtr'[u] = gmPtr[u]
    BY DEF FindRoom, UsesDestroyedRoom, SkipClosedPlayer, LinkPlayer,
           ReturnToLobby, UnlinkPlayer, RollbackReturns, QueueInv, TypeOK
  <2> QED
    BY <1>1, <2>1, OtherThreads
<1>3. ASSUME NEW s \in Session PROVE LinkInv(s)'
  <2>1. gm'[s] = gm[s] \/ gm'[s] = NoRoom
    BY DEF FindRoom, UsesDestroyedRoom, SkipClosedPlayer, LinkPlayer,
           ReturnToLobby, UnlinkPlayer, RollbackReturns, QueueInv, TypeOK
  <2> QED
    BY <1>1, <2>1, LinkKept DEF SeatInv, Alive
<1>4. RoomInv(t)'
  <2>1. RoomInv(t) /\ at[t] \in 1 .. MAX_PLAYERS + 1
    BY DEF SeatInv, QueueInv, TypeOK
  <2>2. CASE FindRoom(t)
    <3>1. /\ step[t] = "inserted" /\ room[t] = "filling" /\ at[t] = 1
          /\ slots[t] = <<>> /\ activeGames[Second[t]] = t
      BY <2>1, <2>2 DEF FindRoom, RoomInv
    <3>2. step'[t] = "seating" /\ gmPtr'[t] = t /\ at'[t] = 1
      BY <2>2, <3>1 DEF FindRoom, QueueInv, TypeOK
    <3>3. Seats(t, 0)'
      BY <1>1, <3>1, EmptySeq DEF Seats
    <3> QED
      BY <1>1, <3>1, <3>2, <3>3 DEF RoomInv
  <2>3. ~UsesDestroyedRoom(t)
    BY <2>1 DEF UsesDestroyedRoom, RoomInv, Alive
  <2>4. CASE SkipClosedPlayer(t)
    <3>1. at'[t] = at[t] + 1 /\ step'[t] = step[t] /\ gmPtr'[t] = gmPtr[t]
          /\ step[t] \in {"seating", "rollback"}
      BY <2>4 DEF SkipClosedPlayer, QueueInv, TypeOK
    <3>2. step[t] = "seating" => Seats(t, at[t] - 1)'
      <4> SUFFICES ASSUME step[t] = "seating" PROVE Seats(t, at[t] - 1)'
        OBVIOUS
      <4>1. Len(slots[t]) \in Nat /\ Len(slots[t]) <= at[t] - 1
        BY <2>1, LenProperties DEF RoomInv, Seats, QueueInv, TypeOK
      <4> QED
        BY <1>1, <2>1, <3>1, <4>1 DEF Seats
    <3> QED
      BY <1>1, <2>1, <3>1, <3>2 DEF RoomInv
  <2>5. CASE LinkPlayer(t)
    <3>1. /\ at'[t] = at[t] + 1 /\ gmPtr'[t] = gmPtr[t]
          /\ step[t] = "linking" /\ step'[t] = "seating"
      BY <2>5 DEF LinkPlayer, QueueInv, TypeOK
    <3>2. Seats(t, at[t] - 1)'
      BY <1>1, <2>1, <3>1 DEF RoomInv, Seats
    <3> QED
      BY <1>1, <2>1, <3>1, <3>2 DEF RoomInv
  <2>6. CASE ReturnToLobby(t) \/ UnlinkPlayer(t)
    <3>1. step[t] \in {"rollback", "unlinking"}
          /\ step'[t] \in {"rollback", "unlinking"}
      BY <2>6 DEF ReturnToLobby, UnlinkPlayer, QueueInv, TypeOK
    <3> QED
      BY <1>1, <2>1, <3>1 DEF RoomInv
  <2>7. CASE RollbackReturns(t)
    <3>1. step[t] = "rollback" /\ step'[t] = "done"
      BY <2>7 DEF RollbackReturns, QueueInv, TypeOK
    <3> QED
      BY <1>1, <2>1, <3>1 DEF RoomInv
  <2> QED
    BY <2>2, <2>3, <2>4, <2>5, <2>6, <2>7
<1> QED
  BY <1>2, <1>3, <1>4 DEF SeatInv

LEMMA SeatStep ==
    ASSUME OneRoomPerSecond
    PROVE  QueueInv /\ SeatInv /\ [Next]_vars => SeatInv'
<1> SUFFICES ASSUME QueueInv, SeatInv, [Next]_vars PROVE SeatInv'
  OBVIOUS
<1>1. CASE UNCHANGED vars
  BY <1>1 DEF vars, fields, threads, rooms, SeatInv, RoomInv, LinkInv, Seats,
              Started, Alive
<1>2. ASSUME NEW t \in Thread, CreateGameRoom(t) PROVE SeatInv'
  BY <1>2, InsertSeats, EraseSeats, SeatSeats, StartSeats, QuietSeats
  DEF CreateGameRoom
<1> QED
  BY <1>1, <1>2, SessionSeats, GameSeats DEF Next

\* The invariant of rooms and links holds throughout.
LEMMA SeatCorrect == ASSUME OneRoomPerSecond PROVE Spec => []SeatInv
<1> QED
  BY SeatInit, SeatStep, QueueCorrect, PTL DEF Spec

\* With one room a second no session is left pointing to a room that is gone
\* or does not know it.
THEOREM LinksAreLive == Spec => []LinkIsLive
<1>1. SeatInv => LinkIsLive
  BY DEF SeatInv, LinkInv, LinkIsLive
<1>2. CASE OneRoomPerSecond
  BY <1>1, <1>2, SeatCorrect, PTL
<1>3. CASE ~OneRoomPerSecond
  <2>1. LinkIsLive
    BY <1>3 DEF LinkIsLive
  <2> QED
    BY <2>1, PTL
<1> QED
  BY <1>2, <1>3

\* With one room a second CreateGameRoom leaves a room that has started, or
\* nothing of it.
THEOREM FailedRoomsAreGone == Spec => []FailedRoomIsGone
<1>1. QueueInv /\ SeatInv => FailedRoomIsGone
  <2> SUFFICES ASSUME QueueInv, SeatInv, NEW t \in Thread, step[t] = "done",
                      ~Started(t)
               PROVE  /\ room[t] = "destroyed" /\ activeGames[Second[t]] = NoRoom
                      /\ \A s \in Session : gm[s] # t
    BY DEF FailedRoomIsGone, Started
  <2>1. room[t] = "destroyed" /\ activeGames[Second[t]] = NoRoom
    BY DEF SeatInv, RoomInv
  <2>2. ASSUME NEW s \in Session PROVE gm[s] # t
    BY <2>1, RoomFacts DEF SeatInv, LinkInv, Alive
  <2> QED
    BY <2>1, <2>2
<1>2. CASE OneRoomPerSecond
  BY <1>1, <1>2, SeatCorrect, QueueCorrect, PTL
<1>3. CASE ~OneRoomPerSecond
  <2>1. FailedRoomIsGone
    BY <1>3 DEF FailedRoomIsGone
  <2> QED
    BY <2>1, PTL
<1> QED
  BY <1>2, <1>3

\* With one room a second a room that has started seats the players counted
\* for it, in the order of the queue.
THEOREM StartedRoomsSeatRosters == Spec => []StartedRoomSeatsRoster
<1>1. QueueInv /\ SeatInv => StartedRoomSeatsRoster
  BY StartedIsDone, RoomFacts DEF StartedRoomSeatsRoster, Started
<1>2. CASE OneRoomPerSecond
  BY <1>1, <1>2, SeatCorrect, QueueCorrect, PTL
<1>3. CASE ~OneRoomPerSecond
  <2>1. StartedRoomSeatsRoster
    BY <1>3 DEF StartedRoomSeatsRoster
  <2> QED
    BY <2>1, PTL
<1> QED
  BY <1>2, <1>3

-----------------------------------------------------------------------------
(* What the violated claims need to hold.                                  *)

\* Only rooms of the same second end each other: with one room a second,
\* inserting a room into activeGames_, or erasing one that failed, never
\* destroys a game that runs.
THEOREM OnlySameSecondEndsGames ==
    ASSUME OneRoomPerSecond
    PROVE  Spec => RunningGameSurvives
<1> DEFINE Survives == \A r \in Room : room[r] = "started" => room'[r] # "destroyed"
<1>1. QueueInv /\ SeatInv /\ [Next]_vars => Survives
  <2> SUFFICES ASSUME QueueInv, SeatInv, [Next]_vars,
                      NEW r \in Room, room[r] = "started"
               PROVE  room'[r] # "destroyed"
    OBVIOUS
  <2> USE RoomFacts
  <2>1. ASSUME NEW t \in Thread, InsertRoom(t) PROVE room'[r] # "destroyed"
    <3>1. activeGames[Second[t]] = NoRoom
      BY <2>1 DEF InsertRoom, SeatInv, RoomInv
    <3>2. room'[r] \in {"filling", room[r]}
      BY <2>1, <3>1 DEF InsertRoom
    <3> QED
      BY <3>2
  <2>2. ASSUME NEW t \in Thread, EraseRoom(t) PROVE room'[r] # "destroyed"
    <3>1. RoomInv(t) /\ (step[t] = "failed" \/ step[t] = "erased")
      BY <2>2 DEF EraseRoom, SeatInv
    <3>2. r \notin {activeGames[Second[t]]} \ {NoRoom}
      <4>1. CASE step[t] = "failed"
        <5>1. room[t] = "filling" /\ activeGames[Second[t]] = t
          BY <3>1, <4>1 DEF RoomInv
        <5> QED
          BY <5>1
      <4>2. CASE step[t] = "erased"
        <5>1. activeGames[Second[t]] = NoRoom
          BY <3>1, <4>2 DEF RoomInv
        <5> QED
          BY <5>1
      <4> QED
        BY <3>1, <4>1, <4>2
    <3>3. room'[r] = room[r]
      BY <2>2, <3>2 DEF EraseRoom
    <3> QED
      BY <3>3
  <2>3. ASSUME NEW t \in Thread, StartGame(t) PROVE room'[r] # "destroyed"
    BY <2>3 DEF StartGame, QueueInv, TypeOK
  <2>4. ASSUME NEW t \in Thread, CreateGameRoom(t) PROVE room'[r] # "destroyed"
    BY <2>1, <2>2, <2>3, <2>4
    DEF CreateGameRoom, FindRoom, UsesDestroyedRoom, SkipClosedPlayer, SeatPlayer,
        LinkPlayer, ReturnToLobby, UnlinkPlayer, RollbackReturns, rooms
  <2>5. ASSUME NEW u \in Room, GameEnds(u) \/ Release(u) \/ EndGameReturns(u)
        PROVE  room'[r] # "destroyed"
    <3>1. room \in [Room -> {"none", "filling", "started", "ending", "over",
                             "destroyed"}]
      BY DEF QueueInv, TypeOK
    <3>2. CASE GameEnds(u)
      BY <3>1, <3>2 DEF GameEnds
    <3>3. CASE Release(u)
      BY <3>3 DEF Release
    <3>4. CASE EndGameReturns(u)
      BY <3>1, <3>4 DEF EndGameReturns
    <3> QED
      BY <2>5, <3>2, <3>3, <3>4
  <2>6. ASSUME NEW s \in Session, Connect(s) \/ Close(s) \/ Dispatch(s) \/ Worker(s)
        PROVE  UNCHANGED room
    BY <2>6 DEF Connect, Close, Dispatch, Worker, Login, PacketIgnored,
                AddToMatchingQueue, RemoveFromMatchingQueue, CountWaitingPlayers,
                rooms
  <2>7. CASE UNCHANGED vars
    BY <2>7 DEF vars, rooms
  <2> QED
    BY <2>4, <2>5, <2>6, <2>7 DEF Next
<1> QED
  BY <1>1, QueueCorrect, SeatCorrect, PTL DEF Spec, RunningGameSurvives

\* As long as nobody asks twice, no socket is in the queue twice.
AskedOnce == \A s \in Session : asks[s] <= 1

OnceInv ==
    /\ IsInjective(queue)
    /\ \A s \in Session : asks[s] = 0 => SocketOf[s] \notin Range(queue)
    /\ \A x \in Socket : sessions[x] # NoSession => SocketOf[sessions[x]] = x
    /\ RosterHasNoRepeats

LEMMA OnceStep ==
    ASSUME IsInjective(SocketOf)
    PROVE  QueueInv /\ OnceInv /\ AskedOnce' /\ [Next]_vars => OnceInv'
<1> SUFFICES ASSUME QueueInv, OnceInv, AskedOnce', [Next]_vars
             PROVE  OnceInv'
  OBVIOUS
<1> USE RoomFacts DEF table, threads, rooms, fields
<1>1. CASE UNCHANGED <<sessions, queue, asks, roster>>
  BY <1>1 DEF OnceInv, RosterHasNoRepeats
<1>2. ASSUME NEW s \in Session, Connect(s) PROVE OnceInv'
  <2>1. UNCHANGED <<queue, asks, roster>>
    BY <1>2 DEF Connect
  <2>2. \A x \in Socket : sessions'[x] # NoSession => SocketOf[sessions'[x]] = x
    BY <1>2 DEF Connect, OnceInv, QueueInv, TypeOK
  <2> QED
    BY <2>1, <2>2 DEF OnceInv, RosterHasNoRepeats
<1>3. ASSUME NEW s \in Session, Close(s) PROVE OnceInv'
  <2>1. UNCHANGED <<queue, asks, roster>>
    BY <1>3 DEF Close
  <2>2. \A x \in Socket : sessions'[x] # NoSession => SocketOf[sessions'[x]] = x
    BY <1>3 DEF Close, OnceInv, QueueInv, TypeOK
  <2> QED
    BY <2>1, <2>2 DEF OnceInv, RosterHasNoRepeats
<1>4. ASSUME NEW s \in Session, AddToMatchingQueue(s) PROVE OnceInv'
  <2>1. /\ queue' = Append(queue, SocketOf[s]) /\ asks' = [asks EXCEPT ![s] = @ + 1]
        /\ UNCHANGED <<sessions, roster>> /\ queue \in Seq(Socket)
        /\ asks \in [Session -> Nat]
    BY <1>4 DEF AddToMatchingQueue, QueueInv, TypeOK
  <2>2. asks[s] = 0 /\ asks'[s] # 0
    <3>1. asks'[s] = asks[s] + 1 /\ asks'[s] <= 1
      BY <2>1 DEF AskedOnce
    <3> QED
      BY <2>1, <3>1
  <2>3. SocketOf[s] \notin Range(queue)
    BY <2>2 DEF OnceInv
  <2>4. Range(queue') = Range(queue) \cup {SocketOf[s]}
    BY <2>1, RangeOfAppend
  <2>5. IsInjective(queue')
    <3>1. /\ Len(queue) \in Nat /\ DOMAIN queue = 1 .. Len(queue)
          /\ queue' \in Seq(Socket) /\ Len(queue') = Len(queue) + 1
          /\ queue'[Len(queue) + 1] = SocketOf[s]
          /\ \A k \in 1 .. Len(queue) : queue'[k] = queue[k]
      BY <2>1, RangeOfAppend, LenProperties
    <3>2. DOMAIN queue' = 1 .. Len(queue) + 1
      BY <3>1, LenProperties
    <3>3. \A k \in 1 .. Len(queue) : queue'[k] # SocketOf[s]
      BY <2>3, <3>1 DEF Range
    <3>4. \A k, l \in 1 .. Len(queue) : queue[k] = queue[l] => k = l
      BY <3>1 DEF OnceInv, IsInjective
    <3>5. \A k \in 1 .. Len(queue) + 1 : k \in 1 .. Len(queue) \/ k = Len(queue) + 1
      BY <3>1
    <3> QED
      BY <3>1, <3>2, <3>3, <3>4, <3>5 DEF IsInjective
  <2>6. ASSUME NEW u \in Session, asks'[u] = 0 PROVE SocketOf[u] \notin Range(queue')
    <3>1. u # s /\ asks[u] = 0
      BY <2>1, <2>2, <2>6
    <3>2. SocketOf[u] # SocketOf[s]
      BY <3>1, MatchAssumption DEF IsInjective
    <3> QED
      BY <2>4, <3>1, <3>2 DEF OnceInv
  <2> QED
    BY <2>1, <2>5, <2>6 DEF OnceInv, RosterHasNoRepeats
<1>5. ASSUME NEW s \in Session, CountWaitingPlayers(s) PROVE OnceInv'
  <2>1. /\ queue' = CleanQueue /\ UNCHANGED <<sessions, asks>>
        /\ \/ roster' = roster
           \/ \E t \in Thread : roster' = [roster EXCEPT ![t] = GetWaitingPlayers]
    BY <1>5 DEF CountWaitingPlayers
  <2>2. /\ CleanQueue \in Seq(Socket) /\ Range(CleanQueue) = Range(queue) \cap Valid
        /\ IsInjective(CleanQueue)
    BY FilterFacts DEF QueueInv, TypeOK, CleanQueue, OnceInv
  <2>3. IsInjective(GetWaitingPlayers)
    <3>1. DOMAIN GetWaitingPlayers = DOMAIN CleanQueue
      BY DEF GetWaitingPlayers
    <3>2. \A k \in DOMAIN CleanQueue :
             /\ CleanQueue[k] \in Valid
             /\ GetWaitingPlayers[k] = sessions[CleanQueue[k]]
      BY <2>2 DEF GetWaitingPlayers, Range
    <3>3. \A x \in Valid : SocketOf[sessions[x]] = x
      BY DEF Valid, OnceInv
    <3>4. ASSUME NEW k \in DOMAIN CleanQueue, NEW l \in DOMAIN CleanQueue,
                 GetWaitingPlayers[k] = GetWaitingPlayers[l]
          PROVE  k = l
      <4>1. CleanQueue[k] = CleanQueue[l]
        BY <3>2, <3>3, <3>4
      <4> QED
        BY <2>2, <4>1 DEF IsInjective
    <3> QED
      BY <3>1, <3>4 DEF IsInjective
  <2>4. RosterHasNoRepeats'
    BY <2>1, <2>3 DEF RosterHasNoRepeats, OnceInv, QueueInv, TypeOK
  <2>5. IsInjective(queue') /\ Range(queue') \subseteq Range(queue)
    BY <2>1, <2>2
  <2> QED
    BY <2>1, <2>4, <2>5 DEF OnceInv
<1>6. ASSUME NEW s \in Session, Dispatch(s) \/ Login(s) \/ PacketIgnored(s)
                                \/ RemoveFromMatchingQueue(s)
      PROVE  UNCHANGED <<sessions, queue, asks, roster>>
  BY <1>6 DEF Dispatch, Login, PacketIgnored, RemoveFromMatchingQueue
<1>7. ASSUME NEW t \in Thread, CreateGameRoom(t)
      PROVE  UNCHANGED <<sessions, queue, asks, roster>>
  BY <1>7 DEF CreateGameRoom, InsertRoom, FindRoom, UsesDestroyedRoom,
              SkipClosedPlayer, SeatPlayer, LinkPlayer, StartGame, EraseRoom,
              ReturnToLobby, UnlinkPlayer, RollbackReturns
<1>8. ASSUME NEW r \in Room, GameEnds(r) \/ Release(r) \/ EndGameReturns(r)
      PROVE  UNCHANGED <<sessions, queue, asks, roster>>
  BY <1>8 DEF GameEnds, Release, EndGameReturns
<1>9. CASE UNCHANGED vars
  BY <1>1, <1>9 DEF vars
<1> QED
  BY <1>1, <1>2, <1>3, <1>4, <1>5, <1>6, <1>7, <1>8, <1>9 DEF Next, Worker

\* GetWaitingPlayers hands a player to a room twice only if a session asks
\* for a match twice, or a connection gets the handle of an earlier one.
THEOREM OnlyRepeatedAsksRepeat ==
    ASSUME IsInjective(SocketOf)
    PROVE  Spec /\ []AskedOnce => []RosterHasNoRepeats
<1>1. Init => OnceInv
  <2> SUFFICES ASSUME Init PROVE OnceInv
    OBVIOUS
  <2>1. queue = <<>> /\ DOMAIN queue = {}
    BY DEF Init
  <2>2. IsInjective(queue) /\ Range(queue) = {}
    BY <2>1 DEF IsInjective, Range
  <2>3. \A t \in Thread : roster[t] = <<>> /\ DOMAIN roster[t] = {}
    BY DEF Init
  <2>4. RosterHasNoRepeats
    BY <2>3 DEF RosterHasNoRepeats, IsInjective
  <2>5. \A x \in Socket : sessions[x] = NoSession
    BY DEF Init
  <2> QED
    BY <2>2, <2>4, <2>5 DEF OnceInv
<1>2. OnceInv => RosterHasNoRepeats
  BY DEF OnceInv
<1> QED
  BY <1>1, <1>2, OnceStep, QueueCorrect, PTL DEF Spec
=============================================================================
