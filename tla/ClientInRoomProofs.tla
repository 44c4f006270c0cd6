------------------------- MODULE ClientInRoomProofs -------------------------
(***************************************************************************)
(* Proofs about ClientInRoom, for any boards, words, clue numbers, players *)
(* and numbers of messages on the way: what the client shows when it has   *)
(* read everything is what the room has.                                   *)
(*                                                                         *)
(* The inbox may be long, and no induction over it is at hand.  So the     *)
(* invariants speak about the last message that writes a field: either it  *)
(* is still in the inbox and agrees with the room, or none is there and    *)
(* the screen agrees with the room.                                        *)
(***************************************************************************)
EXTENDS ClientInRoom, FiniteSetTheorems, SequenceTheorems, TLAPS

-----------------------------------------------------------------------------
(* Streams.                                                                *)

\* No message of the types T is in q.
NoneIn(q, T) == \A k \in DOMAIN q : q[k].type \notin T

\* The last message of the types T in q is one of S.
LastIn(q, T, S) ==
    \E k \in DOMAIN q :
        /\ q[k].type \in T /\ q[k] \in S
        /\ \A j \in DOMAIN q : j > k => q[j].type \notin T

\* The cards that the CARD_UPDATEs of q uncover.
Uncovering(q) == {k \in DOMAIN q : q[k].type = "CARD_UPDATE"}
Coming(q) == {q[k].card : k \in Uncovering(q)}

Rest(q) == SubSeq(q, 2, Len(q))

\* Where the elements of a concatenation come from.
LEMMA Joined ==
    ASSUME NEW M, NEW q \in Seq(M), NEW r \in Seq(M)
    PROVE  /\ q \o r \in Seq(M)
           /\ DOMAIN q = 1 .. Len(q) /\ DOMAIN r = 1 .. Len(r)
           /\ Len(q) \in Nat /\ Len(r) \in Nat
           /\ DOMAIN (q \o r) = 1 .. Len(q) + Len(r)
           /\ \A k \in DOMAIN q : k \in DOMAIN (q \o r) /\ (q \o r)[k] = q[k]
           /\ \A k \in DOMAIN r : /\ Len(q) + k \in DOMAIN (q \o r)
                                  /\ (q \o r)[Len(q) + k] = r[k]
           /\ \A k \in DOMAIN (q \o r) :
                 \/ k \in DOMAIN q
                 \/ k > Len(q) /\ k - Len(q) \in DOMAIN r /\ (q \o r)[k] = r[k - Len(q)]
<1>1. /\ Len(q) \in Nat /\ DOMAIN q = 1 .. Len(q)
      /\ Len(r) \in Nat /\ DOMAIN r = 1 .. Len(r)
  BY LenProperties
<1>2. /\ q \o r \in Seq(M) /\ Len(q \o r) = Len(q) + Len(r)
      /\ \A i \in 1 .. Len(q) + Len(r) :
            (q \o r)[i] = IF i <= Len(q) THEN q[i] ELSE r[i - Len(q)]
  BY ConcatProperties
<1>3. DOMAIN (q \o r) = 1 .. Len(q) + Len(r)
  BY <1>2, LenProperties
<1>4. \A k \in DOMAIN q : k \in DOMAIN (q \o r) /\ (q \o r)[k] = q[k]
  BY <1>1, <1>2, <1>3
<1>5. \A k \in DOMAIN r : /\ Len(q) + k \in DOMAIN (q \o r)
                          /\ (q \o r)[Len(q) + k] = r[k]
  <2> SUFFICES ASSUME NEW k \in DOMAIN r
               PROVE  /\ Len(q) + k \in DOMAIN (q \o r)
                      /\ (q \o r)[Len(q) + k] = r[k]
    OBVIOUS
  <2>1. /\ Len(q) + k \in 1 .. Len(q) + Len(r)
        /\ ~ (Len(q) + k <= Len(q)) /\ Len(q) + k - Len(q) = k
    BY <1>1
  <2> QED
    BY <1>2, <1>3, <2>1
<1>6. \A k \in DOMAIN (q \o r) :
         \/ k \in DOMAIN q
         \/ k > Len(q) /\ k - Len(q) \in DOMAIN r /\ (q \o r)[k] = r[k - Len(q)]
  <2> SUFFICES ASSUME NEW k \in DOMAIN (q \o r), k \notin DOMAIN q
               PROVE  /\ k > Len(q) /\ k - Len(q) \in DOMAIN r
                      /\ (q \o r)[k] = r[k - Len(q)]
    OBVIOUS
  <2>1. k \in 1 .. Len(q) + Len(r) /\ k > Len(q) /\ k - Len(q) \in 1 .. Len(r)
    BY <1>1, <1>3
  <2> QED
    BY <1>1, <1>2, <2>1
<1> QED
  BY <1>1, <1>2, <1>3, <1>4, <1>5, <1>6

\* Messages of other types do not come between; messages of the types T do.
LEMMA JoinedNone ==
    ASSUME NEW M, NEW q \in Seq(M), NEW r \in Seq(M), NEW T,
           NoneIn(q, T), NoneIn(r, T)
    PROVE  NoneIn(q \o r, T)
BY Joined DEF NoneIn

LEMMA JoinedOther ==
    ASSUME NEW M, NEW q \in Seq(M), NEW r \in Seq(M), NEW T, NEW S,
           LastIn(q, T, S), NoneIn(r, T)
    PROVE  LastIn(q \o r, T, S)
<1>1. PICK k \in DOMAIN q :
         /\ q[k].type \in T /\ q[k] \in S
         /\ \A j \in DOMAIN q : j > k => q[j].type \notin T
  BY DEF LastIn
<1>2. k \in DOMAIN (q \o r) /\ (q \o r)[k] = q[k]
  BY Joined
<1>3. ASSUME NEW j \in DOMAIN (q \o r), j > k
      PROVE  (q \o r)[j].type \notin T
  <2>1. CASE j \in DOMAIN q
    BY <1>1, <1>3, <2>1, Joined
  <2>2. CASE j - Len(q) \in DOMAIN r /\ (q \o r)[j] = r[j - Len(q)]
    BY <2>2 DEF NoneIn
  <2> QED
    BY <2>1, <2>2, Joined
<1> QED
  BY <1>1, <1>2, <1>3 DEF LastIn

LEMMA JoinedLast ==
    ASSUME NEW M, NEW q \in Seq(M), NEW r \in Seq(M), NEW T, NEW S,
           LastIn(r, T, S)
    PROVE  LastIn(q \o r, T, S)
<1>1. PICK k \in DOMAIN r :
         /\ r[k].type \in T /\ r[k] \in S
         /\ \A j \in DOMAIN r : j > k => r[j].type \notin T
  BY DEF LastIn
<1>2. Len(q) + k \in DOMAIN (q \o r) /\ (q \o r)[Len(q) + k] = r[k]
  BY Joined
<1>3. ASSUME NEW j \in DOMAIN (q \o r), j > Len(q) + k
      PROVE  (q \o r)[j].type \notin T
  <2>1. Len(q) \in Nat /\ k \in Nat /\ j \in Nat /\ DOMAIN q = 1 .. Len(q)
    BY Joined
  <2>2. j \notin DOMAIN q /\ j - Len(q) > k
    BY <1>3, <2>1
  <2>3. j - Len(q) \in DOMAIN r /\ (q \o r)[j] = r[j - Len(q)]
    BY <2>2, Joined
  <2> QED
    BY <1>1, <2>2, <2>3
<1> QED
  BY <1>1, <1>2, <1>3 DEF LastIn

LEMMA JoinedComing ==
    ASSUME NEW M, NEW q \in Seq(M), NEW r \in Seq(M)
    PROVE  Coming(q \o r) = Coming(q) \cup Coming(r)
<1>1. ASSUME NEW c \in Coming(q \o r) PROVE c \in Coming(q) \cup Coming(r)
  <2>1. PICK k \in DOMAIN (q \o r) :
           (q \o r)[k].type = "CARD_UPDATE" /\ c = (q \o r)[k].card
    BY DEF Coming, Uncovering
  <2>2. CASE k \in DOMAIN q
    BY <2>1, <2>2, Joined DEF Coming, Uncovering
  <2>3. CASE k - Len(q) \in DOMAIN r /\ (q \o r)[k] = r[k - Len(q)]
    BY <2>1, <2>3 DEF Coming, Uncovering
  <2> QED
    BY <2>2, <2>3, Joined
<1>2. ASSUME NEW c \in Coming(q) PROVE c \in Coming(q \o r)
  <2>1. PICK k \in DOMAIN q : q[k].type = "CARD_UPDATE" /\ c = q[k].card
    BY <1>2 DEF Coming, Uncovering
  <2> QED
    BY <2>1, Joined DEF Coming, Uncovering
<1>3. ASSUME NEW c \in Coming(r) PROVE c \in Coming(q \o r)
  <2>1. PICK k \in DOMAIN r : r[k].type = "CARD_UPDATE" /\ c = r[k].card
    BY <1>3 DEF Coming, Uncovering
  <2>2. Len(q) + k \in DOMAIN (q \o r) /\ (q \o r)[Len(q) + k] = r[k]
    BY Joined
  <2> QED
    BY <2>1, <2>2 DEF Coming, Uncovering
<1> QED
  BY <1>1, <1>2, <1>3

\* What is left when the first n messages of a stream are gone.
LEMMA Dropped ==
    ASSUME NEW M, NEW q \in Seq(M), NEW n \in 1 .. Len(q)
    PROVE  /\ SubSeq(q, n + 1, Len(q)) \in Seq(M)
           /\ Len(SubSeq(q, n + 1, Len(q))) = Len(q) - n
           /\ \A k \in DOMAIN SubSeq(q, n + 1, Len(q)) :
                 k + n \in DOMAIN q /\ SubSeq(q, n + 1, Len(q))[k] = q[k + n]
<1>1. Len(q) \in Nat /\ n \in 1 .. Len(q) /\ q \in [1 .. Len(q) -> M]
      /\ DOMAIN q = 1 .. Len(q)
  BY LenProperties
<1>2. \A i \in n + 1 .. Len(q) : q[i] \in M
  BY <1>1
<1>3. n + 1 \in Int /\ Len(q) \in Int
  BY <1>1
<1>4. /\ SubSeq(q, n + 1, Len(q)) \in Seq(M)
      /\ Len(SubSeq(q, n + 1, Len(q))) =
            IF n + 1 <= Len(q) THEN Len(q) - (n + 1) + 1 ELSE 0
      /\ \A i \in 1 .. Len(q) - (n + 1) + 1 :
            SubSeq(q, n + 1, Len(q))[i] = q[n + 1 + i - 1]
  BY <1>2, <1>3, SubSeqProperties
<1>5. Len(SubSeq(q, n + 1, Len(q))) = Len(q) - n
  <2>1. \A l \in Nat : \A i \in 1 .. l :
           (IF i + 1 <= l THEN l - (i + 1) + 1 ELSE 0) = l - i
    OBVIOUS
  <2>2. (IF n + 1 <= Len(q) THEN Len(q) - (n + 1) + 1 ELSE 0) = Len(q) - n
    BY <1>1, <2>1
  <2> QED
    BY <1>4, <2>2
<1>6. DOMAIN SubSeq(q, n + 1, Len(q)) = 1 .. Len(q) - n
  BY <1>4, <1>5, LenProperties
<1>7. \A k \in 1 .. Len(q) - n : /\ k + n \in 1 .. Len(q)
                                 /\ k \in 1 .. Len(q) - (n + 1) + 1
                                 /\ n + 1 + k - 1 = k + n
  BY <1>1
<1> QED
  BY <1>1, <1>4, <1>5, <1>6, <1>7

\* The first message and the others.
LEMMA FirstAndRest ==
    ASSUME NEW M, NEW q \in Seq(M), q # <<>>
    PROVE  /\ Rest(q) \in Seq(M) /\ Len(Rest(q)) = Len(q) - 1
           /\ 1 \in DOMAIN q /\ q[1] = Head(q) /\ q[1] \in M
           /\ \A k \in DOMAIN Rest(q) : k + 1 \in DOMAIN q /\ Rest(q)[k] = q[k + 1]
           /\ \A k \in DOMAIN q : k = 1 \/ (/\ k - 1 \in DOMAIN Rest(q)
                                            /\ Rest(q)[k - 1] = q[k])
           /\ DOMAIN q \subseteq Nat /\ DOMAIN Rest(q) \subseteq Nat
<1>1. Len(q) \in Nat \ {0} /\ DOMAIN q = 1 .. Len(q) /\ q \in [1 .. Len(q) -> M]
  BY EmptySeq, LenProperties
<1>2. 1 \in 1 .. Len(q)
  BY <1>1
<1>3. /\ Rest(q) \in Seq(M) /\ Len(Rest(q)) = Len(q) - 1
      /\ \A k \in DOMAIN Rest(q) : k + 1 \in DOMAIN q /\ Rest(q)[k] = q[k + 1]
  <2>1. 1 \in 1 .. Len(q) /\ 1 + 1 = 2
    BY <1>2
  <2>2. /\ SubSeq(q, 1 + 1, Len(q)) \in Seq(M)
        /\ Len(SubSeq(q, 1 + 1, Len(q))) = Len(q) - 1
        /\ \A k \in DOMAIN SubSeq(q, 1 + 1, Len(q)) :
              k + 1 \in DOMAIN q /\ SubSeq(q, 1 + 1, Len(q))[k] = q[k + 1]
    BY <2>1, Dropped
  <2> QED
    BY <2>1, <2>2 DEF Rest
<1>4. DOMAIN Rest(q) = 1 .. Len(q) - 1
  BY <1>3, LenProperties
<1>5. \A k \in DOMAIN q : k = 1 \/ k - 1 \in DOMAIN Rest(q)
  BY <1>1, <1>4
<1>6. \A k \in DOMAIN q : k \in Nat /\ k - 1 + 1 = k
  BY <1>1
<1>7. \A k \in DOMAIN q : k = 1 \/ (k - 1 \in DOMAIN Rest(q) /\ Rest(q)[k - 1] = q[k])
  BY <1>3, <1>5, <1>6
<1>8. q[1] = Head(q) /\ q[1] \in M
  BY <1>1, <1>2, HeadTailProperties
<1>9. DOMAIN q \subseteq Nat /\ DOMAIN Rest(q) \subseteq Nat
  BY <1>1, <1>4
<1> QED
  BY <1>1, <1>2, <1>3, <1>7, <1>8, <1>9

LEMMA RestNone ==
    ASSUME NEW M, NEW q \in Seq(M), q # <<>>, NEW T, NoneIn(q, T)
    PROVE  q[1].type \notin T /\ NoneIn(Rest(q), T)
<1>1. 1 \in DOMAIN q
  BY FirstAndRest
<1>2. \A k \in DOMAIN Rest(q) : k + 1 \in DOMAIN q /\ Rest(q)[k] = q[k + 1]
  BY FirstAndRest
<1> QED
  BY <1>1, <1>2 DEF NoneIn

LEMMA RestLast ==
    ASSUME NEW M, NEW q \in Seq(M), q # <<>>, NEW T, NEW S, LastIn(q, T, S)
    PROVE  \/ q[1].type \in T /\ q[1] \in S /\ NoneIn(Rest(q), T)
           \/ LastIn(Rest(q), T, S)
<1>1. PICK k \in DOMAIN q :
         /\ q[k].type \in T /\ q[k] \in S
         /\ \A j \in DOMAIN q : j > k => q[j].type \notin T
  BY DEF LastIn
<1>2. ASSUME NEW j \in DOMAIN Rest(q), j + 1 > k
      PROVE  Rest(q)[j].type \notin T
  <2>1. j + 1 \in DOMAIN q /\ Rest(q)[j] = q[j + 1]
    BY FirstAndRest
  <2> QED
    BY <1>1, <1>2, <2>1
<1>3. CASE k = 1
  <2>1. \A j \in DOMAIN Rest(q) : j \in Nat /\ j + 1 > 1
    BY FirstAndRest, Dropped
  <2> QED
    BY <1>1, <1>2, <1>3, <2>1 DEF NoneIn
<1>4. CASE k # 1
  <2>1. k - 1 \in DOMAIN Rest(q) /\ Rest(q)[k - 1] = q[k]
    BY <1>4, FirstAndRest
  <2>2. \A j \in DOMAIN Rest(q) : j > k - 1 => j + 1 > k
    BY FirstAndRest
  <2> QED
    BY <1>1, <1>2, <2>1, <2>2 DEF LastIn
<1> QED
  BY <1>3, <1>4

LEMMA RestComing ==
    ASSUME NEW M, NEW q \in Seq(M), q # <<>>
    PROVE  Coming(q) = Coming(Rest(q)) \cup
                       (IF q[1].type = "CARD_UPDATE" THEN {q[1].card} ELSE {})
<1>1. ASSUME NEW c \in Coming(q)
      PROVE  c \in Coming(Rest(q)) \/ (q[1].type = "CARD_UPDATE" /\ c = q[1].card)
  <2>1. PICK k \in DOMAIN q : q[k].type = "CARD_UPDATE" /\ c = q[k].card
    BY <1>1 DEF Coming, Uncovering
  <2>2. CASE k = 1
    BY <2>1, <2>2
  <2>3. CASE k - 1 \in DOMAIN Rest(q) /\ Rest(q)[k - 1] = q[k]
    BY <2>1, <2>3 DEF Coming, Uncovering
  <2> QED
    BY <2>2, <2>3, FirstAndRest
<1>2. ASSUME NEW c \in Coming(Rest(q)) PROVE c \in Coming(q)
  <2>1. PICK k \in DOMAIN Rest(q) :
           Rest(q)[k].type = "CARD_UPDATE" /\ c = Rest(q)[k].card
    BY <1>2 DEF Coming, Uncovering
  <2>2. k + 1 \in DOMAIN q /\ Rest(q)[k] = q[k + 1]
    BY FirstAndRest
  <2> QED
    BY <2>1, <2>2 DEF Coming, Uncovering
<1>3. q[1].type = "CARD_UPDATE" => q[1].card \in Coming(q)
  BY FirstAndRest DEF Coming, Uncovering
<1> QED
  BY <1>1, <1>2, <1>3

\* Allowing more does no harm.
LEMMA LastWeaker ==
    ASSUME NEW q, NEW T, NEW S, NEW U, LastIn(q, T, S), S \subseteq U
    PROVE  LastIn(q, T, U)
BY DEF LastIn

-----------------------------------------------------------------------------
(* The types, and what the screen has to do with the room.                 *)

Team == {"RED", "BLUE"}

\* What the room sends, and Matchmaking through the same connection.
Message ==
    [type : {"CHAT", "GAME_START", "ALL_CARDS", "GAME_OVER", "ANSWER_RESULT",
             "WAIT_REPLY", "QUEUE_FULL"}]
    \cup [type : {"GAME_INIT"}, team : Team \cup {"none"}, leader : BOOLEAN]
    \cup [type : {"TURN_UPDATE"}, turn : Team, phase : {"HINT_PHASE", "GUESS_PHASE"},
          red : Nat, blue : Nat]
    \cup [type : {"HINT"}, number : Nat]
    \cup [type : {"CARD_UPDATE"}, card : Card, tries : Int]

View ==
    [phase : Client!GamePhase, team : Team \cup {"none"}, leader : BOOLEAN,
     cards : {"none", "old", "new"}, revealed : SUBSET Card,
     turn : Team, step : {"HINT_PHASE", "GUESS_PHASE"}, tries : Int,
     red : Nat, blue : Nat]

\* The room's variables; nothing of a game is under way before the deal.
RoomTyped ==
    /\ turn \in Team /\ guesses \in Nat
    /\ revealed \subseteq Card /\ IsFiniteSet(revealed)
    /\ result = "setup" =>
          /\ revealed = {} /\ guesses = 0
          /\ NoneIn(inbox, {"ALL_CARDS", "CARD_UPDATE"})

TypeInv ==
    /\ JointTypeOK /\ RoomTyped
    /\ inbox \in Seq(Message) /\ view \in View

\* No CARD_UPDATE runs ahead of the room.
OpenOnly ==
    /\ Coming(inbox) \subseteq revealed
    /\ view.cards = "new" => view.revealed \subseteq revealed

\* A game is on and every message was read alone.
InStep == result = "playing" /\ ~lost

Step == IF guesses = 0 THEN "HINT_PHASE" ELSE "GUESS_PHASE"

TurnWord == {"TURN_UPDATE"}
TurnTrue ==
    {m \in Message :
        /\ m.type = "TURN_UPDATE" /\ m.turn = turn /\ m.phase = Step
        /\ guesses = 0 => m.red = Score("RED") /\ m.blue = Score("BLUE")}
TurnSeen ==
    /\ view.turn = turn /\ view.step = Step
    /\ guesses = 0 => view.red = Score("RED") /\ view.blue = Score("BLUE")
TurnTold ==
    InStep => \/ NoneIn(inbox, TurnWord) /\ TurnSeen
              \/ LastIn(inbox, TurnWord, TurnTrue)

TriesWord == {"HINT", "CARD_UPDATE"}
TriesTrue ==
    {m \in Message : \/ m.type = "HINT" /\ m.number = guesses
                     \/ m.type = "CARD_UPDATE" /\ m.tries = guesses}
TriesTold ==
    (InStep /\ guesses > 0) =>
        \/ NoneIn(inbox, TriesWord) /\ view.tries = guesses
        \/ LastIn(inbox, TriesWord, TriesTrue)

\* ALL_CARDS comes once, and no card is uncovered before.
DealtIn(q) ==
    \E k \in DOMAIN q :
        /\ q[k].type = "ALL_CARDS"
        /\ \A j \in DOMAIN q : j # k => q[j].type # "ALL_CARDS"
        /\ \A j \in DOMAIN q : j < k => q[j].type # "CARD_UPDATE"
CardsTold ==
    InStep =>
        \/ /\ NoneIn(inbox, {"ALL_CARDS"}) /\ view.cards = "new"
           /\ revealed = view.revealed \cup Coming(inbox)
        \/ DealtIn(inbox) /\ revealed = Coming(inbox)

SeatWord == {"GAME_INIT"}
SeatTrue ==
    {m \in Message : /\ m.type = "GAME_INIT" /\ m.team = seat.team
                     /\ m.leader = seat.leader}
SeatTold ==
    (InStep /\ seat.known) =>
        \/ /\ NoneIn(inbox, SeatWord)
           /\ view.team = seat.team /\ view.leader = seat.leader
        \/ LastIn(inbox, SeatWord, SeatTrue)

PhaseWord == {"WAIT_REPLY", "QUEUE_FULL", "GAME_START", "GAME_OVER"}
PhaseTrue == {m \in Message : m.type = "GAME_START"}
PhaseTold ==
    (InStep /\ ~late /\ ~restarted) =>
        \/ NoneIn(inbox, PhaseWord) /\ view.phase = "PLAYING"
        \/ LastIn(inbox, PhaseWord, PhaseTrue)

\* The input mode is the one the screen asks for as soon as no TURN_UPDATE
\* comes that would set it, and GAME_INIT never comes without one behind it.
ModeWord == {"GAME_INIT", "TURN_UPDATE"}
ModeTrue == {m \in Message : m.type = "TURN_UPDATE"}
ModeFits ==
    (scene = "GAME" /\ ~entering) =>
        /\ mode \in {"HINT_WORD", "HINT_COUNT"} => Client!AutoMode(view) = "HINT_WORD"
        /\ mode = "ANSWER" => Client!AutoMode(view) = "ANSWER"
ModeTold ==
    InStep => \/ NoneIn(inbox, ModeWord) /\ ModeFits
              \/ LastIn(inbox, ModeWord, ModeTrue)

ToldInv ==
    TurnTold /\ TriesTold /\ CardsTold /\ SeatTold /\ PhaseTold /\ ModeTold

-----------------------------------------------------------------------------
(* More about streams.                                                     *)

Only(q, T) == \A k \in DOMAIN q : q[k].type \in T

LEMMA NothingComing ==
    ASSUME NEW q, NoneIn(q, {"CARD_UPDATE"})
    PROVE  Coming(q) = {}
BY DEF NoneIn, Coming, Uncovering

\* A message by itself.
LEMMA Alone ==
    ASSUME NEW m \in Message
    PROVE  /\ <<m>> \in Seq(Message)
           /\ \A T : m.type \in T => Only(<<m>>, T)
           /\ \A T, S : m.type \in T /\ m \in S => LastIn(<<m>>, T, S)
           /\ m.type = "CARD_UPDATE" => Coming(<<m>>) = {m.card}
<1> DEFINE q == <<m>>
<1>1. q \in Seq(Message) /\ DOMAIN q = {1} /\ q[1] = m
  OBVIOUS
<1> HIDE DEF q
<1>2. \A T : m.type \in T => Only(q, T)
  BY <1>1 DEF Only
<1>3. \A T, S : m.type \in T /\ m \in S => LastIn(q, T, S)
  BY <1>1 DEF LastIn
<1>4. m.type = "CARD_UPDATE" => Coming(q) = {m.card}
  BY <1>1 DEF Coming, Uncovering
<1> QED
  BY <1>1, <1>2, <1>3, <1>4 DEF q

LEMMA DealtBefore ==
    ASSUME NEW M, NEW q \in Seq(M), NEW r \in Seq(M),
           DealtIn(q), NoneIn(r, {"ALL_CARDS"})
    PROVE  DealtIn(q \o r)
<1>1. PICK k \in DOMAIN q :
         /\ q[k].type = "ALL_CARDS"
         /\ \A j \in DOMAIN q : j # k => q[j].type # "ALL_CARDS"
         /\ \A j \in DOMAIN q : j < k => q[j].type # "CARD_UPDATE"
  BY DEF DealtIn
<1>2. k \in DOMAIN (q \o r) /\ (q \o r)[k] = q[k]
  BY Joined
<1>3. ASSUME NEW j \in DOMAIN (q \o r), j # k
      PROVE  (q \o r)[j].type # "ALL_CARDS"
  <2>1. CASE j \in DOMAIN q
    BY <1>1, <1>3, <2>1, Joined
  <2>2. CASE j - Len(q) \in DOMAIN r /\ (q \o r)[j] = r[j - Len(q)]
    BY <2>2 DEF NoneIn
  <2> QED
    BY <2>1, <2>2, Joined
<1>4. ASSUME NEW j \in DOMAIN (q \o r), j < k
      PROVE  (q \o r)[j].type # "CARD_UPDATE"
  <2>1. /\ Len(q) \in Nat /\ DOMAIN q = 1 .. Len(q)
        /\ DOMAIN (q \o r) = 1 .. Len(q) + Len(r) /\ Len(r) \in Nat
    BY Joined
  <2>2. j \in DOMAIN q
    BY <1>4, <2>1
  <2>3. (q \o r)[j] = q[j]
    BY <2>2, Joined
  <2> QED
    BY <1>1, <1>4, <2>2, <2>3
<1> QED
  BY <1>2, <1>1, <1>3, <1>4 DEF DealtIn

LEMMA DealtBehind ==
    ASSUME NEW M, NEW q \in Seq(M), NEW r \in Seq(M),
           NoneIn(q, {"ALL_CARDS", "CARD_UPDATE"}), DealtIn(r)
    PROVE  DealtIn(q \o r)
<1>1. PICK k \in DOMAIN r :
         /\ r[k].type = "ALL_CARDS"
         /\ \A j \in DOMAIN r : j # k => r[j].type # "ALL_CARDS"
         /\ \A j \in DOMAIN r : j < k => r[j].type # "CARD_UPDATE"
  BY DEF DealtIn
<1>2. Len(q) + k \in DOMAIN (q \o r) /\ (q \o r)[Len(q) + k] = r[k]
  BY Joined
<1>3. /\ Len(q) \in Nat /\ Len(r) \in Nat /\ DOMAIN r = 1 .. Len(r)
      /\ DOMAIN (q \o r) = 1 .. Len(q) + Len(r)
  BY Joined
<1>4. \A j \in DOMAIN q : /\ (q \o r)[j].type # "ALL_CARDS"
                          /\ (q \o r)[j].type # "CARD_UPDATE"
  BY Joined DEF NoneIn
<1>5. ASSUME NEW j \in DOMAIN (q \o r), j # Len(q) + k
      PROVE  (q \o r)[j].type # "ALL_CARDS"
  <2>1. CASE j - Len(q) \in DOMAIN r /\ (q \o r)[j] = r[j - Len(q)]
    <3>1. j - Len(q) # k
      BY <1>3, <1>5
    <3> QED
      BY <1>1, <2>1, <3>1
  <2> QED
    BY <1>4, <2>1, Joined
<1>6. ASSUME NEW j \in DOMAIN (q \o r), j < Len(q) + k
      PROVE  (q \o r)[j].type # "CARD_UPDATE"
  <2>1. CASE j - Len(q) \in DOMAIN r /\ (q \o r)[j] = r[j - Len(q)]
    <3>1. j - Len(q) < k
      BY <1>3, <1>6
    <3> QED
      BY <1>1, <2>1, <3>1
  <2> QED
    BY <1>4, <2>1, Joined
<1>7. (q \o r)[Len(q) + k].type = "ALL_CARDS"
  BY <1>1, <1>2
<1> QED
  BY <1>2, <1>5, <1>6, <1>7 DEF DealtIn

LEMMA RestDealt ==
    ASSUME NEW M, NEW q \in Seq(M), q # <<>>, DealtIn(q)
    PROVE  \/ q[1].type = "ALL_CARDS" /\ NoneIn(Rest(q), {"ALL_CARDS"})
           \/ q[1].type \notin {"ALL_CARDS", "CARD_UPDATE"} /\ DealtIn(Rest(q))
<1>1. PICK k \in DOMAIN q :
         /\ q[k].type = "ALL_CARDS"
         /\ \A j \in DOMAIN q : j # k => q[j].type # "ALL_CARDS"
         /\ \A j \in DOMAIN q : j < k => q[j].type # "CARD_UPDATE"
  BY DEF DealtIn
<1>2. /\ 1 \in DOMAIN q /\ DOMAIN q \subseteq Nat /\ DOMAIN Rest(q) \subseteq Nat
      /\ DOMAIN q = 1 .. Len(q)
  BY FirstAndRest, LenProperties
<1>3. \A j \in DOMAIN Rest(q) : j + 1 \in DOMAIN q /\ Rest(q)[j] = q[j + 1]
  BY FirstAndRest
<1>4. CASE k = 1
  <2>1. \A j \in DOMAIN Rest(q) : j + 1 # 1
    BY <1>2, <1>3
  <2>2. \A j \in DOMAIN Rest(q) : Rest(q)[j].type # "ALL_CARDS"
    BY <1>1, <1>3, <1>4, <2>1
  <2> QED
    BY <1>1, <1>4, <2>2 DEF NoneIn
<1>5. CASE k # 1
  <2>1. k - 1 \in DOMAIN Rest(q) /\ Rest(q)[k - 1] = q[k]
    BY <1>5, FirstAndRest
  <2>2. 1 < k /\ k \in Nat
    BY <1>2, <1>5, LenProperties
  <2>3. \A j \in DOMAIN Rest(q) : /\ j # k - 1 => j + 1 # k
                                  /\ j < k - 1 => j + 1 < k
    BY <1>2, <2>2
  <2>4. /\ \A j \in DOMAIN Rest(q) : j # k - 1 => Rest(q)[j].type # "ALL_CARDS"
        /\ \A j \in DOMAIN Rest(q) : j < k - 1 => Rest(q)[j].type # "CARD_UPDATE"
    BY <1>1, <1>3, <2>3
  <2>5. q[1].type # "ALL_CARDS" /\ q[1].type # "CARD_UPDATE"
    BY <1>1, <1>2, <1>5, <2>2
  <2> QED
    BY <1>1, <2>1, <2>4, <2>5 DEF DealtIn
<1> QED
  BY <1>4, <1>5

-----------------------------------------------------------------------------
(* What a step of the room posts: r.                                       *)

PostTurn(r) ==
    result' = "playing" =>
        \/ LastIn(r, TurnWord, TurnTrue')
        \/ /\ NoneIn(r, TurnWord) /\ result = "playing"
           /\ turn' = turn /\ Step' = Step
           /\ guesses' = 0 =>
                 /\ guesses = 0
                 /\ Score("RED")' = Score("RED") /\ Score("BLUE")' = Score("BLUE")
PostTries(r) ==
    result' = "playing" /\ guesses' > 0 =>
        \/ LastIn(r, TriesWord, TriesTrue')
        \/ NoneIn(r, TriesWord) /\ result = "playing" /\ guesses' = guesses
PostCards(r) ==
    result' = "playing" =>
        \/ DealtIn(r) /\ result = "setup" /\ revealed' = {} /\ Coming(r) = {}
        \/ /\ NoneIn(r, {"ALL_CARDS"}) /\ result = "playing"
           /\ revealed' = revealed \cup Coming(r)
PostSeat(r) ==
    result' = "playing" =>
        \/ seat.known => LastIn(r, SeatWord, SeatTrue)
        \/ NoneIn(r, SeatWord) /\ result = "playing"
PostPhase(r) ==
    result' = "playing" =>
        \/ LastIn(r, PhaseWord, PhaseTrue)
        \/ NoneIn(r, PhaseWord) /\ result = "playing"
        \/ late'
PostMode(r) ==
    result' = "playing" =>
        \/ LastIn(r, ModeWord, ModeTrue)
        \/ NoneIn(r, ModeWord) /\ result = "playing"
PostOpen(r) == revealed \subseteq revealed' /\ Coming(r) \subseteq revealed'
PostTyped(r) ==
    /\ turn' \in Team /\ guesses' \in Nat
    /\ revealed' \subseteq Card /\ IsFiniteSet(revealed')
    /\ result' = "setup" =>
          /\ result = "setup" /\ revealed' = {} /\ guesses' = 0
          /\ NoneIn(r, {"ALL_CARDS", "CARD_UPDATE"})

Post(r) ==
    /\ r \in Seq(Message) /\ inbox' = inbox \o r /\ Len(inbox') <= MaxInFlight
    /\ PostTurn(r) /\ PostTries(r) /\ PostCards(r) /\ PostSeat(r)
    /\ PostPhase(r) /\ PostMode(r) /\ PostOpen(r) /\ PostTyped(r)

LEMMA ScoreNatNext ==
    ASSUME NEW t, IsFiniteSet(revealed')
    PROVE  Score(t)' \in Nat
<1>1. IsFiniteSet({c \in revealed' : key'[c] = t})
  BY FS_Subset
<1> QED
  BY <1>1, FS_CardinalityType DEF Score

\* The TURN_UPDATE of a step says what is true after it.
LEMMA TurnUpdateTrue ==
    ASSUME turn' \in Team, IsFiniteSet(revealed'), NEW p \in {"HINT_PHASE", "GUESS_PHASE"}
    PROVE  /\ TurnUpdate(p) \in Message /\ TurnUpdate(p).type = "TURN_UPDATE"
           /\ p = Step' => TurnUpdate(p) \in TurnTrue'
           /\ TurnUpdate(p) \in ModeTrue
<1>1. Score("RED")' \in Nat /\ Score("BLUE")' \in Nat
  BY ScoreNatNext
<1>2. TurnUpdate(p) \in Message /\ TurnUpdate(p).type = "TURN_UPDATE"
  BY <1>1 DEF TurnUpdate, Message, Team
<1>3. /\ TurnUpdate(p).turn = turn' /\ TurnUpdate(p).phase = p
      /\ TurnUpdate(p).red = Score("RED")' /\ TurnUpdate(p).blue = Score("BLUE")'
  BY DEF TurnUpdate
<1> QED
  BY <1>2, <1>3 DEF TurnTrue, ModeTrue

\* Messages of one field.
Plain == {"CHAT", "GAME_START", "ALL_CARDS", "GAME_OVER", "ANSWER_RESULT",
          "WAIT_REPLY", "QUEUE_FULL"}

LEMMA PlainMessage ==
    ASSUME NEW t \in Plain
    PROVE  [type |-> t] \in Message
BY DEF Message, Plain

LEMMA DealPosts ==
    ASSUME TypeInv, DealAndTell
    PROVE  \E r : Post(r)
<1> DEFINE r == <<[type |-> "GAME_START"], GameInit, Chat,
                  [type |-> "ALL_CARDS"], TurnUpdate("HINT_PHASE")>>
<1> DEFINE t == TurnUpdate("HINT_PHASE")
<1>1. /\ result = "setup" /\ result' = "playing" /\ revealed = {} /\ guesses = 0
      /\ revealed' = {} /\ turn' = turn /\ guesses' = 0 /\ turn \in Team
      /\ inbox' = inbox \o r /\ Len(inbox') <= MaxInFlight
      /\ IsFiniteSet(revealed')
  BY DEF TypeInv, RoomTyped, DealAndTell, Deal, Deliver
<1>2. t \in Message /\ t.type = "TURN_UPDATE" /\ t \in TurnTrue' /\ t \in ModeTrue
  BY <1>1, TurnUpdateTrue DEF Step
<1>3. seat \in [team : Team, leader : BOOLEAN, known : BOOLEAN]
  BY ClientAssumption DEF TypeInv, JointTypeOK, Team
<1>4. /\ GameInit \in Message /\ GameInit.type = "GAME_INIT"
      /\ seat.known => GameInit \in SeatTrue
  BY <1>3 DEF GameInit, Message, SeatTrue
<1>5. /\ [type |-> "GAME_START"] \in Message /\ Chat \in Message
      /\ [type |-> "ALL_CARDS"] \in Message
  BY PlainMessage DEF Chat, Plain
<1> HIDE DEF t
<1>6. /\ r \in Seq(Message) /\ DOMAIN r = 1 .. 5
      /\ r[1] = [type |-> "GAME_START"] /\ r[2] = GameInit /\ r[3] = Chat
      /\ r[4] = [type |-> "ALL_CARDS"] /\ r[5] = t
  BY <1>2, <1>4, <1>5 DEF t
<1> HIDE DEF r
<1>7. /\ r[1].type = "GAME_START" /\ r[2].type = "GAME_INIT" /\ r[3].type = "CHAT"
      /\ r[4].type = "ALL_CARDS" /\ r[5].type = "TURN_UPDATE"
  BY <1>2, <1>4, <1>6 DEF Chat
<1>8. \A k \in DOMAIN r : k = 1 \/ k = 2 \/ k = 3 \/ k = 4 \/ k = 5
  BY <1>6
<1>9. LastIn(r, TurnWord, TurnTrue') /\ LastIn(r, ModeWord, ModeTrue)
  BY <1>2, <1>6, <1>7 DEF LastIn, TurnWord, ModeWord
<1>10. seat.known => LastIn(r, SeatWord, SeatTrue)
  BY <1>4, <1>6, <1>7, <1>8 DEF LastIn, SeatWord
<1>11. LastIn(r, PhaseWord, PhaseTrue)
  BY <1>5, <1>6, <1>7, <1>8 DEF LastIn, PhaseWord, PhaseTrue
<1>12. DealtIn(r) /\ NoneIn(r, {"CARD_UPDATE"})
  BY <1>6, <1>7, <1>8 DEF DealtIn, NoneIn
<1>13. Coming(r) = {}
  BY <1>12, NothingComing
<1>14. PostTurn(r) /\ PostTries(r) /\ PostSeat(r) /\ PostPhase(r) /\ PostMode(r)
  BY <1>1, <1>9, <1>10, <1>11
  DEF PostTurn, PostTries, PostSeat, PostPhase, PostMode
<1>15. PostCards(r) /\ PostOpen(r) /\ PostTyped(r)
  BY <1>1, <1>12, <1>13 DEF PostCards, PostOpen, PostTyped
<1> QED
  BY <1>1, <1>6, <1>14, <1>15 DEF Post

LEMMA CluePosts ==
    ASSUME TypeInv, ClueAndTell
    PROVE  \E r : Post(r)
<1> DEFINE h == [type |-> "HINT", number |-> guesses']
           t == TurnUpdate("GUESS_PHASE")
           r == <<h, t>>
<1>1. /\ result = "playing" /\ result' = "playing" /\ guesses = 0
      /\ guesses' \in ClueNumber /\ revealed' = revealed /\ turn' = turn
      /\ inbox' = inbox \o r /\ Len(inbox') <= MaxInFlight
      /\ turn \in Team /\ revealed \subseteq Card /\ IsFiniteSet(revealed)
  BY DEF TypeInv, RoomTyped, ClueAndTell, Clue, Deliver
<1>2. guesses' \in Nat /\ guesses' > 0
  BY <1>1, ClientAssumption
<1>3. t \in Message /\ t.type = "TURN_UPDATE" /\ t \in TurnTrue' /\ t \in ModeTrue
  BY <1>1, <1>2, TurnUpdateTrue DEF Step
<1>4. h \in Message /\ h.type = "HINT" /\ h \in TriesTrue'
  BY <1>2 DEF Message, TriesTrue
<1> HIDE DEF t, h
<1>5. r \in Seq(Message) /\ DOMAIN r = 1 .. 2 /\ r[1] = h /\ r[2] = t
  BY <1>3, <1>4
<1> HIDE DEF r
<1>6. \A k \in DOMAIN r : k = 1 \/ k = 2
  BY <1>5
<1>7. LastIn(r, TurnWord, TurnTrue') /\ LastIn(r, ModeWord, ModeTrue)
  BY <1>3, <1>5 DEF LastIn, TurnWord, ModeWord
<1>8. LastIn(r, TriesWord, TriesTrue')
  BY <1>3, <1>4, <1>5, <1>6 DEF LastIn, TriesWord
<1>9. /\ NoneIn(r, {"ALL_CARDS"}) /\ NoneIn(r, {"CARD_UPDATE"})
      /\ NoneIn(r, SeatWord) /\ NoneIn(r, PhaseWord)
  BY <1>3, <1>4, <1>5, <1>6 DEF NoneIn, SeatWord, PhaseWord
<1>10. Coming(r) = {}
  BY <1>9, NothingComing
<1>11. PostTurn(r) /\ PostTries(r) /\ PostSeat(r) /\ PostPhase(r) /\ PostMode(r)
  BY <1>1, <1>7, <1>8, <1>9
  DEF PostTurn, PostTries, PostSeat, PostPhase, PostMode
<1>12. PostCards(r) /\ PostOpen(r) /\ PostTyped(r)
  BY <1>1, <1>2, <1>9, <1>10 DEF PostCards, PostOpen, PostTyped
<1> QED
  BY <1>1, <1>5, <1>11, <1>12 DEF Post

LEMMA AbortPosts ==
    ASSUME TypeInv, AbortAndTell
    PROVE  \E r : Post(r)
<1> DEFINE r == <<Chat, GameOver>>
<1>1. /\ result' = "aborted" /\ guesses' = 0 /\ revealed' = revealed /\ turn' = turn
      /\ inbox' = inbox \o r /\ Len(inbox') <= MaxInFlight
      /\ turn \in Team /\ revealed \subseteq Card /\ IsFiniteSet(revealed)
  BY DEF TypeInv, RoomTyped, AbortAndTell, Abort, Deliver
<1>2. Chat \in Message /\ GameOver \in Message
  BY PlainMessage DEF Chat, GameOver, Plain
<1>3. /\ r \in Seq(Message) /\ DOMAIN r = 1 .. 2 /\ r[1] = Chat /\ r[2] = GameOver
  BY <1>2
<1> HIDE DEF r
<1>4. NoneIn(r, {"CARD_UPDATE"})
  BY <1>3 DEF NoneIn, Chat, GameOver
<1>5. Coming(r) = {}
  BY <1>4, NothingComing
<1>6. PostTurn(r) /\ PostTries(r) /\ PostSeat(r) /\ PostPhase(r) /\ PostMode(r)
  BY <1>1 DEF PostTurn, PostTries, PostSeat, PostPhase, PostMode
<1>7. PostCards(r) /\ PostOpen(r) /\ PostTyped(r)
  BY <1>1, <1>5 DEF PostCards, PostOpen, PostTyped
<1> QED
  BY <1>1, <1>3, <1>6, <1>7 DEF Post

\* A line of chat, an answer to a wrong word, a matching message.
LEMMA LinePosts ==
    ASSUME TypeInv, NEW m \in Message,
           m.type \in {"CHAT", "ANSWER_RESULT", "WAIT_REPLY", "QUEUE_FULL"},
           Deliver(<<m>>), UNCHANGED vars,
           \/ m.type \in {"CHAT", "ANSWER_RESULT"}
           \/ result = "setup" \/ late'
    PROVE  \E r : Post(r)
<1> DEFINE r == <<m>>
<1>1. /\ UNCHANGED <<key, revealed, turn, guesses, result>>
      /\ inbox' = inbox \o r /\ Len(inbox') <= MaxInFlight
      /\ turn \in Team /\ revealed \subseteq Card /\ IsFiniteSet(revealed)
      /\ guesses \in Nat /\ (result = "setup" => revealed = {} /\ guesses = 0)
  BY DEF TypeInv, RoomTyped, Deliver, vars
<1>2. /\ r \in Seq(Message)
      /\ Only(r, {"CHAT", "ANSWER_RESULT", "WAIT_REPLY", "QUEUE_FULL"})
      /\ m.type \in {"CHAT", "ANSWER_RESULT"} => Only(r, {"CHAT", "ANSWER_RESULT"})
  BY Alone
<1> HIDE DEF r
<1>3. /\ NoneIn(r, TurnWord) /\ NoneIn(r, TriesWord) /\ NoneIn(r, SeatWord)
      /\ NoneIn(r, ModeWord) /\ NoneIn(r, {"ALL_CARDS", "CARD_UPDATE"})
      /\ NoneIn(r, {"ALL_CARDS"}) /\ NoneIn(r, {"CARD_UPDATE"})
  BY <1>2 DEF Only, NoneIn, TurnWord, TriesWord, SeatWord, ModeWord
<1>4. m.type \in {"CHAT", "ANSWER_RESULT"} => NoneIn(r, PhaseWord)
  BY <1>2 DEF Only, NoneIn, PhaseWord
<1>5. Coming(r) = {}
  BY <1>3, NothingComing
<1>6. Score("RED")' = Score("RED") /\ Score("BLUE")' = Score("BLUE") /\ Step' = Step
  BY <1>1 DEF Score, Step
<1>7. result' = "playing" => result = "playing" /\ (late' \/ NoneIn(r, PhaseWord))
  BY <1>1, <1>4
<1>8. PostTurn(r) /\ PostTries(r) /\ PostSeat(r) /\ PostPhase(r) /\ PostMode(r)
  BY <1>1, <1>3, <1>6, <1>7
  DEF PostTurn, PostTries, PostSeat, PostPhase, PostMode
<1>9. PostCards(r) /\ PostOpen(r) /\ PostTyped(r)
  BY <1>1, <1>3, <1>5 DEF PostCards, PostOpen, PostTyped
<1> QED
  BY <1>1, <1>2, <1>8, <1>9 DEF Post

LEMMA GuessPosts ==
    ASSUME TypeInv, NEW c \in Card, GuessAndTell(c)
    PROVE  \E r : Post(r)
<1> DEFINE u == CardUpdate(c)
           t == TurnUpdate("HINT_PHASE")
           head == <<u, Chat>>
           tail == IF result' # "playing" THEN <<Chat, GameOver>>
                   ELSE IF guesses' = 0 THEN <<t>> ELSE <<>>
           r == head \o tail
<1>1. /\ result = "playing" /\ guesses > 0 /\ guesses \in Nat
      /\ revealed' = revealed \cup {c} /\ key' = key
      /\ inbox' = inbox \o r /\ Len(inbox') <= MaxInFlight
      /\ turn \in Team /\ revealed \subseteq Card /\ IsFiniteSet(revealed)
  BY DEF TypeInv, RoomTyped, GuessAndTell, Guess, Deliver
<1>2. /\ guesses' \in Nat /\ turn' \in Team /\ result' # "setup"
      /\ (result' = "playing" /\ guesses' > 0) =>
            guesses' = guesses - 1 /\ key[c] = turn /\ turn' = turn
  <2>1. result' # "setup"
    BY <1>1 DEF GuessAndTell, Guess, Outcome, Other
  <2>2. \/ result' # "playing" /\ guesses' = 0 /\ turn' = turn
        \/ guesses' = 0 /\ turn' = Other(turn)
        \/ /\ key[c] = turn /\ guesses > 1 /\ guesses' = guesses - 1
           /\ turn' = turn
    BY DEF GuessAndTell, Guess
  <2>3. Other(turn) \in Team
    BY DEF Other, Team
  <2> QED
    BY <1>1, <2>1, <2>2, <2>3
<1>3. IsFiniteSet(revealed') /\ revealed' \subseteq Card
  BY <1>1, FS_AddElement
<1>4. /\ t \in Message /\ t.type = "TURN_UPDATE" /\ t \in ModeTrue
      /\ guesses' = 0 => t \in TurnTrue'
  BY <1>2, <1>3, TurnUpdateTrue DEF Step
<1>5. /\ u \in Message /\ u.type = "CARD_UPDATE" /\ u.card = c
      /\ (result' = "playing" /\ guesses' > 0) => u \in TriesTrue'
  <2>1. u = [type |-> "CARD_UPDATE", card |-> c,
             tries |-> IF key[c] = turn THEN guesses - 1 ELSE guesses]
    BY DEF CardUpdate
  <2>2. (IF key[c] = turn THEN guesses - 1 ELSE guesses) \in Int
    BY <1>1
  <2>3. u \in Message /\ u.type = "CARD_UPDATE" /\ u.card = c
    BY <2>1, <2>2 DEF Message
  <2> QED
    BY <1>2, <2>1, <2>3 DEF TriesTrue
<1>6. Chat \in Message /\ GameOver \in Message
  BY PlainMessage DEF Chat, GameOver, Plain
<1> HIDE DEF t, u
<1>7. head \in Seq(Message) /\ DOMAIN head = 1 .. 2 /\ head[1] = u /\ head[2] = Chat
  BY <1>5, <1>6
<1>8. tail \in Seq(Message)
  BY <1>4, <1>6
<1>9. /\ result' # "playing" => tail = <<Chat, GameOver>>
      /\ (result' = "playing" /\ guesses' = 0) => tail = <<t>>
      /\ (result' = "playing" /\ guesses' # 0) => tail = <<>>
  OBVIOUS
<1> HIDE DEF head, tail
<1>10. r \in Seq(Message)
  BY <1>7, <1>8
<1>11. \A k \in DOMAIN head : k = 1 \/ k = 2
  BY <1>7
<1>12. head[1].type = "CARD_UPDATE" /\ head[2].type = "CHAT" /\ head[1].card = c
  BY <1>5, <1>7 DEF Chat
<1>13. Coming(head) = {c}
  BY <1>7, <1>11, <1>12 DEF Coming, Uncovering
<1>14. /\ Only(head, {"CARD_UPDATE", "CHAT"})
       /\ guesses' > 0 /\ result' = "playing" => LastIn(head, TriesWord, TriesTrue')
  BY <1>5, <1>7, <1>11, <1>12 DEF Only, LastIn, TriesWord
<1>15. CASE result' # "playing"
  <2>1. Only(<<Chat, GameOver>>, {"CHAT", "GAME_OVER"})
    BY DEF Only, Chat, GameOver
  <2>2. NoneIn(tail, {"CARD_UPDATE"})
    BY <1>9, <1>15, <2>1 DEF Only, NoneIn
  <2>3. Coming(tail) = {}
    BY <2>2, NothingComing
  <2>4. Coming(r) = {c}
    BY <1>7, <1>8, <1>13, <2>3, JoinedComing
  <2>5. PostTurn(r) /\ PostTries(r) /\ PostSeat(r) /\ PostPhase(r) /\ PostMode(r)
    BY <1>15 DEF PostTurn, PostTries, PostSeat, PostPhase, PostMode
  <2>6. PostCards(r) /\ PostOpen(r) /\ PostTyped(r)
    BY <1>1, <1>2, <1>3, <1>15, <2>4 DEF PostCards, PostOpen, PostTyped
  <2> QED
    BY <1>1, <1>10, <2>5, <2>6 DEF Post
<1>16. CASE result' = "playing"
  <2>1. /\ Only(tail, {"TURN_UPDATE"})
        /\ guesses' # 0 => Only(tail, {})
        /\ guesses' = 0 => LastIn(tail, TurnWord, TurnTrue') /\ LastIn(tail, ModeWord, ModeTrue)
    <3>1. CASE guesses' = 0
      <4>1. Only(<<t>>, {"TURN_UPDATE"})
        BY <1>4, Alone
      <4>2. LastIn(<<t>>, TurnWord, TurnTrue') /\ LastIn(<<t>>, ModeWord, ModeTrue)
        BY <1>4, <3>1, Alone DEF TurnWord, ModeWord
      <4> QED
        BY <1>9, <1>16, <3>1, <4>1, <4>2
    <3>2. CASE guesses' # 0
      BY <1>9, <1>16, <3>2 DEF Only
    <3> QED
      BY <3>1, <3>2
  <2>2. /\ NoneIn(tail, {"CARD_UPDATE"}) /\ NoneIn(tail, TriesWord)
        /\ NoneIn(tail, SeatWord) /\ NoneIn(tail, PhaseWord)
        /\ NoneIn(tail, {"ALL_CARDS"})
        /\ guesses' # 0 => NoneIn(tail, TurnWord) /\ NoneIn(tail, ModeWord)
    BY <2>1 DEF Only, NoneIn, TriesWord, SeatWord, PhaseWord
  <2>3. /\ NoneIn(head, TurnWord) /\ NoneIn(head, SeatWord) /\ NoneIn(head, PhaseWord)
        /\ NoneIn(head, {"ALL_CARDS"}) /\ NoneIn(head, ModeWord)
    BY <1>14 DEF Only, NoneIn, TurnWord, SeatWord, PhaseWord, ModeWord
  <2>4. Coming(tail) = {}
    BY <2>2, NothingComing
  <2>5. Coming(r) = {c}
    BY <1>7, <1>8, <1>13, <2>4, JoinedComing
  <2>6. NoneIn(r, SeatWord) /\ NoneIn(r, PhaseWord) /\ NoneIn(r, {"ALL_CARDS"})
    BY <1>7, <1>8, <2>2, <2>3, JoinedNone
  <2>7. guesses' # 0 => NoneIn(r, TurnWord) /\ NoneIn(r, ModeWord)
    BY <1>7, <1>8, <2>2, <2>3, JoinedNone
  <2>8. guesses' # 0 => LastIn(r, TriesWord, TriesTrue')
    <3> SUFFICES ASSUME guesses' # 0 PROVE LastIn(r, TriesWord, TriesTrue')
      OBVIOUS
    <3>1. LastIn(head, TriesWord, TriesTrue')
      BY <1>2, <1>14, <1>16
    <3> QED
      BY <1>7, <1>8, <2>2, <3>1, JoinedOther
  <2>9. guesses' = 0 => LastIn(r, TurnWord, TurnTrue') /\ LastIn(r, ModeWord, ModeTrue)
    BY <1>7, <1>8, <2>1, JoinedLast
  <2>10. guesses' # 0 => turn' = turn /\ Step' = Step
    BY <1>1, <1>2, <1>16 DEF Step
  <2>11. PostTurn(r) /\ PostMode(r)
    BY <1>1, <2>7, <2>9, <2>10 DEF PostTurn, PostMode
  <2>12. PostTries(r) /\ PostSeat(r) /\ PostPhase(r)
    BY <1>1, <1>2, <2>6, <2>8 DEF PostTries, PostSeat, PostPhase
  <2>13. PostCards(r) /\ PostOpen(r) /\ PostTyped(r)
    BY <1>1, <1>2, <1>3, <2>5, <2>6 DEF PostCards, PostOpen, PostTyped
  <2> QED
    BY <1>1, <1>10, <2>11, <2>12, <2>13 DEF Post
<1> QED
  BY <1>15, <1>16

-----------------------------------------------------------------------------
(* What the room posts goes to the end of the stream.                      *)

LEMMA PostKeepsTurn ==
    ASSUME TypeInv, TurnTold, NEW r, Post(r), UNCHANGED <<view, lost>>
    PROVE  TurnTold'
<1> SUFFICES ASSUME InStep'
             PROVE  \/ NoneIn(inbox, TurnWord)' /\ TurnSeen'
                    \/ LastIn(inbox', TurnWord, TurnTrue')
  BY DEF TurnTold
<1>1. /\ inbox \in Seq(Message) /\ r \in Seq(Message) /\ inbox' = inbox \o r
      /\ result' = "playing" /\ ~lost
  BY DEF TypeInv, Post, InStep
<1>2. CASE LastIn(r, TurnWord, TurnTrue')
  BY <1>1, <1>2, JoinedLast
<1>3. CASE ~LastIn(r, TurnWord, TurnTrue')
  <2>1. /\ NoneIn(r, TurnWord) /\ result = "playing"
        /\ turn' = turn /\ Step' = Step
        /\ guesses' = 0 =>
              /\ guesses = 0
              /\ Score("RED")' = Score("RED") /\ Score("BLUE")' = Score("BLUE")
    BY <1>1, <1>3 DEF Post, PostTurn
  <2>2. TurnTrue \subseteq TurnTrue'
    BY <2>1 DEF TurnTrue
  <2>3. TurnSeen => TurnSeen'
    BY <2>1 DEF TurnSeen
  <2>4. CASE NoneIn(inbox, TurnWord) /\ TurnSeen
    BY <1>1, <2>1, <2>3, <2>4, JoinedNone
  <2>5. CASE LastIn(inbox, TurnWord, TurnTrue)
    BY <1>1, <2>1, <2>2, <2>5, JoinedOther, LastWeaker
  <2> QED
    BY <1>1, <2>1, <2>4, <2>5 DEF TurnTold, InStep
<1> QED
  BY <1>2, <1>3

LEMMA PostKeepsTries ==
    ASSUME TypeInv, TriesTold, NEW r, Post(r), UNCHANGED <<view, lost>>
    PROVE  TriesTold'
<1> SUFFICES ASSUME InStep', guesses' > 0
             PROVE  \/ NoneIn(inbox, TriesWord)' /\ (view.tries = guesses)'
                    \/ LastIn(inbox', TriesWord, TriesTrue')
  BY DEF TriesTold
<1>1. /\ inbox \in Seq(Message) /\ r \in Seq(Message) /\ inbox' = inbox \o r
      /\ result' = "playing" /\ ~lost
  BY DEF TypeInv, Post, InStep
<1>2. CASE LastIn(r, TriesWord, TriesTrue')
  BY <1>1, <1>2, JoinedLast
<1>3. CASE ~LastIn(r, TriesWord, TriesTrue')
  <2>1. NoneIn(r, TriesWord) /\ result = "playing" /\ guesses' = guesses
    BY <1>1, <1>3 DEF Post, PostTries
  <2>2. TriesTrue = TriesTrue'
    BY <2>1 DEF TriesTrue
  <2>3. CASE NoneIn(inbox, TriesWord) /\ view.tries = guesses
    BY <1>1, <2>1, <2>3, JoinedNone
  <2>4. CASE LastIn(inbox, TriesWord, TriesTrue)
    BY <1>1, <2>1, <2>2, <2>4, JoinedOther
  <2> QED
    BY <1>1, <2>1, <2>3, <2>4 DEF TriesTold, InStep
<1> QED
  BY <1>2, <1>3

LEMMA PostKeepsCards ==
    ASSUME TypeInv, CardsTold, NEW r, Post(r), UNCHANGED <<view, lost>>
    PROVE  CardsTold'
<1> SUFFICES ASSUME InStep'
             PROVE  \/ /\ NoneIn(inbox', {"ALL_CARDS"}) /\ view'.cards = "new"
                       /\ revealed' = view'.revealed \cup Coming(inbox')
                    \/ DealtIn(inbox') /\ revealed' = Coming(inbox')
  BY DEF CardsTold
<1>1. /\ inbox \in Seq(Message) /\ r \in Seq(Message) /\ inbox' = inbox \o r
      /\ result' = "playing" /\ ~lost
  BY DEF TypeInv, Post, InStep
<1>2. Coming(inbox') = Coming(inbox) \cup Coming(r)
  BY <1>1, JoinedComing
<1>3. CASE DealtIn(r) /\ result = "setup" /\ revealed' = {} /\ Coming(r) = {}
  <2>1. NoneIn(inbox, {"ALL_CARDS", "CARD_UPDATE"})
    BY <1>3 DEF TypeInv, RoomTyped
  <2>2. DealtIn(inbox')
    BY <1>1, <1>3, <2>1, DealtBehind
  <2>3. NoneIn(inbox, {"CARD_UPDATE"})
    BY <2>1 DEF NoneIn
  <2>4. Coming(inbox) = {}
    BY <2>3, NothingComing
  <2> QED
    BY <1>2, <1>3, <2>2, <2>4
<1>4. CASE /\ NoneIn(r, {"ALL_CARDS"}) /\ result = "playing"
           /\ revealed' = revealed \cup Coming(r)
  <2>1. CASE /\ NoneIn(inbox, {"ALL_CARDS"}) /\ view.cards = "new"
             /\ revealed = view.revealed \cup Coming(inbox)
    <3>1. NoneIn(inbox', {"ALL_CARDS"})
      BY <1>1, <1>4, <2>1, JoinedNone
    <3> QED
      BY <1>2, <1>4, <2>1, <3>1
  <2>2. CASE DealtIn(inbox) /\ revealed = Coming(inbox)
    <3>1. DealtIn(inbox')
      BY <1>1, <1>4, <2>2, DealtBefore
    <3> QED
      BY <1>2, <1>4, <2>2, <3>1
  <2> QED
    BY <1>1, <1>4, <2>1, <2>2 DEF CardsTold, InStep
<1> QED
  BY <1>1, <1>3, <1>4 DEF Post, PostCards

LEMMA PostKeepsSeat ==
    ASSUME TypeInv, SeatTold, NEW r, Post(r), UNCHANGED <<view, lost, seat>>
    PROVE  SeatTold'
<1> SUFFICES ASSUME InStep', seat.known
             PROVE  \/ /\ NoneIn(inbox', SeatWord)
                       /\ view'.team = seat.team /\ view'.leader = seat.leader
                    \/ LastIn(inbox', SeatWord, SeatTrue')
  BY DEF SeatTold
<1>1. /\ inbox \in Seq(Message) /\ r \in Seq(Message) /\ inbox' = inbox \o r
      /\ result' = "playing" /\ ~lost /\ SeatTrue' = SeatTrue
  BY DEF TypeInv, Post, InStep, SeatTrue
<1>2. CASE LastIn(r, SeatWord, SeatTrue)
  BY <1>1, <1>2, JoinedLast
<1>3. CASE ~LastIn(r, SeatWord, SeatTrue)
  <2>1. NoneIn(r, SeatWord) /\ result = "playing"
    BY <1>1, <1>3 DEF Post, PostSeat
  <2>2. CASE /\ NoneIn(inbox, SeatWord)
             /\ view.team = seat.team /\ view.leader = seat.leader
    BY <1>1, <2>1, <2>2, JoinedNone
  <2>3. CASE LastIn(inbox, SeatWord, SeatTrue)
    BY <1>1, <2>1, <2>3, JoinedOther
  <2> QED
    BY <1>1, <2>1, <2>2, <2>3 DEF SeatTold, InStep
<1> QED
  BY <1>2, <1>3

LEMMA PostKeepsPhase ==
    ASSUME TypeInv, PhaseTold, NEW r, Post(r), UNCHANGED <<view, lost, restarted>>,
           late => late'
    PROVE  PhaseTold'
<1> SUFFICES ASSUME InStep', ~late', ~restarted
             PROVE  \/ NoneIn(inbox', PhaseWord) /\ view'.phase = "PLAYING"
                    \/ LastIn(inbox', PhaseWord, PhaseTrue)
  BY DEF PhaseTold, PhaseTrue
<1>1. /\ inbox \in Seq(Message) /\ r \in Seq(Message) /\ inbox' = inbox \o r
      /\ result' = "playing" /\ ~lost
  BY DEF TypeInv, Post, InStep
<1>2. CASE LastIn(r, PhaseWord, PhaseTrue)
  BY <1>1, <1>2, JoinedLast
<1>3. CASE ~LastIn(r, PhaseWord, PhaseTrue)
  <2>1. NoneIn(r, PhaseWord) /\ result = "playing"
    BY <1>1, <1>3 DEF Post, PostPhase
  <2>2. CASE NoneIn(inbox, PhaseWord) /\ view.phase = "PLAYING"
    BY <1>1, <2>1, <2>2, JoinedNone
  <2>3. CASE LastIn(inbox, PhaseWord, PhaseTrue)
    BY <1>1, <2>1, <2>3, JoinedOther
  <2> QED
    BY <1>1, <2>1, <2>2, <2>3 DEF PhaseTold, InStep
<1> QED
  BY <1>2, <1>3

LEMMA PostKeepsMode ==
    ASSUME TypeInv, ModeTold, NEW r, Post(r),
           UNCHANGED <<view, mode, scene, entering, lost>>
    PROVE  ModeTold'
<1> SUFFICES ASSUME InStep'
             PROVE  \/ NoneIn(inbox', ModeWord) /\ ModeFits'
                    \/ LastIn(inbox', ModeWord, ModeTrue)
  BY DEF ModeTold, ModeTrue
<1>1. /\ inbox \in Seq(Message) /\ r \in Seq(Message) /\ inbox' = inbox \o r
      /\ result' = "playing" /\ ~lost
  BY DEF TypeInv, Post, InStep
<1>2. CASE LastIn(r, ModeWord, ModeTrue)
  BY <1>1, <1>2, JoinedLast
<1>3. CASE ~LastIn(r, ModeWord, ModeTrue)
  <2>1. NoneIn(r, ModeWord) /\ result = "playing"
    BY <1>1, <1>3 DEF Post, PostMode
  <2>2. ModeFits' = ModeFits
    BY DEF ModeFits, Client!AutoMode
  <2>3. CASE NoneIn(inbox, ModeWord) /\ ModeFits
    BY <1>1, <2>1, <2>2, <2>3, JoinedNone
  <2>4. CASE LastIn(inbox, ModeWord, ModeTrue)
    BY <1>1, <2>1, <2>4, JoinedOther
  <2> QED
    BY <1>1, <2>1, <2>3, <2>4 DEF ModeTold, InStep
<1> QED
  BY <1>2, <1>3

LEMMA PostKeepsOpen ==
    ASSUME TypeInv, OpenOnly, NEW r, Post(r), UNCHANGED view
    PROVE  OpenOnly'
<1>1. /\ inbox \in Seq(Message) /\ r \in Seq(Message) /\ inbox' = inbox \o r
      /\ revealed \subseteq revealed' /\ Coming(r) \subseteq revealed'
  BY DEF TypeInv, Post, PostOpen
<1>2. Coming(inbox') = Coming(inbox) \cup Coming(r)
  BY <1>1, JoinedComing
<1> QED
  BY <1>1, <1>2 DEF OpenOnly

\* The room of a step that posts, and the stream with it, keep their types.
LEMMA PostKeepsRoom ==
    ASSUME TypeInv, NEW r, Post(r)
    PROVE  /\ RoomTyped' /\ inbox' \in Seq(Message) /\ Len(inbox') <= MaxInFlight
<1>1. /\ inbox \in Seq(Message) /\ r \in Seq(Message) /\ inbox' = inbox \o r
      /\ Len(inbox') <= MaxInFlight /\ PostTyped(r)
  BY DEF TypeInv, Post
<1>2. result' = "setup" => NoneIn(inbox', {"ALL_CARDS", "CARD_UPDATE"})
  BY <1>1, JoinedNone DEF PostTyped, TypeInv, RoomTyped
<1> QED
  BY <1>1, <1>2, Joined DEF PostTyped, RoomTyped

\* A step that tells the player nothing.
LEMMA NothingPosted ==
    ASSUME TypeInv, UNCHANGED <<vars, inbox>>
    PROVE  Post(<<>>)
<1> DEFINE r == <<>>
<1>1. /\ UNCHANGED <<key, revealed, turn, guesses, result>>
      /\ turn \in Team /\ revealed \subseteq Card /\ IsFiniteSet(revealed)
      /\ guesses \in Nat /\ (result = "setup" => revealed = {} /\ guesses = 0)
      /\ inbox \in Seq(Message) /\ inbox' = inbox /\ Len(inbox) <= MaxInFlight
  BY DEF TypeInv, RoomTyped, JointTypeOK, vars
<1>2. r \in Seq(Message) /\ inbox' = inbox \o r /\ Len(inbox') <= MaxInFlight
  BY <1>1, ConcatEmptySeq
<1>3. \A T : NoneIn(r, T)
  BY DEF NoneIn
<1> HIDE DEF r
<1>4. Coming(r) = {}
  BY <1>3, NothingComing
<1>5. Score("RED")' = Score("RED") /\ Score("BLUE")' = Score("BLUE") /\ Step' = Step
  BY <1>1 DEF Score, Step
<1>6. PostTurn(r) /\ PostTries(r) /\ PostSeat(r) /\ PostPhase(r) /\ PostMode(r)
  BY <1>1, <1>3, <1>5
  DEF PostTurn, PostTries, PostSeat, PostPhase, PostMode
<1>7. PostCards(r) /\ PostOpen(r) /\ PostTyped(r)
  BY <1>1, <1>3, <1>4 DEF PostCards, PostOpen, PostTyped
<1>8. Post(r)
  BY <1>2, <1>6, <1>7 DEF Post
<1> QED
  BY <1>8 DEF r

LEMMA RoomStepPosts ==
    ASSUME TypeInv, RoomStep
    PROVE  \E r : Post(r)
<1>1. /\ Chat \in Message /\ Chat.type = "CHAT"
      /\ [type |-> "ANSWER_RESULT"] \in Message
  BY PlainMessage DEF Chat, Plain
<1>2. ASSUME NEW c \in Card, GuessAndTell(c) PROVE \E r : Post(r)
  BY <1>2, GuessPosts
<1>3. CASE OthersMove
  BY <1>2, <1>3, DealPosts, AbortPosts, CluePosts DEF OthersMove
<1>4. ASSUME NEW p, HintTaken(p) PROVE \E r : Post(r)
  BY <1>4, CluePosts DEF HintTaken
<1>5. ASSUME NEW p, AnswerTaken(p) PROVE \E r : Post(r)
  BY <1>2, <1>5 DEF AnswerTaken, Candidates
<1>6. ASSUME NEW p, AnswerInvalid(p) PROVE \E r : Post(r)
  <2>1. Deliver(<<[type |-> "ANSWER_RESULT"]>>) /\ UNCHANGED vars
    BY <1>6 DEF AnswerInvalid
  <2> QED
    BY <1>1, <2>1, LinePosts
<1>7. ASSUME NEW p, ChatTaken(p) PROVE \E r : Post(r)
  <2>1. Deliver(<<Chat>>) /\ UNCHANGED vars
    BY <1>7 DEF ChatTaken
  <2> QED
    BY <1>1, <2>1, LinePosts
<1>8. ASSUME NEW p, Refused(p) PROVE \E r : Post(r)
  <2>1. UNCHANGED <<vars, inbox>>
    BY <1>8 DEF Refused
  <2> QED
    BY <2>1, NothingPosted
<1>9. CASE ReadPacket
  <2>1. PICK p : HintTaken(p) \/ AnswerTaken(p) \/ AnswerInvalid(p) \/ ChatTaken(p)
                 \/ Refused(p)
    BY <1>9 DEF ReadPacket
  <2> QED
    BY <1>4, <1>5, <1>6, <1>7, <1>8, <2>1
<1> QED
  BY <1>3, <1>9 DEF RoomStep

LEMMA NoticeStepPosts ==
    ASSUME TypeInv, NoticeStep
    PROVE  \E r : Post(r)
<1>1. PICK type \in {"WAIT_REPLY", "QUEUE_FULL"} : MatchNotice(type)
  BY DEF NoticeStep
<1>2. [type |-> type] \in Message
  BY PlainMessage DEF Plain
<1>3. /\ Deliver(<<[type |-> type]>>) /\ UNCHANGED vars
      /\ result = "setup" \/ late'
  BY <1>1 DEF MatchNotice
<1> QED
  BY <1>2, <1>3, LinePosts

-----------------------------------------------------------------------------
(* What the handlers do to the screen.                                     *)

ViewTurn(m) ==
    IF m.type = "TURN_UPDATE"
    THEN /\ view'.turn = m.turn /\ view'.step = m.phase
         /\ view'.red = m.red /\ view'.blue = m.blue
    ELSE /\ view'.turn = view.turn /\ view'.step = view.step
         /\ view'.red = view.red /\ view'.blue = view.blue
ViewTries(m) ==
    view'.tries = IF m.type = "HINT" THEN m.number
                  ELSE IF m.type = "CARD_UPDATE" THEN m.tries ELSE view.tries
ViewCards(m) ==
    /\ view'.cards = IF m.type = "ALL_CARDS" THEN "new" ELSE view.cards
    /\ m.type = "ALL_CARDS" => view'.revealed = {}
    /\ m.type = "CARD_UPDATE" =>
          view'.revealed = IF view.cards = "none" THEN view.revealed
                           ELSE view.revealed \cup {m.card}
    /\ m.type \notin {"ALL_CARDS", "CARD_UPDATE"} => view'.revealed = view.revealed
ViewSeat(m) ==
    IF m.type = "GAME_INIT" /\ m.team # "none"
    THEN view'.team = m.team /\ view'.leader = m.leader
    ELSE view'.team = view.team /\ view'.leader = view.leader
ViewPhase(m) ==
    /\ m.type = "GAME_START" => view'.phase = "PLAYING"
    /\ m.type \notin PhaseWord => view'.phase = view.phase
ViewMode(m) ==
    /\ m.type = "TURN_UPDATE" => mode' = Client!AutoMode(view')
    /\ m.type \notin ModeWord =>
          mode' \in {mode, Client!AutoMode(view'), "NONE"}

Shown(m) ==
    /\ view' \in View /\ mode' \in Client!Mode /\ running' \in BOOLEAN
    /\ ViewTurn(m) /\ ViewTries(m) /\ ViewCards(m) /\ ViewSeat(m)
    /\ ViewPhase(m) /\ ViewMode(m)

LEMMA AutoModes ==
    ASSUME NEW v
    PROVE  Client!AutoMode(v) \in {"HINT_WORD", "ANSWER", "NONE"}
BY DEF Client!AutoMode

\* A message has the fields of its type.
LEMMA MessageFields ==
    ASSUME NEW m \in Message
    PROVE  /\ m.type \in Plain \cup {"GAME_INIT", "TURN_UPDATE", "HINT", "CARD_UPDATE"}
           /\ m.type = "GAME_INIT" =>
                 m.team \in Team \cup {"none"} /\ m.leader \in BOOLEAN
           /\ m.type = "TURN_UPDATE" =>
                 /\ m.turn \in Team /\ m.phase \in {"HINT_PHASE", "GUESS_PHASE"}
                 /\ m.red \in Nat /\ m.blue \in Nat
           /\ m.type = "HINT" => m.number \in Nat
           /\ m.type = "CARD_UPDATE" => m.card \in Card /\ m.tries \in Int
BY DEF Message, Plain

LEMMA PhaseShown ==
    ASSUME TypeInv, NEW m \in Message, NEW p \in Client!GamePhase,
           m.type \in {"WAIT_REPLY", "QUEUE_FULL", "GAME_START"},
           m.type = "GAME_START" => p = "PLAYING", Client!SetPhase(p)
    PROVE  Shown(m)
<1>1. /\ view \in View /\ mode \in Client!Mode /\ running \in BOOLEAN
  BY DEF TypeInv, JointTypeOK, Client!ClientTypeOK
<1>2. view' = [view EXCEPT !.phase = p] /\ running' = running
      /\ mode' = IF view.phase = p THEN mode
                 ELSE IF p = "PLAYING" THEN Client!AutoMode(view) ELSE "NONE"
  BY DEF Client!SetPhase
<1>3. /\ view' \in View /\ view'.phase = p
      /\ view'.team = view.team /\ view'.leader = view.leader
      /\ view'.cards = view.cards /\ view'.revealed = view.revealed
      /\ view'.turn = view.turn /\ view'.step = view.step
      /\ view'.tries = view.tries /\ view'.red = view.red /\ view'.blue = view.blue
  BY <1>1, <1>2 DEF View
<1>4. Client!AutoMode(view') = Client!AutoMode(view)
  BY <1>3 DEF Client!AutoMode
<1>5. mode' \in {mode, Client!AutoMode(view'), "NONE"}
  BY <1>2, <1>4
<1>6. mode' \in Client!Mode
  BY <1>1, <1>5, AutoModes DEF Client!Mode
<1>7. ViewTurn(m) /\ ViewTries(m) /\ ViewCards(m) /\ ViewSeat(m)
  BY <1>3 DEF ViewTurn, ViewTries, ViewCards, ViewSeat
<1>8. ViewPhase(m) /\ ViewMode(m)
  BY <1>3, <1>5 DEF ViewPhase, ViewMode, PhaseWord
<1> QED
  BY <1>1, <1>2, <1>3, <1>6, <1>7, <1>8 DEF Shown

\* The handlers that leave the input mode alone.
LEMMA FieldsShown ==
    ASSUME TypeInv, NEW m \in Message, UNCHANGED mode, running' \in BOOLEAN,
           view' \in View, m.type # "TURN_UPDATE", m.type # "GAME_START",
           view'.turn = view.turn, view'.step = view.step,
           view'.red = view.red, view'.blue = view.blue,
           ViewTries(m), ViewCards(m), ViewSeat(m),
           m.type \in PhaseWord \/ view'.phase = view.phase
    PROVE  Shown(m)
<1>1. mode' \in Client!Mode
  BY DEF TypeInv, JointTypeOK, Client!ClientTypeOK
<1>2. ViewTurn(m) /\ ViewPhase(m) /\ ViewMode(m)
  BY DEF ViewTurn, ViewPhase, ViewMode
<1> QED
  BY <1>1, <1>2 DEF Shown

LEMMA HandleShows ==
    ASSUME TypeInv, NEW m \in Message, Client!Handle(m)
    PROVE  Shown(m)
<1>1. /\ view \in View /\ mode \in Client!Mode /\ running \in BOOLEAN
  BY DEF TypeInv, JointTypeOK, Client!ClientTypeOK
<1>2. CASE m.type \in {"WAIT_REPLY", "QUEUE_FULL", "GAME_START"}
  <2>1. \/ m.type = "GAME_START" /\ Client!SetPhase("PLAYING")
        \/ m.type # "GAME_START" /\ Client!SetPhase("MATCHING")
    BY <1>2 DEF Client!Handle, Client!HandleWaitReply, Client!HandleQueueFull,
                Client!HandleGameStart
  <2> QED
    BY <1>2, <2>1, PhaseShown DEF Client!GamePhase
<1>3. CASE m.type = "GAME_INIT"
  <2>1. /\ view' = IF m.team = "none" THEN view
                   ELSE [view EXCEPT !.team = m.team, !.leader = m.leader]
        /\ UNCHANGED <<mode, running>>
    BY <1>3 DEF Client!Handle, Client!HandleGameInit
  <2>2. m.team \in Team \cup {"none"} /\ m.leader \in BOOLEAN
    BY <1>3, MessageFields
  <2>3. /\ view' \in View /\ view'.phase = view.phase
        /\ view'.cards = view.cards /\ view'.revealed = view.revealed
        /\ view'.turn = view.turn /\ view'.step = view.step
        /\ view'.tries = view.tries /\ view'.red = view.red /\ view'.blue = view.blue
        /\ IF m.team = "none" THEN view'.team = view.team /\ view'.leader = view.leader
           ELSE view'.team = m.team /\ view'.leader = m.leader
    BY <1>1, <2>1, <2>2 DEF View
  <2>4. ViewTries(m) /\ ViewCards(m) /\ ViewSeat(m)
    BY <1>3, <2>3 DEF ViewTries, ViewCards, ViewSeat
  <2> QED
    BY <1>1, <1>3, <2>1, <2>3, <2>4, FieldsShown
<1>4. CASE m.type = "ALL_CARDS"
  <2>1. /\ view' = [view EXCEPT !.cards = "new", !.revealed = {}]
        /\ UNCHANGED <<mode, running>>
    BY <1>4 DEF Client!Handle, Client!HandleAllCards
  <2>2. /\ view' \in View /\ view'.phase = view.phase
        /\ view'.cards = "new" /\ view'.revealed = {}
        /\ view'.turn = view.turn /\ view'.step = view.step
        /\ view'.tries = view.tries /\ view'.red = view.red /\ view'.blue = view.blue
        /\ view'.team = view.team /\ view'.leader = view.leader
    BY <1>1, <2>1 DEF View
  <2>3. ViewTries(m) /\ ViewCards(m) /\ ViewSeat(m)
    BY <1>4, <2>2 DEF ViewTries, ViewCards, ViewSeat
  <2> QED
    BY <1>1, <1>4, <2>1, <2>2, <2>3, FieldsShown
<1>5. CASE m.type = "TURN_UPDATE"
  <2>1. /\ view' = [view EXCEPT !.turn = m.turn, !.step = m.phase,
                                !.red = m.red, !.blue = m.blue]
        /\ mode' = Client!AutoMode(view') /\ running' = running
    BY <1>5 DEF Client!Handle, Client!HandleTurnUpdate
  <2>2. /\ m.turn \in Team /\ m.phase \in {"HINT_PHASE", "GUESS_PHASE"}
        /\ m.red \in Nat /\ m.blue \in Nat
    BY <1>5, MessageFields
  <2>3. /\ view' \in View /\ view'.phase = view.phase
        /\ view'.cards = view.cards /\ view'.revealed = view.revealed
        /\ view'.turn = m.turn /\ view'.step = m.phase
        /\ view'.tries = view.tries /\ view'.red = m.red /\ view'.blue = m.blue
        /\ view'.team = view.team /\ view'.leader = view.leader
    BY <1>1, <2>1, <2>2 DEF View
  <2>4. mode' \in Client!Mode
    BY <2>1, AutoModes DEF Client!Mode
  <2>5. ViewTurn(m) /\ ViewTries(m) /\ ViewCards(m)
    BY <1>5, <2>3 DEF ViewTurn, ViewTries, ViewCards
  <2>6. ViewSeat(m) /\ ViewPhase(m) /\ ViewMode(m)
    BY <1>5, <2>1, <2>3 DEF ViewSeat, ViewPhase, ViewMode, ModeWord
  <2> QED
    BY <1>1, <2>1, <2>3, <2>4, <2>5, <2>6 DEF Shown
<1>6. CASE m.type = "HINT"
  <2>1. /\ view' = [view EXCEPT !.tries = m.number]
        /\ UNCHANGED <<mode, running>>
    BY <1>6 DEF Client!Handle, Client!HandleHintMsg
  <2>2. m.number \in Nat
    BY <1>6, MessageFields
  <2>3. /\ view' \in View /\ view'.phase = view.phase
        /\ view'.cards = view.cards /\ view'.revealed = view.revealed
        /\ view'.turn = view.turn /\ view'.step = view.step
        /\ view'.tries = m.number /\ view'.red = view.red /\ view'.blue = view.blue
        /\ view'.team = view.team /\ view'.leader = view.leader
    BY <1>1, <2>1, <2>2 DEF View
  <2>4. ViewTries(m) /\ ViewCards(m) /\ ViewSeat(m)
    BY <1>6, <2>3 DEF ViewTries, ViewCards, ViewSeat
  <2> QED
    BY <1>1, <1>6, <2>1, <2>3, <2>4, FieldsShown
<1>7. CASE m.type = "CARD_UPDATE"
  <2>1. /\ view' = [view EXCEPT
                       !.revealed = IF view.cards = "none" THEN @ ELSE @ \cup {m.card},
                       !.tries = m.tries]
        /\ UNCHANGED <<mode, running>>
    BY <1>7 DEF Client!Handle, Client!HandleCardUpdate
  <2>2. m.card \in Card /\ m.tries \in Int
    BY <1>7, MessageFields
  <2>3. /\ view' \in View /\ view'.phase = view.phase
        /\ view'.cards = view.cards
        /\ view'.revealed = IF view.cards = "none" THEN view.revealed
                            ELSE view.revealed \cup {m.card}
        /\ view'.turn = view.turn /\ view'.step = view.step
        /\ view'.tries = m.tries /\ view'.red = view.red /\ view'.blue = view.blue
        /\ view'.team = view.team /\ view'.leader = view.leader
    BY <1>1, <2>1, <2>2 DEF View
  <2>4. ViewTries(m) /\ ViewCards(m) /\ ViewSeat(m)
    BY <1>7, <2>3 DEF ViewTries, ViewCards, ViewSeat
  <2> QED
    BY <1>1, <1>7, <2>1, <2>3, <2>4, FieldsShown
<1>8. CASE m.type = "GAME_OVER"
  <2>1. /\ view' = [view EXCEPT !.phase = "RESULT"]
        /\ mode' = mode /\ running' = FALSE
    BY <1>8 DEF Client!Handle, Client!HandleGameOver
  <2>2. /\ view' \in View
        /\ view'.cards = view.cards /\ view'.revealed = view.revealed
        /\ view'.turn = view.turn /\ view'.step = view.step
        /\ view'.tries = view.tries /\ view'.red = view.red /\ view'.blue = view.blue
        /\ view'.team = view.team /\ view'.leader = view.leader
    BY <1>1, <2>1 DEF View, Client!GamePhase
  <2>3. ViewTries(m) /\ ViewCards(m) /\ ViewSeat(m)
    BY <1>8, <2>2 DEF ViewTries, ViewCards, ViewSeat
  <2> QED
    BY <1>8, <2>1, <2>2, <2>3, FieldsShown DEF PhaseWord
<1>9. CASE m.type \in {"CHAT", "ANSWER_RESULT"}
  <2>1. UNCHANGED <<view, mode, running>>
    BY <1>9 DEF Client!Handle, Client!HandleNothing
  <2>2. ViewTries(m) /\ ViewCards(m) /\ ViewSeat(m)
    BY <1>9, <2>1 DEF ViewTries, ViewCards, ViewSeat
  <2> QED
    BY <1>1, <1>9, <2>1, <2>2, FieldsShown
<1> QED
  BY <1>2, <1>3, <1>4, <1>5, <1>6, <1>7, <1>8, <1>9 DEF Client!Handle

-----------------------------------------------------------------------------
(* What the client reads comes from the front of the stream.               *)

\* The client handles the first message of the n it takes; it takes one as
\* long as no message is lost.
LEMMA Reading ==
    ASSUME TypeInv, NEW n \in Nat \ {0}, Client!ProcessPacket(n)
    PROVE  /\ inbox # <<>> /\ inbox[1] \in Message
           /\ inbox' \in Seq(Message) /\ Len(inbox') <= MaxInFlight
           /\ \A T : NoneIn(inbox, T) => NoneIn(inbox', T)
           /\ Coming(inbox') \subseteq Coming(inbox)
           /\ Shown(inbox[1]) \/ UNCHANGED <<view, mode, running>>
           /\ lost' \in BOOLEAN
           /\ ~lost' => ~lost /\ inbox' = Rest(inbox) /\ Shown(inbox[1])
           /\ UNCHANGED <<upstream, scene, entering, staleEsc, restarted>>
<1>1. /\ inbox \in Seq(Message) /\ Len(inbox) <= MaxInFlight
      /\ lost \in BOOLEAN /\ MaxInFlight \in Nat /\ Len(inbox) \in Nat
  BY ClientAssumption, LenProperties
  DEF TypeInv, JointTypeOK, Client!ClientTypeOK
<1>2. /\ n <= Len(inbox) /\ lost' = (lost \/ n > 1)
      /\ inbox' = SubSeq(inbox, n + 1, Len(inbox))
      /\ UNCHANGED <<upstream, scene, entering, staleEsc, restarted>>
      /\ IF n = 1 \/ Client!HasFields(Head(inbox)) THEN Client!Handle(Head(inbox))
                                                   ELSE Client!HandleNothing
  BY DEF Client!ProcessPacket
<1>3. n \in 1 .. Len(inbox)
  BY <1>1, <1>2
<1>4. inbox # <<>>
  BY <1>1, <1>3, EmptySeq
<1>5. inbox[1] = Head(inbox) /\ inbox[1] \in Message
  BY <1>1, <1>4, FirstAndRest
<1>6. Client!Handle(Head(inbox)) => Shown(inbox[1])
  BY <1>5, HandleShows
<1>7. Shown(inbox[1]) \/ UNCHANGED <<view, mode, running>>
  BY <1>2, <1>6 DEF Client!HandleNothing
<1>8. lost' \in BOOLEAN
  BY <1>2
<1>9. ~lost' => ~lost /\ n = 1
  <2>1. n > 1 \/ n = 1
    BY <1>3
  <2>2. lost' = (lost \/ n > 1)
    BY <1>2
  <2> QED
    BY <2>1, <2>2, Zenon
<1>10. ~lost' => ~lost /\ inbox' = Rest(inbox) /\ Shown(inbox[1])
  <2>1. n = 1 => n + 1 = 2
    OBVIOUS
  <2> QED
    BY <1>2, <1>6, <1>9, <2>1 DEF Rest
<1>11. /\ inbox' \in Seq(Message) /\ Len(inbox') = Len(inbox) - n
       /\ \A k \in DOMAIN inbox' : k + n \in DOMAIN inbox /\ inbox'[k] = inbox[k + n]
  BY <1>1, <1>2, <1>3, Dropped
<1>12. Len(inbox') <= MaxInFlight
  BY <1>1, <1>3, <1>11
<1>13. \A T : NoneIn(inbox, T) => NoneIn(inbox', T)
  BY <1>11 DEF NoneIn
<1>14. Coming(inbox') \subseteq Coming(inbox)
  BY <1>11 DEF Coming, Uncovering
<1> QED
  BY <1>2, <1>4, <1>5, <1>7, <1>8, <1>10, <1>11, <1>12, <1>13, <1>14

\* Reading one message.
Reads ==
    /\ inbox # <<>> /\ inbox[1] \in Message /\ Shown(inbox[1])
    /\ inbox' = Rest(inbox) /\ ~lost
    /\ UNCHANGED <<vars, seat, late, restarted, scene, entering>>

LEMMA ReadKeepsTurn ==
    ASSUME TypeInv, TurnTold, Reads
    PROVE  TurnTold'
<1> DEFINE m == inbox[1]
<1> SUFFICES ASSUME InStep'
             PROVE  \/ NoneIn(inbox', TurnWord) /\ TurnSeen'
                    \/ LastIn(inbox', TurnWord, TurnTrue')
  BY DEF TurnTold
<1>1. /\ inbox \in Seq(Message) /\ inbox # <<>> /\ inbox' = Rest(inbox)
      /\ InStep /\ ViewTurn(m)
      /\ UNCHANGED <<key, revealed, turn, guesses, result>>
  BY DEF TypeInv, Reads, InStep, vars, Shown
<1>2. /\ Step' = Step /\ Score("RED")' = Score("RED") /\ Score("BLUE")' = Score("BLUE")
  BY <1>1 DEF Step, Score
<1>3. TurnTrue' = TurnTrue
  BY <1>1, <1>2 DEF TurnTrue
<1>4. CASE NoneIn(inbox, TurnWord) /\ TurnSeen
  <2>1. m.type # "TURN_UPDATE" /\ NoneIn(inbox', TurnWord)
    BY <1>1, <1>4, RestNone DEF TurnWord
  <2>2. TurnSeen'
    BY <1>1, <1>2, <1>4, <2>1 DEF TurnSeen, ViewTurn
  <2> QED
    BY <2>1, <2>2
<1>5. CASE LastIn(inbox, TurnWord, TurnTrue)
  <2>1. \/ m \in TurnTrue /\ NoneIn(inbox', TurnWord)
        \/ LastIn(inbox', TurnWord, TurnTrue)
    BY <1>1, <1>5, RestLast
  <2>2. m \in TurnTrue => TurnSeen'
    BY <1>1, <1>2 DEF TurnTrue, TurnSeen, ViewTurn
  <2> QED
    BY <1>3, <2>1, <2>2
<1> QED
  BY <1>1, <1>4, <1>5 DEF TurnTold

LEMMA ReadKeepsTries ==
    ASSUME TypeInv, TriesTold, Reads
    PROVE  TriesTold'
<1> DEFINE m == inbox[1]
<1> SUFFICES ASSUME InStep', guesses' > 0
             PROVE  \/ NoneIn(inbox', TriesWord) /\ view'.tries = guesses'
                    \/ LastIn(inbox', TriesWord, TriesTrue')
  BY DEF TriesTold
<1>1. /\ inbox \in Seq(Message) /\ inbox # <<>> /\ inbox' = Rest(inbox)
      /\ InStep /\ ViewTries(m) /\ guesses' = guesses
  BY DEF TypeInv, Reads, InStep, vars, Shown
<1>2. TriesTrue' = TriesTrue
  BY <1>1 DEF TriesTrue
<1>3. CASE NoneIn(inbox, TriesWord) /\ view.tries = guesses
  <2>1. m.type \notin TriesWord /\ NoneIn(inbox', TriesWord)
    BY <1>1, <1>3, RestNone
  <2> QED
    BY <1>1, <1>3, <2>1 DEF ViewTries, TriesWord
<1>4. CASE LastIn(inbox, TriesWord, TriesTrue)
  <2>1. \/ m \in TriesTrue /\ NoneIn(inbox', TriesWord)
        \/ LastIn(inbox', TriesWord, TriesTrue)
    BY <1>1, <1>4, RestLast
  <2>2. m \in TriesTrue => view'.tries = guesses'
    BY <1>1 DEF TriesTrue, ViewTries
  <2> QED
    BY <1>2, <2>1, <2>2
<1> QED
  BY <1>1, <1>3, <1>4 DEF TriesTold

LEMMA ReadKeepsCards ==
    ASSUME TypeInv, CardsTold, Reads
    PROVE  CardsTold'
<1> DEFINE m == inbox[1]
<1> SUFFICES ASSUME InStep'
             PROVE  \/ /\ NoneIn(inbox', {"ALL_CARDS"}) /\ view'.cards = "new"
                       /\ revealed' = view'.revealed \cup Coming(inbox')
                    \/ DealtIn(inbox') /\ revealed' = Coming(inbox')
  BY DEF CardsTold
<1>1. /\ inbox \in Seq(Message) /\ inbox # <<>> /\ inbox' = Rest(inbox)
      /\ InStep /\ ViewCards(m) /\ revealed' = revealed
  BY DEF TypeInv, Reads, InStep, vars, Shown
<1>2. Coming(inbox) = Coming(inbox') \cup
                      (IF m.type = "CARD_UPDATE" THEN {m.card} ELSE {})
  BY <1>1, RestComing
<1>3. CASE /\ NoneIn(inbox, {"ALL_CARDS"}) /\ view.cards = "new"
           /\ revealed = view.revealed \cup Coming(inbox)
  <2>1. m.type # "ALL_CARDS" /\ NoneIn(inbox', {"ALL_CARDS"})
    BY <1>1, <1>3, RestNone
  <2>2. view'.cards = "new"
    BY <1>1, <1>3, <2>1 DEF ViewCards
  <2>3. view'.revealed = view.revealed \cup
                         (IF m.type = "CARD_UPDATE" THEN {m.card} ELSE {})
    BY <1>1, <1>3, <2>1 DEF ViewCards
  <2> QED
    BY <1>1, <1>2, <1>3, <2>1, <2>2, <2>3
<1>4. CASE DealtIn(inbox) /\ revealed = Coming(inbox)
  <2>1. CASE m.type = "ALL_CARDS" /\ NoneIn(inbox', {"ALL_CARDS"})
    <3>1. view'.cards = "new" /\ view'.revealed = {}
      BY <1>1, <2>1 DEF ViewCards
    <3> QED
      BY <1>1, <1>2, <1>4, <2>1, <3>1
  <2>2. CASE m.type \notin {"ALL_CARDS", "CARD_UPDATE"} /\ DealtIn(inbox')
    BY <1>1, <1>2, <1>4, <2>2
  <2> QED
    BY <1>1, <1>4, <2>1, <2>2, RestDealt
<1> QED
  BY <1>1, <1>3, <1>4 DEF CardsTold

LEMMA ReadKeepsSeat ==
    ASSUME TypeInv, SeatTold, Reads
    PROVE  SeatTold'
<1> DEFINE m == inbox[1]
<1> SUFFICES ASSUME InStep', seat'.known
             PROVE  \/ /\ NoneIn(inbox', SeatWord)
                       /\ view'.team = seat'.team /\ view'.leader = seat'.leader
                    \/ LastIn(inbox', SeatWord, SeatTrue')
  BY DEF SeatTold
<1>1. /\ inbox \in Seq(Message) /\ inbox # <<>> /\ inbox' = Rest(inbox)
      /\ InStep /\ ViewSeat(m) /\ seat' = seat /\ SeatTrue' = SeatTrue
      /\ seat.team \in Team
  BY ClientAssumption
  DEF TypeInv, JointTypeOK, Reads, InStep, vars, Shown, SeatTrue, Team
<1>2. CASE /\ NoneIn(inbox, SeatWord)
           /\ view.team = seat.team /\ view.leader = seat.leader
  <2>1. m.type \notin SeatWord /\ NoneIn(inbox', SeatWord)
    BY <1>1, <1>2, RestNone
  <2> QED
    BY <1>1, <1>2, <2>1 DEF ViewSeat, SeatWord
<1>3. CASE LastIn(inbox, SeatWord, SeatTrue)
  <2>1. \/ m \in SeatTrue /\ NoneIn(inbox', SeatWord)
        \/ LastIn(inbox', SeatWord, SeatTrue)
    BY <1>1, <1>3, RestLast
  <2>2. m \in SeatTrue => view'.team = seat'.team /\ view'.leader = seat'.leader
    BY <1>1 DEF SeatTrue, ViewSeat, Team
  <2> QED
    BY <1>1, <2>1, <2>2
<1> QED
  BY <1>1, <1>2, <1>3 DEF SeatTold

LEMMA ReadKeepsPhase ==
    ASSUME TypeInv, PhaseTold, Reads
    PROVE  PhaseTold'
<1> DEFINE m == inbox[1]
<1> SUFFICES ASSUME InStep', ~late', ~restarted'
             PROVE  \/ NoneIn(inbox', PhaseWord) /\ view'.phase = "PLAYING"
                    \/ LastIn(inbox', PhaseWord, PhaseTrue)
  BY DEF PhaseTold, PhaseTrue
<1>1. /\ inbox \in Seq(Message) /\ inbox # <<>> /\ inbox' = Rest(inbox)
      /\ InStep /\ ViewPhase(m) /\ ~late /\ ~restarted
  BY DEF TypeInv, Reads, InStep, vars, Shown
<1>2. CASE NoneIn(inbox, PhaseWord) /\ view.phase = "PLAYING"
  <2>1. m.type \notin PhaseWord /\ NoneIn(inbox', PhaseWord)
    BY <1>1, <1>2, RestNone
  <2> QED
    BY <1>1, <1>2, <2>1 DEF ViewPhase
<1>3. CASE LastIn(inbox, PhaseWord, PhaseTrue)
  <2>1. \/ m \in PhaseTrue /\ NoneIn(inbox', PhaseWord)
        \/ LastIn(inbox', PhaseWord, PhaseTrue)
    BY <1>1, <1>3, RestLast
  <2> QED
    BY <1>1, <2>1 DEF PhaseTrue, ViewPhase
<1> QED
  BY <1>1, <1>2, <1>3 DEF PhaseTold

\* A mode that is the automatic one, or asks for nothing, fits.
LEMMA AutoFits ==
    ASSUME mode' \in {Client!AutoMode(view'), "NONE", "CHAT"}
    PROVE  ModeFits'
BY AutoModes DEF ModeFits, Client!AutoMode

LEMMA ReadKeepsMode ==
    ASSUME TypeInv, ModeTold, Reads
    PROVE  ModeTold'
<1> DEFINE m == inbox[1]
<1> SUFFICES ASSUME InStep'
             PROVE  \/ NoneIn(inbox', ModeWord) /\ ModeFits'
                    \/ LastIn(inbox', ModeWord, ModeTrue)
  BY DEF ModeTold, ModeTrue
<1>1. /\ inbox \in Seq(Message) /\ inbox # <<>> /\ inbox' = Rest(inbox)
      /\ InStep /\ ViewMode(m) /\ ViewTurn(m) /\ ViewSeat(m)
      /\ UNCHANGED <<scene, entering>>
  BY DEF TypeInv, Reads, InStep, vars, Shown
<1>2. CASE NoneIn(inbox, ModeWord) /\ ModeFits
  <2>1. m.type \notin ModeWord /\ NoneIn(inbox', ModeWord)
    BY <1>1, <1>2, RestNone
  <2>2. Client!AutoMode(view') = Client!AutoMode(view)
    BY <1>1, <2>1 DEF ModeWord, ViewTurn, ViewSeat, Client!AutoMode
  <2>3. CASE mode' = mode
    BY <1>1, <1>2, <2>1, <2>2, <2>3 DEF ModeFits
  <2>4. CASE mode' \in {Client!AutoMode(view'), "NONE"}
    BY <2>1, <2>4, AutoFits
  <2> QED
    BY <1>1, <2>1, <2>3, <2>4 DEF ViewMode
<1>3. CASE LastIn(inbox, ModeWord, ModeTrue)
  <2>1. \/ m \in ModeTrue /\ NoneIn(inbox', ModeWord)
        \/ LastIn(inbox', ModeWord, ModeTrue)
    BY <1>1, <1>3, RestLast
  <2>2. m \in ModeTrue => ModeFits'
    BY <1>1, AutoFits DEF ModeTrue, ViewMode
  <2> QED
    BY <2>1, <2>2
<1> QED
  BY <1>1, <1>2, <1>3 DEF ModeTold

-----------------------------------------------------------------------------
(* The client's other steps.                                               *)

Typed == [type : {"QUERY_WAIT", "CHAT"}]
         \cup [type : {"HINT"}, number : {n \in ClueNumber \cup {0} : n > 0}]
         \cup [type : {"ANSWER"}, word : Word]

LEMMA TypedGrows ==
    ASSUME upstream \in Seq(Typed), NEW p \in Typed,
           Len(upstream) < MaxTyped, upstream' = Append(upstream, p)
    PROVE  upstream' \in Seq(Typed) /\ Len(upstream') <= MaxTyped
<1>1. /\ upstream' \in Seq(Typed) /\ Len(upstream') = Len(upstream) + 1
      /\ Len(upstream) \in Nat
  BY AppendProperties, LenProperties
<1>2. MaxTyped \in Nat
  BY ClientAssumption
<1> QED
  BY <1>1, <1>2

LEMMA TypedShrinks ==
    ASSUME upstream \in Seq(Typed), upstream # <<>>, Len(upstream) <= MaxTyped,
           upstream' = Tail(upstream)
    PROVE  upstream' \in Seq(Typed) /\ Len(upstream') <= MaxTyped
<1>1. /\ upstream' \in Seq(Typed) /\ Len(upstream') = Len(upstream) - 1
      /\ Len(upstream) \in Nat
  BY HeadTailProperties, LenProperties
<1>2. MaxTyped \in Nat
  BY ClientAssumption
<1> QED
  BY <1>1, <1>2

\* The client's own variables have their types.
ClientSide ==
    /\ upstream \in Seq(Typed) /\ Len(upstream) <= MaxTyped
    /\ view \in View /\ mode \in Client!Mode /\ scene \in Client!Scene
    /\ running \in BOOLEAN /\ entering \in BOOLEAN /\ staleEsc \in BOOLEAN
    /\ lost \in BOOLEAN /\ restarted \in BOOLEAN

LEMMA ClientSideTypes ==
    /\ TypeInv => ClientSide
    /\ ClientSide => Client!ClientTypeOK
<1>1. TypeInv => ClientSide
  BY DEF TypeInv, JointTypeOK, Client!ClientTypeOK, ClientSide, Typed
<1>2. ClientSide => Client!ClientTypeOK
  BY DEF Client!ClientTypeOK, ClientSide, Typed, View, Team
<1> QED
  BY <1>1, <1>2

LEMMA ClientSideNext ==
    ASSUME ClientSide'
    PROVE  Client!ClientTypeOK'
BY DEF Client!ClientTypeOK, ClientSide, Typed, View, Team

\* The screen stays as it was.
SameScreen ==
    /\ UNCHANGED <<inbox, lost, view>>
    /\ restarted => restarted'
    /\ ModeFits => ModeFits'
    /\ ClientSide'

\* Going to another scene.
LEMMA Leaving ==
    ASSUME ClientSide, NEW s \in Client!Scene, scene' = s, entering' = TRUE,
           UNCHANGED <<inbox, upstream, view, mode, running, lost>>,
           staleEsc' \in BOOLEAN, restarted' \in BOOLEAN, restarted => restarted'
    PROVE  SameScreen
<1>1. ModeFits'
  BY DEF ModeFits
<1> QED
  BY <1>1 DEF SameScreen, ClientSide

\* Keys, and what a scene does when it is entered.
LEMMA Staying ==
    ASSUME ClientSide, UNCHANGED <<inbox, view, lost, restarted, scene>>,
           upstream' \in Seq(Typed), Len(upstream') <= MaxTyped,
           running' \in BOOLEAN, entering' \in BOOLEAN, staleEsc' \in BOOLEAN,
           \/ mode' \in {Client!AutoMode(view), "NONE", "CHAT"}
           \/ mode' = mode /\ (entering' = entering \/ scene # "GAME")
           \/ mode = "HINT_WORD" /\ mode' = "HINT_COUNT" /\ entering' = entering
    PROVE  SameScreen
<1>1. ModeFits => ModeFits'
  <2>1. CASE mode' \in {Client!AutoMode(view), "NONE", "CHAT"}
    <3>1. mode' \in {Client!AutoMode(view'), "NONE", "CHAT"}
      BY <2>1 DEF Client!AutoMode
    <3> QED
      BY <3>1, AutoFits
  <2>2. CASE mode' = mode /\ (entering' = entering \/ scene # "GAME")
    BY <2>2 DEF ModeFits, Client!AutoMode
  <2>3. CASE mode = "HINT_WORD" /\ mode' = "HINT_COUNT" /\ entering' = entering
    BY <2>3 DEF ModeFits, Client!AutoMode
  <2> QED
    BY <2>1, <2>2, <2>3
<1>2. mode' \in Client!Mode
  BY AutoModes DEF ClientSide, Client!Mode
<1> QED
  BY <1>1, <1>2 DEF SameScreen, ClientSide

LEMMA KeysStay ==
    ASSUME TypeInv, Client!Key
    PROVE  SameScreen
<1>1. ClientSide
  BY ClientSideTypes
<1>2. CASE Client!EnterHintWord
  BY <1>1, <1>2, Staying DEF Client!EnterHintWord, ClientSide
<1>3. ASSUME NEW n \in ClueNumber \cup {0}, Client!EnterHintCount(n)
      PROVE  SameScreen
  <2>1. [type |-> "HINT", number |-> n] \in Typed
    BY <1>3 DEF Typed, Client!EnterHintCount
  <2>2. upstream' \in Seq(Typed) /\ Len(upstream') <= MaxTyped
    BY <1>1, <1>3, <2>1, TypedGrows
    DEF Client!EnterHintCount, Client!Type, ClientSide
  <2> QED
    BY <1>1, <1>3, <2>2, Staying DEF Client!EnterHintCount, ClientSide
<1>4. ASSUME NEW w \in Word, Client!EnterAnswer(w)
      PROVE  SameScreen
  <2>1. [type |-> "ANSWER", word |-> w] \in Typed
    BY DEF Typed
  <2>2. upstream' \in Seq(Typed) /\ Len(upstream') <= MaxTyped
    BY <1>1, <1>4, <2>1, TypedGrows
    DEF Client!EnterAnswer, Client!Type, ClientSide
  <2> QED
    BY <1>1, <1>4, <2>2, Staying DEF Client!EnterAnswer, ClientSide, Client!table
<1>5. CASE Client!EnterChat
  <2>1. [type |-> "CHAT"] \in Typed
    BY DEF Typed
  <2>2. upstream' \in Seq(Typed) /\ Len(upstream') <= MaxTyped
    BY <1>1, <1>5, <2>1, TypedGrows
    DEF Client!EnterChat, Client!Type, ClientSide
  <2> QED
    BY <1>1, <1>5, <2>2, Staying DEF Client!EnterChat, ClientSide, Client!table
<1>6. CASE Client!Tab
  BY <1>1, <1>6, Staying DEF Client!Tab, ClientSide
<1>7. CASE Client!Escape
  BY <1>1, <1>7, Staying
  DEF Client!Escape, Client!EscapeHandled, ClientSide
<1> QED
  BY <1>2, <1>3, <1>4, <1>5, <1>6, <1>7 DEF Client!Key

LEMMA ScenesStay ==
    ASSUME TypeInv,
           \/ Client!MatchFound \/ Client!EnterGame \/ Client!EnterMatching
           \/ Client!EnterOther \/ Client!StaleEscape \/ Client!LeaveMatching
           \/ Client!LeaveGame \/ Client!LeaveResult \/ Client!Quit
    PROVE  SameScreen
<1>1. ClientSide
  BY ClientSideTypes
<1>2. CASE Client!MatchFound \/ Client!LeaveMatching \/ Client!LeaveResult
  BY <1>1, <1>2, Leaving
  DEF Client!MatchFound, Client!LeaveMatching, Client!LeaveResult, Client!Goto,
      Client!table, ClientSide, Client!Scene
<1>3. CASE Client!LeaveGame
  BY <1>1, <1>3, Leaving
  DEF Client!LeaveGame, Client!Goto, Client!table, ClientSide, Client!Scene
<1>4. CASE Client!EnterGame
  BY <1>1, <1>4, Staying DEF Client!EnterGame, ClientSide
<1>5. CASE Client!EnterMatching
  <2>1. [type |-> "QUERY_WAIT"] \in Typed
    BY DEF Typed
  <2>2. upstream' \in Seq(Typed) /\ Len(upstream') <= MaxTyped
    BY <1>1, <1>5, <2>1, TypedGrows DEF Client!EnterMatching, ClientSide
  <2> QED
    BY <1>1, <1>5, <2>2, Staying DEF Client!EnterMatching, ClientSide, Client!table
<1>6. CASE Client!EnterOther
  BY <1>1, <1>6, Staying DEF Client!EnterOther, ClientSide, Client!table
<1>7. CASE Client!StaleEscape
  BY <1>1, <1>7, Staying
  DEF Client!StaleEscape, Client!EscapeHandled, ClientSide
<1>8. CASE Client!Quit
  <2>1. scene' = "EXIT" /\ UNCHANGED <<inbox, upstream, view, mode, running,
                                       entering, staleEsc, lost, restarted>>
    BY <1>8 DEF Client!Quit, Client!table
  <2>2. ModeFits'
    BY <2>1 DEF ModeFits
  <2>3. ClientSide'
    BY <1>1, <2>1 DEF ClientSide, Client!Scene
  <2> QED
    BY <2>1, <2>2, <2>3 DEF SameScreen
<1> QED
  BY <1>2, <1>3, <1>4, <1>5, <1>6, <1>7, <1>8

LEMMA MatchesAnew ==
    ASSUME TypeInv, Client!StartMatching
    PROVE  /\ UNCHANGED <<inbox, lost>> /\ restarted'
           /\ view' = [view EXCEPT !.phase = "MATCHING"]
           /\ ModeFits' /\ ClientSide'
<1>1. ClientSide
  BY ClientSideTypes
<1>2. /\ UNCHANGED <<inbox, upstream, staleEsc, lost, running>>
      /\ restarted' = TRUE /\ scene' = "MATCHING" /\ entering' = TRUE
      /\ view' = [view EXCEPT !.phase = "MATCHING"]
      /\ mode' = mode \/ mode' = "NONE"
  BY DEF Client!StartMatching, Client!SetPhase, Client!Goto
<1>3. view' \in View
  BY <1>1, <1>2 DEF ClientSide, View, Client!GamePhase
<1>4. ModeFits'
  BY <1>2 DEF ModeFits
<1> QED
  BY <1>1, <1>2, <1>3, <1>4 DEF ClientSide, Client!Scene, Client!Mode

-----------------------------------------------------------------------------
(* All invariants are inductive.                                           *)

JointInv == TypeInv /\ OpenOnly /\ ToldInv

LEMMA JointInitInv ==
    ASSUME JointInit
    PROVE  JointInv
<1>1. /\ key = NoBoard /\ revealed = {} /\ turn = "RED" /\ guesses = 0
      /\ result = "setup" /\ inbox = <<>> /\ upstream = <<>>
      /\ mode = "NONE" /\ running = FALSE /\ scene = "MATCHING" /\ entering = FALSE
      /\ staleEsc \in BOOLEAN /\ lost = FALSE /\ restarted = FALSE
      /\ seat \in Watched /\ notices = 0 /\ late = FALSE
      /\ view \in {Client!FirstGame, Client!Leftover}
  BY DEF JointInit, Init, Client!ClientInit
<1>2. /\ MaxInFlight \in Nat /\ MaxTyped \in Nat /\ MaxNotices \in Nat
      /\ 0 \in 0 .. MaxNotices
  BY ClientAssumption
<1>3. view \in View
  <2>1. Client!FirstGame \in View
    BY DEF Client!FirstGame, View, Client!GamePhase, Team
  <2>2. Client!Leftover \in View
    BY DEF Client!Leftover, View, Client!GamePhase, Team
  <2> QED
    BY <1>1, <2>1, <2>2
<1>4. /\ <<>> \in Seq(Message) /\ <<>> \in Seq(Typed) /\ Len(<<>>) = 0
  OBVIOUS
<1>5. ClientSide
  <2>1. upstream \in Seq(Typed) /\ Len(upstream) <= MaxTyped
    BY <1>1, <1>2, <1>4
  <2>2. mode \in Client!Mode /\ scene \in Client!Scene
    BY <1>1 DEF Client!Mode, Client!Scene
  <2>3. running \in BOOLEAN /\ entering \in BOOLEAN /\ lost \in BOOLEAN
        /\ restarted \in BOOLEAN
    BY <1>1
  <2> QED
    BY <1>1, <1>3, <2>1, <2>2, <2>3 DEF ClientSide
<1>6. \A T : NoneIn(inbox, T)
  BY <1>1 DEF NoneIn
<1>7. IsFiniteSet(revealed)
  BY <1>1, FS_EmptySet
<1>8. RoomTyped
  BY <1>1, <1>6, <1>7 DEF RoomTyped, Team
<1>9. JointTypeOK
  <2>1. Client!ClientTypeOK
    BY <1>5, ClientSideTypes
  <2>2. Len(inbox) <= MaxInFlight
    <3>1. Len(inbox) = 0
      BY <1>1, <1>4
    <3> QED
      BY <1>2, <3>1
  <2>3. late \in BOOLEAN
    BY <1>1
  <2>4. notices \in 0 .. MaxNotices
    BY <1>1, <1>2
  <2> QED
    BY <1>1, <2>1, <2>2, <2>3, <2>4 DEF JointTypeOK
<1>10. Coming(inbox) = {}
  BY <1>6, NothingComing
<1>11. view.cards = "new" => view.revealed = {}
  BY <1>1 DEF Client!FirstGame, Client!Leftover
<1>12. OpenOnly
  BY <1>1, <1>10, <1>11 DEF OpenOnly
<1>13. ToldInv
  BY <1>1 DEF ToldInv, TurnTold, TriesTold, CardsTold, SeatTold, PhaseTold,
              ModeTold, InStep
<1> QED
  BY <1>1, <1>3, <1>4, <1>8, <1>9, <1>12, <1>13 DEF JointInv, TypeInv

LEMMA PostKeepsTold ==
    ASSUME JointInv, NEW r, Post(r), late => late',
           UNCHANGED <<seat, view, mode, scene, entering, lost, restarted>>
    PROVE  OpenOnly' /\ ToldInv'
<1>1. TurnTold' /\ TriesTold' /\ CardsTold'
  BY PostKeepsTurn, PostKeepsTries, PostKeepsCards DEF JointInv, ToldInv
<1>2. SeatTold' /\ PhaseTold' /\ ModeTold'
  BY PostKeepsSeat, PostKeepsPhase, PostKeepsMode DEF JointInv, ToldInv
<1>3. OpenOnly'
  BY PostKeepsOpen DEF JointInv
<1> QED
  BY <1>1, <1>2, <1>3 DEF ToldInv

LEMMA RoomStepKeeps ==
    ASSUME JointInv, RoomStep \/ NoticeStep
    PROVE  JointInv'
<1>1. TypeInv /\ ClientSide
  BY ClientSideTypes DEF JointInv
<1>2. PICK r : Post(r)
  BY <1>1, RoomStepPosts, NoticeStepPosts
<1>3. /\ UNCHANGED <<seat, view, mode, running, scene, entering, staleEsc, lost,
                     restarted>>
      /\ upstream' = upstream \/ (upstream # <<>> /\ upstream' = Tail(upstream))
  BY DEF RoomStep, NoticeStep, OthersMove, ReadPacket
<1>4. /\ seat \in Watched /\ notices \in 0 .. MaxNotices /\ late \in BOOLEAN
      /\ MaxNotices \in Nat
  BY <1>1, ClientAssumption DEF TypeInv, JointTypeOK
<1>5. (late => late') /\ late' \in BOOLEAN /\ notices' \in 0 .. MaxNotices
  <2>1. CASE RoomStep
    BY <1>4, <2>1 DEF RoomStep, OthersMove, ReadPacket
  <2>2. CASE NoticeStep
    <3>1. /\ notices < MaxNotices /\ notices' = notices + 1
          /\ late' = (late \/ result # "setup")
      BY <2>2 DEF NoticeStep, MatchNotice
    <3>2. notices' \in 0 .. MaxNotices
      BY <1>4, <3>1
    <3>3. (late => late') /\ late' \in BOOLEAN
      BY <3>1
    <3> QED
      BY <3>2, <3>3
  <2> QED
    BY <2>1, <2>2
<1>6. upstream' \in Seq(Typed) /\ Len(upstream') <= MaxTyped
  BY <1>1, <1>3, TypedShrinks DEF ClientSide
<1>7. ClientSide'
  BY <1>1, <1>3, <1>6 DEF ClientSide
<1>8. RoomTyped' /\ inbox' \in Seq(Message) /\ Len(inbox') <= MaxInFlight
  BY <1>1, <1>2, PostKeepsRoom
<1>9. JointTypeOK'
  <2>1. Client!ClientTypeOK'
    BY <1>7, ClientSideNext
  <2> QED
    BY <1>3, <1>4, <1>5, <1>8, <2>1 DEF JointTypeOK
<1>10. TypeInv'
  BY <1>7, <1>8, <1>9 DEF TypeInv, ClientSide
<1>11. OpenOnly' /\ ToldInv'
  BY <1>2, <1>3, <1>5, PostKeepsTold
<1> QED
  BY <1>10, <1>11 DEF JointInv

\* What is left to show of a step of the client alone.
LEMMA AloneTypes ==
    ASSUME TypeInv, ClientAlone, ClientSide', inbox' \in Seq(Message),
           Len(inbox') <= MaxInFlight,
           NoneIn(inbox, {"ALL_CARDS", "CARD_UPDATE"}) =>
              NoneIn(inbox', {"ALL_CARDS", "CARD_UPDATE"})
    PROVE  TypeInv'
<1>1. UNCHANGED <<key, revealed, turn, guesses, result, seat, notices, late>>
  BY DEF ClientAlone, vars
<1>2. RoomTyped'
  BY <1>1 DEF TypeInv, RoomTyped
<1>3. JointTypeOK'
  <2>1. Client!ClientTypeOK'
    BY ClientSideNext
  <2> QED
    BY <1>1, <2>1 DEF TypeInv, JointTypeOK
<1> QED
  BY <1>2, <1>3 DEF TypeInv, ClientSide

LEMMA UnreadKeeps ==
    ASSUME JointInv, ClientAlone, UNCHANGED <<inbox, lost>>, ClientSide',
           view' = view \/ (restarted' /\ view' = [view EXCEPT !.phase = "MATCHING"]),
           restarted => restarted', ModeFits => ModeFits'
    PROVE  JointInv'
<1>1. /\ UNCHANGED <<key, revealed, turn, guesses, result, seat, notices, late>>
      /\ inbox' = inbox /\ lost' = lost
      /\ inbox \in Seq(Message) /\ Len(inbox) <= MaxInFlight /\ view \in View
  BY DEF ClientAlone, vars, JointInv, TypeInv, JointTypeOK
<1>2. TypeInv'
  BY <1>1, AloneTypes DEF JointInv
<1>3. /\ view'.team = view.team /\ view'.leader = view.leader
      /\ view'.cards = view.cards /\ view'.revealed = view.revealed
      /\ view'.turn = view.turn /\ view'.step = view.step
      /\ view'.tries = view.tries /\ view'.red = view.red /\ view'.blue = view.blue
      /\ restarted' \/ view'.phase = view.phase
  BY <1>1 DEF View
<1>4. /\ Score("RED")' = Score("RED") /\ Score("BLUE")' = Score("BLUE")
      /\ Step' = Step /\ InStep' = InStep
  BY <1>1 DEF Score, Step, InStep
<1>5. OpenOnly'
  BY <1>1, <1>3 DEF JointInv, OpenOnly
<1>6. TurnTold'
  <2>1. TurnTrue' = TurnTrue /\ (TurnSeen => TurnSeen')
    BY <1>1, <1>3, <1>4 DEF TurnTrue, TurnSeen
  <2> QED
    BY <1>1, <1>4, <2>1 DEF JointInv, ToldInv, TurnTold
<1>7. TriesTold'
  <2>1. TriesTrue' = TriesTrue
    BY <1>1 DEF TriesTrue
  <2> QED
    BY <1>1, <1>3, <1>4, <2>1 DEF JointInv, ToldInv, TriesTold
<1>8. CardsTold'
  BY <1>1, <1>3, <1>4 DEF JointInv, ToldInv, CardsTold
<1>9. SeatTold'
  <2>1. SeatTrue' = SeatTrue
    BY <1>1 DEF SeatTrue
  <2> QED
    BY <1>1, <1>3, <1>4, <2>1 DEF JointInv, ToldInv, SeatTold
<1>10. PhaseTold'
  BY <1>1, <1>3, <1>4 DEF JointInv, ToldInv, PhaseTold, PhaseTrue
<1>11. ModeTold'
  BY <1>1, <1>4 DEF JointInv, ToldInv, ModeTold, ModeTrue
<1> QED
  BY <1>2, <1>5, <1>6, <1>7, <1>8, <1>9, <1>10, <1>11 DEF JointInv, ToldInv

LEMMA ReadingKeeps ==
    ASSUME JointInv, ClientAlone, NEW n \in 1 .. MaxTogether, Client!ProcessPacket(n)
    PROVE  JointInv'
<1>1. n \in Nat \ {0}
  OBVIOUS
<1>2. TypeInv /\ ClientSide
  BY ClientSideTypes DEF JointInv
<1>3. /\ inbox # <<>> /\ inbox[1] \in Message
      /\ inbox' \in Seq(Message) /\ Len(inbox') <= MaxInFlight
      /\ \A T : NoneIn(inbox, T) => NoneIn(inbox', T)
      /\ Coming(inbox') \subseteq Coming(inbox)
      /\ Shown(inbox[1]) \/ UNCHANGED <<view, mode, running>>
      /\ lost' \in BOOLEAN
      /\ ~lost' => ~lost /\ inbox' = Rest(inbox) /\ Shown(inbox[1])
      /\ UNCHANGED <<upstream, scene, entering, staleEsc, restarted>>
  BY <1>1, <1>2, Reading
<1>4. UNCHANGED <<key, revealed, turn, guesses, result, seat, notices, late>>
  BY DEF ClientAlone, vars
<1>5. ClientSide'
  BY <1>2, <1>3 DEF ClientSide, Shown
<1>6. TypeInv'
  BY <1>2, <1>3, <1>5, AloneTypes
<1>7. OpenOnly'
  <2>1. Coming(inbox) \subseteq revealed /\ (view.cards = "new" => view.revealed \subseteq revealed)
    BY DEF JointInv, OpenOnly
  <2>2. CASE UNCHANGED <<view, mode, running>>
    BY <1>3, <1>4, <2>1, <2>2 DEF OpenOnly
  <2>3. CASE Shown(inbox[1])
    <3>1. inbox[1].type = "CARD_UPDATE" => inbox[1].card \in revealed
      BY <1>2, <1>3, <2>1, RestComing DEF TypeInv
    <3>2. view'.cards = "new" => view'.revealed \subseteq revealed
      BY <2>1, <2>3, <3>1 DEF Shown, ViewCards
    <3> QED
      BY <1>3, <1>4, <2>1, <3>2 DEF OpenOnly
  <2> QED
    BY <1>3, <2>2, <2>3
<1>8. CASE lost'
  BY <1>6, <1>7, <1>8
  DEF JointInv, ToldInv, TurnTold, TriesTold, CardsTold, SeatTold, PhaseTold,
      ModeTold, InStep
<1>9. CASE ~lost'
  <2>1. Reads
    BY <1>3, <1>4, <1>9 DEF Reads, vars
  <2>2. TurnTold' /\ TriesTold' /\ CardsTold'
    BY <1>2, <2>1, ReadKeepsTurn, ReadKeepsTries, ReadKeepsCards DEF JointInv, ToldInv
  <2>3. SeatTold' /\ PhaseTold' /\ ModeTold'
    BY <1>2, <2>1, ReadKeepsSeat, ReadKeepsPhase, ReadKeepsMode DEF JointInv, ToldInv
  <2> QED
    BY <1>6, <1>7, <2>2, <2>3 DEF JointInv, ToldInv
<1> QED
  BY <1>8, <1>9

LEMMA JointStepKeeps ==
    ASSUME JointInv, [JointNext]_all
    PROVE  JointInv'
<1>1. TypeInv
  BY DEF JointInv
<1>2. CASE RoomStep \/ NoticeStep
  BY <1>2, RoomStepKeeps
<1>3. CASE Client!ClientNext /\ ClientAlone
  <2>1. CASE \E n \in 1 .. MaxTogether : Client!ProcessPacket(n)
    BY <1>3, <2>1, ReadingKeeps
  <2>2. CASE Client!StartMatching
    BY <1>1, <1>3, <2>2, MatchesAnew, UnreadKeeps
  <2>3. ASSUME SameScreen PROVE JointInv'
    BY <1>3, <2>3, UnreadKeeps DEF SameScreen
  <2>4. CASE Client!Key
    BY <1>1, <2>3, <2>4, KeysStay
  <2>5. CASE \/ Client!MatchFound \/ Client!EnterGame \/ Client!EnterMatching
             \/ Client!EnterOther \/ Client!StaleEscape \/ Client!LeaveMatching
             \/ Client!LeaveGame \/ Client!LeaveResult \/ Client!Quit
    BY <1>1, <2>3, <2>5, ScenesStay
  <2> QED
    BY <1>3, <2>1, <2>2, <2>4, <2>5 DEF Client!ClientNext, Client!Loop
<1>4. CASE UNCHANGED all
  <2>1. /\ ClientAlone /\ UNCHANGED <<inbox, lost, view, restarted>>
        /\ ClientSide' /\ (ModeFits => ModeFits')
    <3>1. UNCHANGED <<vars, seat, notices, late, inbox, upstream, view, mode,
                      running, scene, entering, staleEsc, lost, restarted>>
      BY <1>4 DEF all, Client!clientVars, Client!table
    <3>2. ClientSide' /\ (ModeFits => ModeFits')
      BY <1>1, <3>1, ClientSideTypes DEF ClientSide, ModeFits, Client!AutoMode
    <3> QED
      BY <3>1, <3>2 DEF ClientAlone
  <2> QED
    BY <2>1, UnreadKeeps
<1> QED
  BY <1>2, <1>3, <1>4 DEF JointNext

LEMMA JointInvHolds == JointSpec => []JointInv
<1>1. JointInit => JointInv
  BY JointInitInv
<1>2. JointInv /\ [JointNext]_all => JointInv'
  BY JointStepKeeps
<1> QED
  BY <1>1, <1>2, PTL DEF JointSpec

-----------------------------------------------------------------------------
(* The theorems.                                                           *)

\* The room, the stream in both directions and the client's fields hold
\* values of their types, and the stream keeps to its bound.
THEOREM JointTypeCorrect == JointSpec => []JointTypeOK
<1>1. JointInv => JointTypeOK
  BY DEF JointInv, TypeInv
<1> QED
  BY <1>1, JointInvHolds, PTL

\* A card of this game that the client shows face up is open in the room,
\* whatever one receive may swallow.
THEOREM ShownCardsAreOpen == JointSpec => []NothingShownTooEarly
<1>1. JointInv => NothingShownTooEarly
  BY DEF JointInv, OpenOnly, NothingShownTooEarly
<1> QED
  BY <1>1, JointInvHolds, PTL

\* Nothing is on the way to a client that is up to date.
LEMMA NothingOnTheWay ==
    ASSUME UpToDate
    PROVE  /\ InStep /\ Coming(inbox) = {} /\ ~DealtIn(inbox)
           /\ \A T, S : ~LastIn(inbox, T, S)
<1>1. InStep /\ inbox = <<>>
  BY DEF UpToDate, InStep
<1>2. DOMAIN inbox = {}
  BY <1>1
<1> QED
  BY <1>1, <1>2 DEF Coming, Uncovering, DealtIn, LastIn

\* A client that has read everything shows the cards, the turn, the phase,
\* the guesses and the score as the room has them.
THEOREM ScreenIsTrue == JointSpec => []ScreenShowsRoom
<1>1. ASSUME JointInv, UpToDate
      PROVE  /\ view.cards = "new" /\ view.revealed = revealed
             /\ view.turn = turn
             /\ view.step = IF guesses = 0 THEN "HINT_PHASE" ELSE "GUESS_PHASE"
             /\ IF guesses > 0 THEN view.tries = guesses
                ELSE view.red = Score("RED") /\ view.blue = Score("BLUE")
  <2>1. /\ InStep /\ Coming(inbox) = {} /\ ~DealtIn(inbox)
        /\ \A T, S : ~LastIn(inbox, T, S)
    BY <1>1, NothingOnTheWay
  <2>2. view.cards = "new" /\ view.revealed = revealed
    BY <1>1, <2>1 DEF JointInv, ToldInv, CardsTold
  <2>3. TurnSeen
    BY <1>1, <2>1 DEF JointInv, ToldInv, TurnTold
  <2>4. guesses > 0 => view.tries = guesses
    BY <1>1, <2>1 DEF JointInv, ToldInv, TriesTold
  <2>5. guesses \in Nat
    BY <1>1 DEF JointInv, TypeInv, RoomTyped
  <2> QED
    BY <2>2, <2>3, <2>4, <2>5 DEF TurnSeen, Step
<1>2. JointInv => ScreenShowsRoom
  BY <1>1 DEF ScreenShowsRoom
<1> QED
  BY <1>2, JointInvHolds, PTL

\* A client that is up to date and knows its seat asks its player for a hint
\* or an answer exactly when the room takes one from him.
THEOREM PromptIsTrue == JointSpec => []PromptMatchesRoom
<1>1. ASSUME JointInv, UpToDate, seat.known
      PROVE  /\ Client!AutoMode(view) = IF CanHint THEN "HINT_WORD"
                                        ELSE IF CanAnswer THEN "ANSWER" ELSE "NONE"
             /\ scene = "GAME" /\ ~entering =>
                   /\ mode \in {"HINT_WORD", "HINT_COUNT"} => CanHint
                   /\ mode = "ANSWER" => CanAnswer
  <2>1. InStep /\ \A T, S : ~LastIn(inbox, T, S)
    BY <1>1, NothingOnTheWay
  <2>2. TurnSeen
    BY <1>1, <2>1 DEF JointInv, ToldInv, TurnTold
  <2>3. view.team = seat.team /\ view.leader = seat.leader
    BY <1>1, <2>1 DEF JointInv, ToldInv, SeatTold
  <2>4. ModeFits
    BY <1>1, <2>1 DEF JointInv, ToldInv, ModeTold
  <2>5. /\ guesses \in Nat /\ seat.leader \in BOOLEAN
    BY <1>1, ClientAssumption DEF JointInv, TypeInv, RoomTyped, JointTypeOK
  <2>6. result = "playing"
    BY <2>1 DEF InStep
  <2>7. Client!AutoMode(view) = IF CanHint THEN "HINT_WORD"
                                ELSE IF CanAnswer THEN "ANSWER" ELSE "NONE"
    BY <2>2, <2>3, <2>5, <2>6
    DEF Client!AutoMode, TurnSeen, Step, CanHint, CanAnswer, MyTurn
  <2> QED
    BY <2>4, <2>7 DEF ModeFits
<1>2. JointInv => PromptMatchesRoom
  BY <1>1 DEF PromptMatchesRoom
<1> QED
  BY <1>2, JointInvHolds, PTL

\* Once all is read, only a matching message behind GAME_START, or the player
\* himself, has taken the client off the phase PLAYING of a running game.
THEOREM StartIsShown == JointSpec => []StartedGameIsShown
<1>1. ASSUME JointInv, UpToDate, ~late, ~restarted
      PROVE  view.phase = "PLAYING"
  <2>1. InStep /\ \A T, S : ~LastIn(inbox, T, S)
    BY <1>1, NothingOnTheWay
  <2> QED
    BY <1>1, <2>1 DEF JointInv, ToldInv, PhaseTold
<1>2. JointInv => StartedGameIsShown
  BY <1>1 DEF StartedGameIsShown
<1> QED
  BY <1>2, JointInvHolds, PTL

\* What the room does here is what the rules allow: its part of every
\* behaviour is one of CodenamesRules, which GameRoom implements too.
THEOREM JointRoomKeepsRules == JointSpec => Spec
<1>1. JointInit => Init
  BY DEF JointInit
<1>2. [JointNext]_all => [Next]_vars
  <2> SUFFICES ASSUME [JointNext]_all PROVE [Next]_vars
    OBVIOUS
  <2>1. ASSUME NEW c \in Card, GuessAndTell(c) PROVE Next
    BY <2>1 DEF GuessAndTell, Next
  <2>2. CASE OthersMove
    BY <2>1, <2>2 DEF OthersMove, DealAndTell, AbortAndTell, ClueAndTell, Next
  <2>3. CASE ReadPacket
    BY <2>1, <2>3
    DEF ReadPacket, HintTaken, ClueAndTell, AnswerTaken, Candidates, AnswerInvalid,
        ChatTaken, Refused, Next
  <2>4. CASE NoticeStep
    BY <2>4 DEF NoticeStep, MatchNotice
  <2>5. CASE Client!ClientNext /\ ClientAlone
    BY <2>5 DEF ClientAlone
  <2>6. CASE UNCHANGED all
    BY <2>6 DEF all
  <2> QED
    BY <2>2, <2>3, <2>4, <2>5, <2>6 DEF JointNext, RoomStep
<1> QED
  BY <1>1, <1>2, PTL DEF JointSpec, Spec

\* A matching message behind GAME_START is the only thing that leaves the
\* player in the matching screen of a game that has started.
THEOREM OnlyLateNoticesMislead == JointSpec => [](~late => WaitingEndsWithStart)
<1>1. StartedGameIsShown => (~late => WaitingEndsWithStart)
  BY DEF StartedGameIsShown, WaitingEndsWithStart
<1> QED
  BY <1>1, StartIsShown, PTL
=============================================================================
