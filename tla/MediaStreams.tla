---------------------------- MODULE MediaStreams ----------------------------
(***************************************************************************)
(* What goes through a media room: producers, consumers, and whether the   *)
(* seller has agreed to be seen (ProducerConsumerService, the handlers      *)
(* produce, consume, stop-prev-producer, seller-agreed and                  *)
(* seller-disagreed-camera).                                               *)
(*                                                                         *)
(* It is composed with MediaRoom: each step of a room is taken with what it *)
(* does to the streams.  A client learns of a producer, and of the seller's *)
(* agreement, from the answer to its join or from a message to the          *)
(* socket.io room, which it enters in the turn of that answer.              *)
(* connect-transport and resume-consumer only pass a call on to mediasoup.  *)
(* A producer that stop closes stays in the map of its peer and in later    *)
(* answers, but canConsume refuses it: closed producers are left out.       *)
(***************************************************************************)
EXTENDS MediaRoom

CONSTANT MaxObjects   \* BOUND on the rooms and the producers made

ASSUME StreamBounds == MaxObjects \in Nat

Producers == 1..MaxObjects

VARIABLES
    sockets,     \* the clients in the socket.io room of the id
    agreed,      \* room |-> isSellerAgreed
    declined,    \* HISTORY: the rooms whose seller agreed and refuses its camera since
    told,        \* client |-> the isAgreed it was told last
    opened,      \* how many producers were made
    producers,   \* room |-> client |-> the open producers of its peer
    parted,      \* the clients whose peer left while they waited for a producer
    known,       \* client |-> the open producers it was told of
    consuming,   \* client |-> the producer it waits for a consumer of
    consumers,   \* room |-> client |-> what the consumers of its peer consume
    passed,      \* HISTORY: the producers of a seller another one took the place of
    excused      \* HISTORY: client |-> what it asked to consume, or did, when its
                 \* producer was closed by a stop or by the seller leaving

streamVars == <<sockets, agreed, declined, told, opened, producers, parted, known,
                consuming, consumers, passed, excused>>

Nothing == [room |-> NoRoom, producer |-> 0]

\* The bound is not reached.
MoreObjects == made + opened < MaxObjects

StreamInit ==
    /\ MediaInit
    /\ sockets = {}
    /\ agreed = [r \in Rooms |-> FALSE]
    /\ declined = {}
    /\ told = [c \in Clients |-> FALSE]
    /\ opened = 0
    /\ producers = [r \in Rooms |-> [c \in Clients |-> {}]]
    /\ parted = {}
    /\ known = [c \in Clients |-> {}]
    /\ consuming = [c \in Clients |-> Nothing]
    /\ consumers = [r \in Rooms |-> [c \in Clients |-> {}]]
    /\ passed = {}
    /\ excused = [c \in Clients |-> {}]

-----------------------------------------------------------------------------
(* Joining and leaving *)

\* Mutant: the answer does not hold what was there before.
NoneCollected(c) == {}

\* existingProducers: those of the seller of the join's own room.
Collected(c) ==
    LET r == client[c].held
    IN  IF seller[r] = NoClient THEN {} ELSE producers[r][seller[r]]

\* The last turn of a join: the socket enters the room, then the answer is made.
StreamJoin(c) ==
    /\ RecvReady(c)
    /\ sockets' = sockets \cup {c}
    /\ IF client'[c].stage = "joined"
         THEN /\ known' = [known EXCEPT ![c] = Collected(c)]
              /\ told' = [told EXCEPT ![c] = agreed[client[c].held]]
         ELSE UNCHANGED <<known, told>>
    /\ UNCHANGED <<agreed, declined, opened, producers, parted, consuming, consumers,
                   passed, excused>>

\* closePeerResource: the peer goes with its producers and consumers.  A client that
\* has left forgets what it was told.
StreamLeave(c) ==
    LET closed == producers[room][c]
        Using(d) == consumers[room][d] \cup {consuming[d].producer} IN
    /\ LeaveRoom(c)
    /\ sockets' = sockets \ {c}
    /\ producers' = [producers EXCEPT ![room][c] = {}]
    /\ passed' = passed \ closed
    /\ consumers' = [consumers EXCEPT ![room][c] = {}]
    /\ parted' = IF producing[c] = room THEN parted \cup {c} ELSE parted
    /\ consuming' = IF consuming[c].room = room THEN [consuming EXCEPT ![c] = Nothing]
                    ELSE consuming
    /\ known' = [d \in Clients |-> IF d = c THEN {} ELSE known[d] \ closed]
    /\ told' = [told EXCEPT ![c] = FALSE]
    /\ excused' = [d \in Clients |-> IF d = c THEN {} ELSE excused[d] \cup (closed \cap Using(d))]
    /\ UNCHANGED <<agreed, declined, opened>>

-----------------------------------------------------------------------------
(* Producing *)

StreamProduce(c) ==
    /\ Produce(c) /\ MoreObjects
    /\ parted' = parted \ {c}
    /\ UNCHANGED <<sockets, agreed, declined, told, opened, producers, known, consuming,
                   consumers, passed, excused>>

\* The seller of room r whose place client c takes.
Displaced(c, r) == IF seller[r] \in {NoClient, c} THEN {} ELSE producers[r][seller[r]]

\* createProducer after its await, and new-producer to the others.  The producer of a
\* peer that has left is closed and out of reach.
StreamReady(c) ==
    LET r == producing[c]
        p == opened + 1 IN
    /\ ProducerReady(c) /\ MoreObjects
    /\ opened' = p
    /\ IF c \in parted THEN UNCHANGED <<producers, known>>
       ELSE /\ producers' = [producers EXCEPT ![r][c] = @ \cup {p}]
            /\ known' = [d \in Clients |->
                            IF d \in sockets \ {c} THEN known[d] \cup {p} ELSE known[d]]
    /\ passed' = passed \cup Displaced(c, r)
    /\ UNCHANGED <<sockets, agreed, declined, told, parted, consuming, consumers, excused>>

\* Mutant: only the seller's own consumers are closed.
OwnConsumersClosed == [consumers EXCEPT ![room][seller[room]] = {}]

\* closePrevConsumers
ConsumersClosed == [consumers EXCEPT ![room] = [c \in Clients |-> {}]]

\* stopSellerPeer: the producers of the seller and all consumers are closed.
StreamStop ==
    LET stopped == producers[room][seller[room]] IN
    /\ StopPrevProducer
    /\ producers' = [producers EXCEPT ![room][seller[room]] = {}]
    /\ known' = [d \in Clients |-> known[d] \ stopped]
    /\ passed' = passed \ stopped
    /\ consumers' = ConsumersClosed
    /\ excused' = [d \in Clients |-> (excused[d] \cup stopped) \cap {consuming[d].producer}]
    /\ UNCHANGED <<sockets, agreed, declined, told, opened, parted, consuming>>

-----------------------------------------------------------------------------
(* Consuming *)

\* createConsumer up to its await; canConsume: a producer of this room, and not
\* closed.  BOUND: a client waits for one consumer at a time.
Consume(c, p) ==
    /\ client[c].stage = "joined" /\ consuming[c] = Nothing /\ p \in known[c]
    /\ room # NoRoom /\ c \in peers[room] /\ "recv" \in transports[room][c]
    /\ \E d \in Clients : p \in producers[room][d]
    /\ consuming' = [consuming EXCEPT ![c] = [producer |-> p, room |-> room]]
    /\ UNCHANGED <<mediaVars, sockets, agreed, declined, told, opened, producers, parted,
                   known, consumers, passed, excused>>

\* createConsumer after it: the peer, which is still there, has a consumer, though its
\* producer may be closed by now.
ConsumerReady(c) ==
    /\ consuming[c] # Nothing
    /\ consumers' = [consumers EXCEPT ![consuming[c].room][c] = @ \cup {consuming[c].producer}]
    /\ consuming' = [consuming EXCEPT ![c] = Nothing]
    /\ UNCHANGED <<mediaVars, sockets, agreed, declined, told, opened, producers, parted,
                   known, passed, excused>>

\* mediasoup refuses the consumer, for one because its producer is closed.
ConsumerRefused(c) ==
    /\ consuming[c] # Nothing
    /\ consuming' = [consuming EXCEPT ![c] = Nothing]
    /\ UNCHANGED <<mediaVars, sockets, agreed, declined, told, opened, producers, parted,
                   known, consumers, passed, excused>>

-----------------------------------------------------------------------------
(* Agreeing *)

\* server.to(roomId)
TellAll(answer) == [c \in Clients |-> IF c \in sockets THEN answer ELSE told[c]]

\* seller-agreed, from whomever.
SellerAgreed(answer) ==
    /\ room # NoRoom
    /\ agreed' = [agreed EXCEPT ![room] = answer]
    /\ declined' = declined \ {room}
    /\ told' = TellAll(answer)
    /\ UNCHANGED <<mediaVars, sockets, opened, producers, parted, known, consuming,
                   consumers, passed, excused>>

\* seller-disagreed-camera, from whomever: all are told no, and the room keeps its
\* answer, which who joins later is told.
SellerDisagreedCamera ==
    /\ room # NoRoom
    /\ told' = TellAll(FALSE)
    /\ declined' = IF agreed[room] THEN declined \cup {room} ELSE declined
    /\ UNCHANGED <<mediaVars, sockets, agreed, opened, producers, parted, known,
                   consuming, consumers, passed, excused>>

StreamNext ==
    \/ \E c \in Clients :
        \/ /\ \/ JoinRoom(c) \/ (MoreObjects /\ RouterReady(c)) \/ SendReady(c)
              \/ TransportLost(c) \/ MediasoupRefuses(c) \/ ProducerRefused(c)
           /\ UNCHANGED streamVars
        \/ StreamJoin(c) \/ StreamLeave(c)
        \/ StreamProduce(c) \/ StreamReady(c)
        \/ \E p \in Producers : Consume(c, p)
        \/ ConsumerReady(c) \/ ConsumerRefused(c)
    \/ StreamStop
    \/ \E answer \in BOOLEAN : SellerAgreed(answer)
    \/ SellerDisagreedCamera

StreamSpec == StreamInit /\ [][StreamNext]_<<mediaVars, streamVars>>

-----------------------------------------------------------------------------
(* Properties *)

\* Whoever was answered, and has not left the room, knows all open producers of the
\* seller and its agreement, from the answer or from a message since: both change while
\* a join is under way, and no await separates its answer from its entry into the
\* socket.io room (signaling.gateway.ts:83-116).  It is told yes only when the room
\* says so, and not told of a yes only when the camera was refused since (247-259).
\* The producers of a seller whose place another one took without a stop are forgotten.
MembersAreUpToDate ==
    \A c \in Clients :
        client[c].stage = "joined" /\ c \notin gone /\ client[c].held = room =>
            /\ told[c] => agreed[room]
            /\ agreed[room] => told[c] \/ room \in declined
            /\ seller[room] \notin {c, NoClient} =>
                   producers[room][seller[room]] \ passed \subseteq known[c]

\* A member keeps no consumer of what was closed, unless it still waited for it when
\* it was stopped, or its producer left (producer-consumer.service.ts:84-109): resume
\* would ask mediasoup for a consumer that is gone (signaling.gateway.ts:266-279).
KeptConsumersLive ==
    room # NoRoom =>
        \A c \in peers[room] :
            consumers[room][c] \subseteq (UNION {producers[room][d] : d \in Clients}) \cup excused[c]
=============================================================================
