----------------------------- MODULE MediaRoom -----------------------------
(***************************************************************************)
(* The media room of one auction: who is in it, with which transports, and  *)
(* who sells (media/signaling/signaling.gateway.ts and the services of     *)
(* media/mediasoup).                                                       *)
(*                                                                         *)
(* A handler runs in one turn of the event loop up to an await of the       *)
(* mediasoup worker.  A join has three of them: for the router of a room    *)
(* that is not there, for the send and for the receive transport.  It keeps *)
(* its room in a local variable while the map of rooms moves on, so rooms   *)
(* are objects, and the map has at most one of them.                        *)
(***************************************************************************)
EXTENDS Integers

CONSTANTS
    Clients,    \* sockets
    NoClient,
    MaxRooms    \* BOUND on the room objects made for the id

ASSUME MediaBounds == MaxRooms \in Nat \ {0} /\ NoClient \notin Clients

Rooms == 1..MaxRooms
NoRoom == 0

VARIABLES
    room,         \* the room the map has for the id
    made,         \* how many room objects were made
    overlapped,   \* HISTORY: the rooms made while another join waited for its router
    peers,        \* room |-> its peers
    transports,   \* room |-> client |-> what transports its peer has
    seller,       \* room |-> sellerSocket
    client,       \* client |-> where its join is
    gone,         \* the clients that left while their join was under way
    producing     \* client |-> the room it waits for a producer in

mediaVars == <<room, made, overlapped, peers, transports, seller, client, gone, producing>>

-----------------------------------------------------------------------------
(* Data *)

Directions == {"send", "recv"}

\* What a join waits for; "joined" and "failed" are its answers.
Stages == {"out", "router", "send", "recv", "joined", "failed"}

\* BOUND: a client joins again only when its join was answered.
Answered == {"out", "joined", "failed"}

\* held is the join's own room, on the room of the transport it waits for.
JoinState == [stage: Stages, held: Rooms \cup {NoRoom}, on: Rooms \cup {NoRoom}]

Out == [stage |-> "out", held |-> NoRoom, on |-> NoRoom]

MediaTypeOK ==
    /\ room \in 0..made /\ made \in 0..MaxRooms /\ overlapped \subseteq Rooms
    /\ peers \in [Rooms -> SUBSET Clients]
    /\ transports \in [Rooms -> [Clients -> SUBSET Directions]]
    /\ seller \in [Rooms -> Clients \cup {NoClient}]
    /\ client \in [Clients -> JoinState]
    /\ \A c \in Clients :
          client[c].stage \in Directions \cup {"joined"} =>
              client[c].held # NoRoom /\ client[c].on # NoRoom
    /\ gone \subseteq Clients
    /\ producing \in [Clients -> Rooms \cup {NoRoom}]

MediaInit ==
    /\ room = NoRoom /\ made = 0 /\ overlapped = {}
    /\ peers = [r \in Rooms |-> {}]
    /\ transports = [r \in Rooms |-> [c \in Clients |-> {}]]
    /\ seller = [r \in Rooms |-> NoClient]
    /\ client = [c \in Clients |-> Out]
    /\ gone = {}
    /\ producing = [c \in Clients |-> NoRoom]

-----------------------------------------------------------------------------
(* Joining *)

RoomIsMissing == room = NoRoom

JoinRoom(c) ==
    /\ client[c].stage \in Answered
    /\ client' = [client EXCEPT ![c] =
          IF RoomIsMissing
            THEN [stage |-> "router", held |-> NoRoom, on |-> NoRoom]
            ELSE [stage |-> "send", held |-> room, on |-> room]]
    /\ gone' = gone \ {c}
    /\ UNCHANGED <<room, made, overlapped, peers, transports, seller, producing>>

\* Another join found no room either, and its own will replace this one.
AnotherWaits(c) == \E d \in Clients \ {c} : client[d].stage = "router"

\* createRoom after its await: the map gets the new room, whatever it has by now.
RouterReady(c) ==
    /\ client[c].stage = "router" /\ made < MaxRooms
    /\ made' = made + 1
    /\ room' = made + 1
    /\ overlapped' = IF AnotherWaits(c) THEN overlapped \cup {made + 1} ELSE overlapped
    /\ client' = [client EXCEPT ![c] = [stage |-> "send", held |-> made + 1, on |-> made + 1]]
    /\ UNCHANGED <<peers, transports, seller, gone, producing>>

\* Mutant: a peer that is there is replaced by a new one.
PeerReplaced(c, r) == [transports EXCEPT ![r][c] = {}]

\* addPeerToRoom: a peer that is there keeps its transports.
PeerKept(c, r) == transports

\* createWebRtcTransport after its await finds the room the map has by now, and the
\* peer in the room the transport was made for.
Registers(c) == room # NoRoom /\ (client[c].on = room \/ c \in peers[client[c].on])

AddPeerToRoom(c) == peers' = [peers EXCEPT ![room] = @ \cup {c}]

AddTransport(c, direction) ==
    transports' = [PeerKept(c, room) EXCEPT ![client[c].on][c] = @ \cup {direction}]

\* The first transport; the second one is asked for in the room the map has.
SendReady(c) ==
    /\ client[c].stage = "send" /\ Registers(c)
    /\ AddPeerToRoom(c) /\ AddTransport(c, "send")
    /\ client' = [client EXCEPT ![c].stage = "recv", ![c].on = room]
    /\ UNCHANGED <<room, made, overlapped, seller, gone, producing>>

\* The peer of the seller of the join's own room is there to be asked.
SellerIsThere(c) ==
    LET held == client[c].held
    IN  seller[held] # NoClient => seller[held] \in peers'[held]

\* The second transport, the producers of the seller, and the answer.
RecvReady(c) ==
    /\ client[c].stage = "recv" /\ Registers(c)
    /\ AddPeerToRoom(c) /\ AddTransport(c, "recv")
    /\ client' = [client EXCEPT ![c].stage = IF SellerIsThere(c) THEN "joined" ELSE "failed"]
    /\ UNCHANGED <<room, made, overlapped, seller, gone, producing>>

\* The room has gone, or the peer is in another one, where it now stays.
TransportLost(c) ==
    /\ client[c].stage \in Directions /\ ~Registers(c)
    /\ IF room = NoRoom THEN UNCHANGED peers ELSE AddPeerToRoom(c)
    /\ client' = [client EXCEPT ![c].stage = "failed"]
    /\ UNCHANGED <<room, made, overlapped, transports, seller, gone, producing>>

\* mediasoup refuses a router or a transport.
MediasoupRefuses(c) ==
    /\ client[c].stage \notin Answered
    /\ client' = [client EXCEPT ![c].stage = "failed"]
    /\ UNCHANGED <<room, made, overlapped, peers, transports, seller, gone, producing>>

-----------------------------------------------------------------------------
(* Leaving, selling *)

\* Mutant: a room without peers stays.
RoomKept(left) == room

\* Mutant: the room goes with whoever leaves first.
RoomClosed(left) == NoRoom

\* removeRoom when the last peer has left.
RoomUnlessEmpty(left) == IF left = {} THEN NoRoom ELSE room

\* closePeerResource
WithoutPeer(c) == peers[room] \ {c}

\* leave-room; a join under way goes on.
LeaveRoom(c) ==
    /\ room # NoRoom /\ c \in peers[room]
    /\ peers' = [peers EXCEPT ![room] = WithoutPeer(c)]
    /\ transports' = [transports EXCEPT ![room][c] = {}]
    /\ room' = RoomUnlessEmpty(peers'[room])
    /\ IF client[c].stage \in Answered
         THEN client' = [client EXCEPT ![c] = Out] /\ UNCHANGED gone
         ELSE gone' = gone \cup {c} /\ UNCHANGED client
    /\ UNCHANGED <<made, overlapped, seller, producing>>

\* createProducer up to its await, on a transport the answer to its join has named.
\* BOUND: a client waits for one producer at a time.
Produce(c) ==
    /\ client[c].stage = "joined" /\ producing[c] = NoRoom
    /\ room # NoRoom /\ c \in peers[room] /\ "send" \in transports[room][c]
    /\ producing' = [producing EXCEPT ![c] = room]
    /\ UNCHANGED <<room, made, overlapped, peers, transports, seller, client, gone>>

\* createProducer after it: the client is the seller, whether it is still there or not.
ProducerReady(c) ==
    /\ producing[c] # NoRoom
    /\ seller' = [seller EXCEPT ![producing[c]] = c]
    /\ producing' = [producing EXCEPT ![c] = NoRoom]
    /\ UNCHANGED <<room, made, overlapped, peers, transports, client, gone>>

\* mediasoup refuses the producer.
ProducerRefused(c) ==
    /\ producing[c] # NoRoom
    /\ producing' = [producing EXCEPT ![c] = NoRoom]
    /\ UNCHANGED <<room, made, overlapped, peers, transports, seller, client, gone>>

\* stopSellerPeer; a seller whose peer has gone stays the seller.
StopPrevProducer ==
    /\ room # NoRoom /\ seller[room] \in peers[room]
    /\ seller' = [seller EXCEPT ![room] = NoClient]
    /\ UNCHANGED <<room, made, overlapped, peers, transports, client, gone, producing>>

Joins(c) ==
    \/ JoinRoom(c) \/ RouterReady(c) \/ SendReady(c) \/ RecvReady(c)
    \/ TransportLost(c) \/ MediasoupRefuses(c)

MediaNext ==
    \/ \E c \in Clients :
          \/ Joins(c) \/ LeaveRoom(c)
          \/ Produce(c) \/ ProducerReady(c) \/ ProducerRefused(c)
    \/ StopPrevProducer

MediaSpec == MediaInit /\ [][MediaNext]_mediaVars

-----------------------------------------------------------------------------
(* Properties *)

\* A room without peers stays in the map only for a join that made or found it and
\* is not through, or was refused by mediasoup: no room is left behind by those who
\* leave (signaling.gateway.ts:139-141), whatever joins meanwhile.
EmptyRoomIsBeingJoined ==
    room # NoRoom /\ peers[room] = {} =>
        \E c \in Clients : client[c].stage \in {"send", "failed"} /\ client[c].on = room

\* A peer is in a room that the map has lost.
RoomIsLost == \E r \in Rooms : r # room /\ peers[r] # {}

\* A client that was answered, and did not leave meanwhile, has both its transports in
\* the room that produce and consume look up, the winner of two first joiners too: a
\* join that kept another room than the map's is one whose room was lost with peers
\* (signaling.gateway.ts:71-83, room.service.ts:61-78).
JoinedCanProduce ==
    \A c \in Clients :
        client[c].stage = "joined" /\ c \notin gone =>
            /\ client[c].held = room \/ RoomIsLost
            /\ client[c].held = room =>
                  c \in peers[room] /\ transports[room][c] = Directions

\* A room with peers in it goes from the map in one way only: it was made while another
\* join waited for a router too, which then put its own room over it.  No leave, and
\* no join that fails, takes a room from those in it (room.service.ts:14-31,
\* signaling.gateway.ts:54-57 and 135-141).
RoomsLostOnlyToOverlap ==
    \A r \in Rooms : r # room /\ peers[r] # {} => r \in overlapped

\* What the inductive invariant of the proofs needs besides: only rooms that were made
\* have peers or joins, a join asks for its first transport in its own room, a room
\* that is there while a join waits for a router is an overlapped one, and a join half
\* done has its send transport.
MadeHavePeers == \A r \in Rooms : peers[r] # {} => r <= made

HeldRooms ==
    \A c \in Clients :
        /\ client[c].held <= made
        /\ client[c].stage = "send" => client[c].held = client[c].on

OverlapIsNoted ==
    room # NoRoom /\ (\E c \in Clients : client[c].stage = "router") => room \in overlapped

HalfJoined ==
    \A c \in Clients :
        client[c].stage = "recv" /\ c \notin gone =>
            /\ client[c].held = room \/ RoomIsLost
            /\ client[c].held = room =>
                  /\ client[c].on = room /\ c \in peers[room]
                  /\ "send" \in transports[room][c]

MediaInv ==
    /\ MediaTypeOK /\ MadeHavePeers /\ EmptyRoomIsBeingJoined
    /\ HeldRooms /\ OverlapIsNoted /\ RoomsLostOnlyToOverlap
    /\ HalfJoined /\ JoinedCanProduce

-----------------------------------------------------------------------------
(* What a comment of the repository says and the code does not do *)

\* "Collect the producers there are" (signaling.gateway.ts:90): a join that has both
\* its transports is answered with them.  The peer of a seller that has left is not
\* there, and the loop over its producers throws, for every join to come.
JoinCollectsProducers ==
    [][\A c \in Clients :
          RecvReady(c) => client'[c].stage = "joined"]_mediaVars
=============================================================================
