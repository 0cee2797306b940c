-------------------------- MODULE MediaRoomProofs --------------------------
(***************************************************************************)
(* Proofs about MediaRoom, and about MediaStreams which adds the streams   *)
(* to it, for any set of clients and any number of rooms and producers.    *)
(***************************************************************************)
EXTENDS MediaStreams, TLAPS

\* Rooms are numbers from 1, so that no room is NoRoom.
LEMMA RoomNumbers == NoRoom \notin Rooms /\ \A r \in Rooms : r \in Nat
BY MediaBounds DEF Rooms, NoRoom

\* The room of the map and the next one to be made are rooms.
LEMMA RoomsAreMade ==
    ASSUME MediaTypeOK
    PROVE  /\ room # NoRoom => room \in Rooms
           /\ made < MaxRooms => made + 1 \in Rooms
BY MediaBounds DEF MediaTypeOK, Rooms, NoRoom

\* Nobody is anywhere before the first join.
LEMMA MediaInitInv == MediaInit => MediaInv
<1> SUFFICES ASSUME MediaInit PROVE MediaInv
  OBVIOUS
<1>1. MediaTypeOK
  BY MediaBounds DEF MediaInit, MediaTypeOK, Out, JoinState, Stages, Directions, NoRoom
<1>2. /\ MadeHavePeers /\ EmptyRoomIsBeingJoined /\ HeldRooms /\ OverlapIsNoted
      /\ RoomsLostOnlyToOverlap /\ HalfJoined /\ JoinedCanProduce
  BY DEF MediaInit, Out, NoRoom, MadeHavePeers, EmptyRoomIsBeingJoined, HeldRooms,
         OverlapIsNoted, RoomsLostOnlyToOverlap, HalfJoined, JoinedCanProduce
<1> QED
  BY <1>1, <1>2 DEF MediaInv

\* A join starts: nobody is in another room than before.
LEMMA JoinRoomKeeps ==
    ASSUME MediaInv, NEW c \in Clients, JoinRoom(c)
    PROVE  MediaInv'
<1> USE DEF MediaInv
<1>a. /\ room # NoRoom => room \in Rooms
      /\ made < MaxRooms => made + 1 \in Rooms
  BY RoomsAreMade
<1>1. MediaTypeOK'
  BY <1>a DEF MediaTypeOK, JoinState, Stages, Directions, JoinRoom, RoomIsMissing
<1>2. MadeHavePeers'
  BY DEF MadeHavePeers, JoinRoom
<1>3. EmptyRoomIsBeingJoined'
  BY DEF EmptyRoomIsBeingJoined, JoinRoom, RoomIsMissing
<1>4. RoomIsLost => RoomIsLost'
  BY DEF RoomIsLost, JoinRoom
<1>5. HalfJoined'
  BY <1>4 DEF MediaTypeOK, HalfJoined, RoomIsLost, JoinRoom
<1>6. JoinedCanProduce'
  BY <1>4 DEF MediaTypeOK, JoinedCanProduce, RoomIsLost, JoinRoom
<1>7. HeldRooms'
  <2>1. room <= made /\ NoRoom <= made /\ made' = made
    BY MediaBounds DEF MediaTypeOK, JoinRoom, NoRoom
  <2>2. \A d \in Clients :
           \/ client'[d] = client[d]
           \/ /\ client'[d].held \in {NoRoom, room}
              /\ client'[d].held = client'[d].on
    BY DEF MediaTypeOK, JoinRoom
  <2> QED
    BY <2>1, <2>2 DEF HeldRooms
<1>8. OverlapIsNoted'
  <2>1. \A d \in Clients :
           room # NoRoom => client'[d].stage # "router" \/ client'[d] = client[d]
    BY DEF MediaTypeOK, JoinRoom, RoomIsMissing
  <2> QED
    BY <2>1 DEF OverlapIsNoted, JoinRoom
<1>9. RoomsLostOnlyToOverlap'
  BY DEF RoomsLostOnlyToOverlap, JoinRoom
<1> QED
  BY <1>1, <1>2, <1>3, <1>5, <1>6, <1>7, <1>8, <1>9

\* A new room is empty and its maker is on it; the room it replaces is lost if it had peers.
LEMMA RouterReadyKeeps ==
    ASSUME MediaInv, NEW c \in Clients, RouterReady(c)
    PROVE  MediaInv'
<1> USE DEF MediaInv
<1>a. /\ room # NoRoom => room \in Rooms
      /\ made < MaxRooms => made + 1 \in Rooms
  BY RoomsAreMade
<1>1. MediaTypeOK'
  <2>1. made + 1 \in Rooms /\ made' = made + 1 /\ made' \in 0..MaxRooms /\ room' \in 0..made'
    BY <1>a, MediaBounds DEF MediaTypeOK, RouterReady
  <2>2. /\ client[c] \in JoinState
        /\ client' = [client EXCEPT ![c] = [stage |-> "send", held |-> made + 1, on |-> made + 1]]
    BY DEF MediaTypeOK, RouterReady
  <2>3. [stage |-> "send", held |-> made + 1, on |-> made + 1] \in JoinState
    BY <2>1 DEF JoinState, Stages
  <2>4. client' \in [Clients -> JoinState]
    BY <2>2, <2>3 DEF MediaTypeOK
  <2>5. \A d \in Clients :
           client'[d].stage \in Directions \cup {"joined"} =>
               client'[d].held # NoRoom /\ client'[d].on # NoRoom
    BY <2>1, <2>2, RoomNumbers DEF MediaTypeOK
  <2> QED
    BY <2>1, <2>4, <2>5 DEF MediaTypeOK, RouterReady
<1>2. MadeHavePeers'
  BY RoomNumbers DEF MediaTypeOK, MadeHavePeers, RouterReady
<1>3. EmptyRoomIsBeingJoined'
  BY DEF MediaTypeOK, EmptyRoomIsBeingJoined, RouterReady
<1>4. RoomIsLost => RoomIsLost'
  BY DEF MediaTypeOK, RoomIsLost, MadeHavePeers, RouterReady
<1>b. ASSUME NEW d \in Clients, client'[d].stage \in {"recv", "joined"}, d \notin gone'
      PROVE  client'[d].held # room' /\ RoomIsLost'
  <2>1. client'[d] = client[d] /\ d \notin gone /\ UNCHANGED peers /\ room' = made + 1
    BY <1>b DEF MediaTypeOK, RouterReady
  <2>2. made \in Nat /\ client[d].held \in Rooms /\ client[d].held <= made
    BY <1>b, <2>1, MediaBounds DEF MediaTypeOK, JoinState, Directions, HeldRooms
  <2>3. client[d].held # made + 1
    BY <2>2, RoomNumbers
  <2>4. client[d].held = room => d \in peers[client[d].held]
    BY <1>b, <2>1 DEF HalfJoined, JoinedCanProduce
  <2>5. CASE client[d].held = room
    <3>1. room \in Rooms /\ peers'[room] # {} /\ room # room'
      BY <2>1, <2>2, <2>3, <2>4, <2>5
    <3> QED
      BY <2>1, <2>3, <3>1 DEF RoomIsLost
  <2>6. CASE client[d].held # room
    BY <1>4, <1>b, <2>1, <2>3, <2>6 DEF HalfJoined, JoinedCanProduce
  <2> QED
    BY <2>5, <2>6
<1>5. HalfJoined'
  BY <1>b DEF HalfJoined
<1>6. JoinedCanProduce'
  BY <1>b DEF JoinedCanProduce
<1>7. HeldRooms'
  <2>1. made \in Nat /\ made' = made + 1
    BY MediaBounds DEF MediaTypeOK, RouterReady
  <2>2. \A d \in Clients :
           \/ client'[d] = client[d]
           \/ client'[d].held = made + 1 /\ client'[d].on = made + 1
    BY DEF MediaTypeOK, RouterReady
  <2>3. \A d \in Clients : client[d].held \in Nat
    BY RoomNumbers DEF MediaTypeOK, JoinState, NoRoom
  <2> QED
    BY <2>1, <2>2, <2>3 DEF HeldRooms
<1>8. OverlapIsNoted'
  <2>1. \A d \in Clients : client'[d].stage = "router" => d # c /\ client[d].stage = "router"
    BY DEF MediaTypeOK, RouterReady
  <2>2. (\E d \in Clients : client'[d].stage = "router") => AnotherWaits(c)
    BY <2>1 DEF AnotherWaits
  <2> QED
    BY <2>2 DEF OverlapIsNoted, RouterReady
<1>9. RoomsLostOnlyToOverlap'
  <2>1. room # NoRoom => room \in overlapped
    BY DEF OverlapIsNoted, RouterReady
  <2>2. \A r \in Rooms : r # NoRoom
    BY RoomNumbers
  <2>3. overlapped \subseteq overlapped' /\ peers' = peers
    BY DEF RouterReady
  <2> QED
    BY <2>1, <2>2, <2>3 DEF RoomsLostOnlyToOverlap
<1> QED
  BY <1>1, <1>2, <1>3, <1>5, <1>6, <1>7, <1>8, <1>9

\* The first transport is registered, in the room unless one is lost.
LEMMA SendReadyKeeps ==
    ASSUME MediaInv, NEW c \in Clients, SendReady(c)
    PROVE  MediaInv'
<1> USE DEF MediaInv
<1>a. /\ room # NoRoom => room \in Rooms
      /\ made < MaxRooms => made + 1 \in Rooms
  BY RoomsAreMade
<1>1. MediaTypeOK'
  BY <1>a DEF MediaTypeOK, JoinState, Stages, Directions, SendReady, Registers, AddPeerToRoom, AddTransport, PeerKept
<1>2. MadeHavePeers'
  BY DEF MediaTypeOK, MadeHavePeers, SendReady, AddPeerToRoom
<1>3. EmptyRoomIsBeingJoined'
  BY <1>a DEF MediaTypeOK, EmptyRoomIsBeingJoined, SendReady, AddPeerToRoom
<1>4. RoomIsLost => RoomIsLost'
  BY DEF RoomIsLost, SendReady, AddPeerToRoom
<1>5. HalfJoined'
  <2> SUFFICES ASSUME NEW d \in Clients, client'[d].stage = "recv", d \notin gone'
               PROVE  /\ client'[d].held = room' \/ RoomIsLost'
                      /\ client'[d].held = room' =>
                            /\ client'[d].on = room' /\ d \in peers'[room']
                            /\ "send" \in transports'[room'][d]
    BY DEF HalfJoined
  <2>1. room' = room /\ gone' = gone /\ room # NoRoom /\ room \in Rooms
    BY <1>a DEF SendReady, Registers
  <2>2. peers'[room] = peers[room] \cup {c}
    BY <2>1 DEF MediaTypeOK, SendReady, AddPeerToRoom
  <2>3. client[c].on \in Rooms /\ client[c].held = client[c].on
    BY DEF MediaTypeOK, JoinState, Directions, SendReady, HeldRooms
  <2>4. /\ transports'[client[c].on][c] = transports[client[c].on][c] \cup {"send"}
        /\ \A e \in Clients : e # c => transports'[room][e] = transports[room][e]
    BY <2>1, <2>3 DEF MediaTypeOK, SendReady, AddTransport, PeerKept
  <2>5. CASE d = c
    <3>1. client'[c].held = client[c].held /\ client'[c].on = room
      BY DEF MediaTypeOK, JoinState, SendReady
    <3>2. client[c].on # room => RoomIsLost
      BY <2>3 DEF SendReady, Registers, RoomIsLost
    <3> QED
      BY <1>4, <2>1, <2>2, <2>3, <2>4, <2>5, <3>1, <3>2
  <2>6. CASE d # c
    <3>1. client'[d] = client[d]
      BY <2>6 DEF MediaTypeOK, SendReady
    <3>2. "send" \in transports[room][d] => "send" \in transports'[room][d]
      BY <2>4, <2>6
    <3>3. d \in peers[room] => d \in peers'[room]
      BY <2>2
    <3>4. /\ client[d].held = room \/ RoomIsLost
          /\ client[d].held = room =>
                client[d].on = room /\ d \in peers[room] /\ "send" \in transports[room][d]
      BY <2>1, <3>1 DEF HalfJoined
    <3> QED
      BY <1>4, <2>1, <3>1, <3>2, <3>3, <3>4
  <2> QED
    BY <2>5, <2>6
<1>6. JoinedCanProduce'
  <2> SUFFICES ASSUME NEW d \in Clients, client'[d].stage = "joined", d \notin gone'
               PROVE  /\ client'[d].held = room' \/ RoomIsLost'
                      /\ client'[d].held = room' =>
                            d \in peers'[room'] /\ transports'[room'][d] = Directions
    BY DEF JoinedCanProduce
  <2>1. d # c /\ client'[d] = client[d] /\ gone' = gone /\ room' = room /\ room \in Rooms
    BY <1>a DEF MediaTypeOK, JoinState, SendReady, Registers
  <2>2. peers[room] \subseteq peers'[room] /\ transports'[room][d] = transports[room][d]
    BY <2>1 DEF MediaTypeOK, SendReady, AddPeerToRoom, AddTransport, PeerKept
  <2> QED
    BY <1>4, <2>1, <2>2 DEF JoinedCanProduce
<1>7. HeldRooms'
  <2>1. \A d \in Clients : client'[d].held = client[d].held /\ (client'[d].stage = "send" => client'[d] = client[d])
    BY DEF MediaTypeOK, JoinState, SendReady
  <2> QED
    BY <2>1 DEF HeldRooms, SendReady
<1>8. OverlapIsNoted'
  BY DEF MediaTypeOK, JoinState, OverlapIsNoted, SendReady
<1>9. RoomsLostOnlyToOverlap'
  BY <1>a DEF MediaTypeOK, RoomsLostOnlyToOverlap, SendReady, AddPeerToRoom
<1> QED
  BY <1>1, <1>2, <1>3, <1>5, <1>6, <1>7, <1>8, <1>9

\* The second transport joins the first.
LEMMA RecvReadyKeeps ==
    ASSUME MediaInv, NEW c \in Clients, RecvReady(c)
    PROVE  MediaInv'
<1> USE DEF MediaInv
<1>1. MediaTypeOK'
  BY DEF MediaTypeOK, JoinState, Stages, Directions, RecvReady, AddPeerToRoom, AddTransport, PeerKept
<1>2. MadeHavePeers'
  BY DEF MediaTypeOK, MadeHavePeers, RecvReady, AddPeerToRoom
<1>3. EmptyRoomIsBeingJoined'
  BY DEF EmptyRoomIsBeingJoined, RecvReady, AddPeerToRoom
<1>4. RoomIsLost => RoomIsLost'
  BY DEF RoomIsLost, RecvReady, AddPeerToRoom
<1>5. HalfJoined'
  BY <1>4 DEF HalfJoined, RoomIsLost, RecvReady, AddPeerToRoom, AddTransport, PeerKept
<1>6. JoinedCanProduce'
  BY <1>4 DEF MediaTypeOK, JoinState, HalfJoined, JoinedCanProduce, RoomIsLost, Directions, RecvReady, AddPeerToRoom, AddTransport, PeerKept
<1>7. HeldRooms'
  <2>1. \A d \in Clients : client'[d].held = client[d].held /\ (client'[d].stage = "send" => client'[d] = client[d])
    BY DEF MediaTypeOK, JoinState, RecvReady
  <2> QED
    BY <2>1 DEF HeldRooms, RecvReady
<1>8. OverlapIsNoted'
  BY DEF MediaTypeOK, JoinState, OverlapIsNoted, RecvReady
<1>9. RoomsLostOnlyToOverlap'
  BY DEF MediaTypeOK, RoomsLostOnlyToOverlap, RecvReady, AddPeerToRoom
<1> QED
  BY <1>1, <1>2, <1>3, <1>5, <1>6, <1>7, <1>8, <1>9

\* A join that breaks leaves at most a peer without transports.
LEMMA TransportLostKeeps ==
    ASSUME MediaInv, NEW c \in Clients, TransportLost(c)
    PROVE  MediaInv'
<1> USE DEF MediaInv
<1>a. /\ room # NoRoom => room \in Rooms
      /\ made < MaxRooms => made + 1 \in Rooms
  BY RoomsAreMade
<1>1. MediaTypeOK'
  <2>1. peers' \in [Rooms -> SUBSET Clients]
    BY <1>a DEF MediaTypeOK, TransportLost, AddPeerToRoom
  <2>2. client[c] \in JoinState /\ client' = [client EXCEPT ![c] = [@ EXCEPT !.stage = "failed"]]
    BY DEF MediaTypeOK, TransportLost
  <2>3. [client[c] EXCEPT !.stage = "failed"] \in JoinState
    BY <2>2 DEF JoinState, Stages
  <2>4. client' \in [Clients -> JoinState]
    BY <2>2, <2>3 DEF MediaTypeOK
  <2>5. \A d \in Clients :
           client'[d].stage \in Directions \cup {"joined"} =>
               client'[d].held # NoRoom /\ client'[d].on # NoRoom
    BY <2>2 DEF MediaTypeOK, JoinState, Directions
  <2> QED
    BY <2>1, <2>4, <2>5 DEF MediaTypeOK, TransportLost
<1>2. MadeHavePeers'
  BY DEF MediaTypeOK, MadeHavePeers, TransportLost, AddPeerToRoom
<1>3. EmptyRoomIsBeingJoined'
  BY DEF MediaTypeOK, EmptyRoomIsBeingJoined, TransportLost, AddPeerToRoom
<1>4. RoomIsLost => RoomIsLost'
  BY DEF MediaTypeOK, RoomIsLost, TransportLost, AddPeerToRoom
<1>5. HalfJoined'
  BY <1>4 DEF MediaTypeOK, HalfJoined, RoomIsLost, TransportLost, AddPeerToRoom
<1>6. JoinedCanProduce'
  BY <1>4 DEF MediaTypeOK, JoinedCanProduce, RoomIsLost, TransportLost, AddPeerToRoom
<1>7. HeldRooms'
  <2>1. \A d \in Clients : client'[d].held = client[d].held /\ (client'[d].stage = "send" => client'[d] = client[d])
    BY DEF MediaTypeOK, JoinState, TransportLost
  <2> QED
    BY <2>1 DEF HeldRooms, TransportLost
<1>8. OverlapIsNoted'
  BY DEF MediaTypeOK, JoinState, OverlapIsNoted, TransportLost
<1>9. RoomsLostOnlyToOverlap'
  BY <1>a DEF MediaTypeOK, RoomsLostOnlyToOverlap, TransportLost, AddPeerToRoom
<1> QED
  BY <1>1, <1>2, <1>3, <1>5, <1>6, <1>7, <1>8, <1>9

\* A refused join stays on its room.
LEMMA MediasoupRefusesKeeps ==
    ASSUME MediaInv, NEW c \in Clients, MediasoupRefuses(c)
    PROVE  MediaInv'
<1> USE DEF MediaInv
<1>1. MediaTypeOK'
  BY DEF MediaTypeOK, JoinState, Stages, Directions, MediasoupRefuses
<1>2. MadeHavePeers'
  BY DEF MadeHavePeers, MediasoupRefuses
<1>3. EmptyRoomIsBeingJoined'
  BY DEF EmptyRoomIsBeingJoined, MediasoupRefuses
<1>4. RoomIsLost => RoomIsLost'
  BY DEF RoomIsLost, MediasoupRefuses
<1>5. HalfJoined'
  BY <1>4 DEF HalfJoined, RoomIsLost, MediasoupRefuses
<1>6. JoinedCanProduce'
  BY <1>4 DEF JoinedCanProduce, RoomIsLost, MediasoupRefuses
<1>7. HeldRooms'
  <2>1. \A d \in Clients : client'[d].held = client[d].held /\ (client'[d].stage = "send" => client'[d] = client[d])
    BY DEF MediaTypeOK, JoinState, MediasoupRefuses
  <2> QED
    BY <2>1 DEF HeldRooms, MediasoupRefuses
<1>8. OverlapIsNoted'
  BY DEF MediaTypeOK, JoinState, OverlapIsNoted, MediasoupRefuses
<1>9. RoomsLostOnlyToOverlap'
  BY DEF MediaTypeOK, RoomsLostOnlyToOverlap, MediasoupRefuses
<1> QED
  BY <1>1, <1>2, <1>3, <1>5, <1>6, <1>7, <1>8, <1>9

\* Who leaves is out, and the last one takes the room along.
LEMMA LeaveRoomKeeps ==
    ASSUME MediaInv, NEW c \in Clients, LeaveRoom(c)
    PROVE  MediaInv'
<1> USE DEF MediaInv
<1>a. /\ room # NoRoom => room \in Rooms
      /\ made < MaxRooms => made + 1 \in Rooms
  BY RoomsAreMade
<1>1. MediaTypeOK'
  <2>1. room \in Rooms /\ room' \in {room, NoRoom} /\ room' \in 0..made' /\ made' \in 0..MaxRooms
    BY <1>a DEF MediaTypeOK, LeaveRoom, RoomUnlessEmpty, NoRoom
  <2>2. peers' \in [Rooms -> SUBSET Clients]
    BY <2>1 DEF MediaTypeOK, LeaveRoom, WithoutPeer
  <2>3. [transports[room] EXCEPT ![c] = {}] \in [Clients -> SUBSET Directions]
    BY <2>1 DEF MediaTypeOK
  <2>4. transports' \in [Rooms -> [Clients -> SUBSET Directions]]
    BY <2>1, <2>3 DEF MediaTypeOK, LeaveRoom
  <2>5. Out \in JoinState /\ Out.stage \notin Directions \cup {"joined"}
    BY DEF Out, JoinState, Stages, Directions
  <2>6. client' \in [Clients -> JoinState] /\ gone' \subseteq Clients
    BY <2>5 DEF MediaTypeOK, LeaveRoom
  <2>7. \A d \in Clients :
           client'[d].stage \in Directions \cup {"joined"} =>
               client'[d].held # NoRoom /\ client'[d].on # NoRoom
    BY <2>5 DEF MediaTypeOK, LeaveRoom
  <2> QED
    BY <2>1, <2>2, <2>4, <2>6, <2>7 DEF MediaTypeOK, LeaveRoom
<1>2. MadeHavePeers'
  BY DEF MadeHavePeers, LeaveRoom
<1>3. EmptyRoomIsBeingJoined'
  BY DEF EmptyRoomIsBeingJoined, LeaveRoom, RoomUnlessEmpty
<1>4. RoomIsLost => RoomIsLost'
  BY RoomNumbers DEF RoomIsLost, LeaveRoom, RoomUnlessEmpty
<1>b. ASSUME NEW d \in Clients, d # c, room # NoRoom, d \in peers[room]
      PROVE  /\ room' = room /\ d \in peers'[room] /\ client'[d] = client[d]
             /\ transports'[room][d] = transports[room][d]
  <2>1. room \in Rooms /\ peers'[room] = peers[room] \ {c}
    BY <1>a, <1>b DEF MediaTypeOK, LeaveRoom, WithoutPeer
  <2>2. transports'[room] = [transports[room] EXCEPT ![c] = {}]
    BY <2>1 DEF MediaTypeOK, LeaveRoom
  <2>3. transports'[room][d] = transports[room][d]
    BY <1>b, <2>1, <2>2 DEF MediaTypeOK
  <2>4. client'[d] = client[d]
    BY <1>b DEF MediaTypeOK, LeaveRoom
  <2>5. room' = room
    BY <1>b, <2>1 DEF LeaveRoom, RoomUnlessEmpty
  <2> QED
    BY <1>b, <2>1, <2>3, <2>4, <2>5
<1>c. /\ client'[c].stage \in {"recv", "joined"} => c \in gone'
      /\ \A d \in Clients : d # c => client'[d] = client[d]
      /\ gone \subseteq gone'
  BY DEF LeaveRoom, MediaTypeOK, Answered, Out
<1>d. ASSUME NEW d \in Clients, client[d].stage \in {"recv", "joined"}, client[d].held # room
      PROVE  client[d].held # room'
  BY <1>d DEF LeaveRoom, RoomUnlessEmpty, MediaTypeOK, Directions
<1>5. HalfJoined'
  <2> SUFFICES ASSUME NEW d \in Clients, client'[d].stage = "recv", d \notin gone'
               PROVE  /\ client'[d].held = room' \/ RoomIsLost'
                      /\ client'[d].held = room' =>
                            /\ client'[d].on = room' /\ d \in peers'[room']
                            /\ "send" \in transports'[room'][d]
    BY DEF HalfJoined
  <2>1. d # c /\ client'[d] = client[d] /\ d \notin gone
    BY <1>c
  <2>2. CASE client[d].held = room
    BY <1>a, <1>b, <2>1, <2>2 DEF HalfJoined, LeaveRoom
  <2>3. CASE client[d].held # room
    BY <1>4, <1>d, <2>1, <2>3 DEF HalfJoined
  <2> QED
    BY <2>2, <2>3
<1>6. JoinedCanProduce'
  <2> SUFFICES ASSUME NEW d \in Clients, client'[d].stage = "joined", d \notin gone'
               PROVE  /\ client'[d].held = room' \/ RoomIsLost'
                      /\ client'[d].held = room' =>
                            d \in peers'[room'] /\ transports'[room'][d] = Directions
    BY DEF JoinedCanProduce
  <2>1. d # c /\ client'[d] = client[d] /\ d \notin gone
    BY <1>c
  <2>2. CASE client[d].held = room
    BY <1>a, <1>b, <2>1, <2>2 DEF JoinedCanProduce, LeaveRoom
  <2>3. CASE client[d].held # room
    BY <1>4, <1>d, <2>1, <2>3 DEF JoinedCanProduce
  <2> QED
    BY <2>2, <2>3
<1>7. HeldRooms'
  <2>1. \A d \in Clients : client'[d] = client[d] \/ client'[d] = Out
    BY DEF MediaTypeOK, LeaveRoom
  <2>2. made' = made /\ NoRoom <= made
    BY MediaBounds DEF MediaTypeOK, LeaveRoom, NoRoom
  <2> QED
    BY <2>1, <2>2 DEF HeldRooms, Out
<1>8. OverlapIsNoted'
  <2>1. \A d \in Clients : client'[d].stage = "router" => client[d].stage = "router"
    BY DEF MediaTypeOK, LeaveRoom, Out
  <2> QED
    BY <2>1 DEF OverlapIsNoted, LeaveRoom, RoomUnlessEmpty
<1>9. RoomsLostOnlyToOverlap'
  <2>1. \A r \in Rooms : r # room => peers'[r] = peers[r]
    BY DEF LeaveRoom
  <2>2. peers'[room] # {} => room' = room
    BY DEF LeaveRoom, RoomUnlessEmpty
  <2> QED
    BY <2>1, <2>2 DEF RoomsLostOnlyToOverlap, LeaveRoom
<1> QED
  BY <1>1, <1>2, <1>3, <1>5, <1>6, <1>7, <1>8, <1>9

\* A step that moves nobody, and no room, keeps all but the types.
LEMMA UnmovedKeeps ==
    ASSUME MediaInv, MediaTypeOK',
           UNCHANGED <<room, made, overlapped, peers, transports, client, gone>>
    PROVE  MediaInv'
<1>1. /\ MadeHavePeers' /\ EmptyRoomIsBeingJoined' /\ HeldRooms' /\ OverlapIsNoted'
      /\ RoomsLostOnlyToOverlap'
  BY DEF MediaInv, MadeHavePeers, EmptyRoomIsBeingJoined, HeldRooms, OverlapIsNoted,
         RoomsLostOnlyToOverlap
<1>2. HalfJoined' /\ JoinedCanProduce'
  BY DEF MediaInv, HalfJoined, JoinedCanProduce, RoomIsLost
<1> QED
  BY <1>1, <1>2 DEF MediaInv

\* Selling moves nobody.
LEMMA ProduceKeeps ==
    ASSUME MediaInv, NEW c \in Clients, Produce(c)
    PROVE  MediaInv'
<1> USE DEF MediaInv
<1>1. MediaTypeOK'
  BY RoomsAreMade DEF MediaTypeOK, Produce
<1> QED
  BY <1>1, UnmovedKeeps DEF Produce

\* The seller is not read by the invariant.
LEMMA ProducerReadyKeeps ==
    ASSUME MediaInv, NEW c \in Clients, ProducerReady(c)
    PROVE  MediaInv'
<1> USE DEF MediaInv
<1>1. MediaTypeOK'
  BY DEF MediaTypeOK, ProducerReady
<1> QED
  BY <1>1, UnmovedKeeps DEF ProducerReady

\* A producer that is refused changes nobody's place.
LEMMA ProducerRefusedKeeps ==
    ASSUME MediaInv, NEW c \in Clients, ProducerRefused(c)
    PROVE  MediaInv'
<1> USE DEF MediaInv
<1>1. MediaTypeOK'
  BY DEF MediaTypeOK, ProducerRefused
<1> QED
  BY <1>1, UnmovedKeeps DEF ProducerRefused

\* Stopping the seller moves nobody either.
LEMMA StopPrevProducerKeeps ==
    ASSUME MediaInv, StopPrevProducer
    PROVE  MediaInv'
<1> USE DEF MediaInv
<1>1. MediaTypeOK'
  BY DEF MediaTypeOK, StopPrevProducer
<1> QED
  BY <1>1, UnmovedKeeps DEF StopPrevProducer

\* Every step of the gateway's handlers keeps the invariant.
LEMMA MediaStepKeeps == MediaInv /\ [MediaNext]_mediaVars => MediaInv'
<1> SUFFICES ASSUME MediaInv, [MediaNext]_mediaVars PROVE MediaInv'
  OBVIOUS
<1>1. ASSUME NEW c \in Clients, JoinRoom(c) PROVE MediaInv'
  BY <1>1, JoinRoomKeeps
<1>2. ASSUME NEW c \in Clients, RouterReady(c) PROVE MediaInv'
  BY <1>2, RouterReadyKeeps
<1>3. ASSUME NEW c \in Clients, SendReady(c) PROVE MediaInv'
  BY <1>3, SendReadyKeeps
<1>4. ASSUME NEW c \in Clients, RecvReady(c) PROVE MediaInv'
  BY <1>4, RecvReadyKeeps
<1>5. ASSUME NEW c \in Clients, TransportLost(c) PROVE MediaInv'
  BY <1>5, TransportLostKeeps
<1>6. ASSUME NEW c \in Clients, MediasoupRefuses(c) PROVE MediaInv'
  BY <1>6, MediasoupRefusesKeeps
<1>7. ASSUME NEW c \in Clients, LeaveRoom(c) PROVE MediaInv'
  BY <1>7, LeaveRoomKeeps
<1>8. ASSUME NEW c \in Clients, Produce(c) PROVE MediaInv'
  BY <1>8, ProduceKeeps
<1>9. ASSUME NEW c \in Clients, ProducerReady(c) PROVE MediaInv'
  BY <1>9, ProducerReadyKeeps
<1>10. ASSUME StopPrevProducer PROVE MediaInv'
  BY <1>10, StopPrevProducerKeeps
<1>11. ASSUME NEW c \in Clients, ProducerRefused(c) PROVE MediaInv'
  BY <1>11, ProducerRefusedKeeps
<1>12. ASSUME UNCHANGED mediaVars PROVE MediaInv'
  BY <1>12, UnmovedKeeps DEF mediaVars, MediaInv, MediaTypeOK
<1> QED
  BY <1>1, <1>2, <1>3, <1>4, <1>5, <1>6, <1>7, <1>8, <1>9, <1>10, <1>11, <1>12 DEF MediaNext, Joins

\* The invariant of the media room, for any clients and any number of room objects:
\* joins, leaves and producers interleave at every await (signaling.gateway.ts:54-230).
THEOREM MediaInvariance == MediaSpec => []MediaInv
<1> QED
  BY MediaInitInv, MediaStepKeeps, PTL DEF MediaSpec

\* No room is left behind by those who leave (signaling.gateway.ts:139-141).
THEOREM NoRoomIsLeftBehind == MediaSpec => []EmptyRoomIsBeingJoined
<1>1. MediaInv => EmptyRoomIsBeingJoined
  BY DEF MediaInv
<1> QED
  BY <1>1, MediaInvariance, PTL

\* A join that was answered can produce and consume, unless its room was lost with
\* peers in it (signaling.gateway.ts:71-83).
THEOREM AnsweredJoinsWork == MediaSpec => []JoinedCanProduce
<1>1. MediaInv => JoinedCanProduce
  BY DEF MediaInv
<1> QED
  BY <1>1, MediaInvariance, PTL

\* A room with peers in it is only lost to the room of another first joiner
\* (room.service.ts:14-31, signaling.gateway.ts:54-57 and 135-141).
THEOREM RoomsAreLostToOverlap == MediaSpec => []RoomsLostOnlyToOverlap
<1>1. MediaInv => RoomsLostOnlyToOverlap
  BY DEF MediaInv
<1> QED
  BY <1>1, MediaInvariance, PTL

-----------------------------------------------------------------------------
(* The streams *)

StreamTypeOK ==
    /\ sockets \subseteq Clients /\ parted \subseteq Clients /\ declined \subseteq Rooms
    /\ agreed \in [Rooms -> BOOLEAN] /\ told \in [Clients -> BOOLEAN]
    /\ opened \in Nat /\ passed \subseteq Nat
    /\ producers \in [Rooms -> [Clients -> SUBSET Nat]]
    /\ consumers \in [Rooms -> [Clients -> SUBSET Nat]]
    /\ known \in [Clients -> SUBSET Nat] /\ excused \in [Clients -> SUBSET Nat]
    /\ consuming \in [Clients -> [room : Rooms \cup {NoRoom}, producer : Nat]]
    /\ \A c \in Clients : consuming[c] # Nothing => consuming[c].room # NoRoom

\* An open producer has one number and one owner; who is not the seller of a room has
\* only producers that another seller took the place of; and the producer that comes
\* after its peer has left finds no other of that client.
OwnersInv ==
    /\ \A r \in Rooms, c \in Clients, p \in Nat : p \in producers[r][c] => p <= opened
    /\ \A q, r \in Rooms, c, d \in Clients, p \in Nat :
          p \in producers[q][c] /\ p \in producers[r][d] => q = r /\ c = d
    /\ \A r \in Rooms, c \in Clients : c # seller[r] => producers[r][c] \subseteq passed
    /\ \A c \in Clients :
          c \in parted /\ producing[c] # NoRoom => producers[producing[c]][c] = {}

\* Who was answered is in the socket.io room.
JoinsInv ==
    \A c \in Clients : client[c].stage = "joined" /\ c \notin gone => c \in sockets

\* Consumers are those of peers, and what they consume, or will, is open or excused.
OpenIn(r) == UNION {producers[r][d] : d \in Clients}

ConsumersInv ==
    /\ \A r \in Rooms, c \in Clients : consumers[r][c] # {} => c \in peers[r]
    /\ \A c \in Clients :
          consuming[c].room # NoRoom =>
              consuming[c].room <= made /\ c \in peers[consuming[c].room]
    /\ room # NoRoom =>
          \A c \in Clients :
              /\ consumers[room][c] \subseteq OpenIn(room) \cup excused[c]
              /\ consuming[c].room = room =>
                    consuming[c].producer \in OpenIn(room) \cup excused[c]

StreamInv ==
    /\ MediaInv /\ StreamTypeOK /\ OwnersInv /\ JoinsInv /\ MembersAreUpToDate
    /\ ConsumersInv

\* One entry of a table of rooms and clients is written.
LEMMA OneEntryWritten ==
    ASSUME NEW T, NEW f \in [Rooms -> [Clients -> SUBSET T]], NEW r \in Rooms,
           NEW c \in Clients, NEW v \in SUBSET T, NEW g, g = [f EXCEPT ![r][c] = v]
    PROVE  /\ g \in [Rooms -> [Clients -> SUBSET T]]
           /\ g[r][c] = v
           /\ \A q \in Rooms, d \in Clients : q # r \/ d # c => g[q][d] = f[q][d]
<1>1. f[r] \in [Clients -> SUBSET T]
  OBVIOUS
<1>2. [f[r] EXCEPT ![c] = v] \in [Clients -> SUBSET T]
  BY <1>1
<1>3. g = [f EXCEPT ![r] = [f[r] EXCEPT ![c] = v]]
  OBVIOUS
<1>4. g \in [Rooms -> [Clients -> SUBSET T]]
  BY <1>2, <1>3
<1>5. g[r] = [f[r] EXCEPT ![c] = v] /\ \A q \in Rooms : q # r => g[q] = f[q]
  BY <1>3
<1>6. g[r][c] = v /\ \A d \in Clients : d # c => g[r][d] = f[r][d]
  BY <1>1, <1>5
<1> QED
  BY <1>4, <1>5, <1>6

\* A step of the streams is a step of the room, or leaves the room alone.
LEMMA StreamIsMedia ==
    ASSUME [StreamNext]_<<mediaVars, streamVars>>
    PROVE  [MediaNext]_mediaVars
BY DEF StreamNext, MediaNext, Joins, StreamJoin, StreamLeave, StreamProduce, StreamReady, StreamStop,
       Consume, ConsumerReady, ConsumerRefused, SellerAgreed, SellerDisagreedCamera

\* What a step of a join moves: the map at most to a new room, and peers only in.
LEMMA JoinsMove ==
    ASSUME MediaInv, NEW c \in Clients, Joins(c)
    PROVE  /\ seller' = seller /\ producing' = producing
           /\ made \in Nat /\ made' \in Nat /\ made <= made'
           /\ \A r \in Rooms : peers[r] \subseteq peers'[r]
           /\ \/ room' = room
              \/ room' = made + 1 /\ made + 1 \in Rooms /\ peers' = peers
           /\ RoomIsLost => RoomIsLost'
<1>a. /\ room # NoRoom => room \in Rooms
      /\ made < MaxRooms => made + 1 \in Rooms
  BY RoomsAreMade DEF MediaInv
<1>b. /\ peers \in [Rooms -> SUBSET Clients] /\ room \in 0..made /\ made \in 0..MaxRooms
      /\ MaxRooms \in Nat
  BY MediaBounds DEF MediaInv, MediaTypeOK
<1>1. seller' = seller /\ producing' = producing
  BY DEF Joins, JoinRoom, RouterReady, SendReady, RecvReady, TransportLost, MediasoupRefuses
<1>2. made \in Nat /\ made' \in Nat /\ made <= made'
  BY <1>b DEF Joins, JoinRoom, RouterReady, SendReady, RecvReady, TransportLost, MediasoupRefuses
<1>3. \/ room' = room
      \/ room' = made + 1 /\ made + 1 \in Rooms /\ peers' = peers
  BY <1>a, <1>b DEF Joins, JoinRoom, RouterReady, SendReady, RecvReady, TransportLost, MediasoupRefuses
<1>4. \/ peers' = peers
      \/ room # NoRoom /\ AddPeerToRoom(c)
  BY DEF Joins, JoinRoom, RouterReady, SendReady, RecvReady, TransportLost, MediasoupRefuses, Registers
<1>5. \A r \in Rooms : peers[r] \subseteq peers'[r]
  BY <1>a, <1>b, <1>4 DEF AddPeerToRoom
<1>6. \A r \in Rooms : r # room /\ peers[r] # {} => r # room'
  BY <1>2, <1>3, <1>b DEF MediaInv, MadeHavePeers, Rooms
<1>7. RoomIsLost => RoomIsLost'
  BY <1>5, <1>6 DEF RoomIsLost
<1> QED
  BY <1>1, <1>2, <1>3, <1>5, <1>7

\* What it does to the joins: only its own moves, and only its last turn answers it.
LEMMA JoinsAnswer ==
    ASSUME MediaInv, NEW c \in Clients, Joins(c)
    PROVE  /\ \A d \in Clients : d # c => client'[d] = client[d] /\ (d \in gone' <=> d \in gone)
           /\ client'[c].stage = "joined" => RecvReady(c)
<1>1. client \in [Clients -> JoinState]
  BY DEF MediaInv, MediaTypeOK
<1>2. \A d \in Clients : d # c => client'[d] = client[d] /\ (d \in gone' <=> d \in gone)
  BY <1>1 DEF Joins, JoinRoom, RouterReady, SendReady, RecvReady, TransportLost, MediasoupRefuses
<1>3. CASE JoinRoom(c)
  <2>1. client'[c] = IF RoomIsMissing
                       THEN [stage |-> "router", held |-> NoRoom, on |-> NoRoom]
                       ELSE [stage |-> "send", held |-> room, on |-> room]
    BY <1>1, <1>3 DEF JoinRoom
  <2> QED
    BY <1>2, <2>1
<1>4. CASE RouterReady(c)
  <2>1. client'[c] = [stage |-> "send", held |-> made + 1, on |-> made + 1]
    BY <1>1, <1>4 DEF RouterReady
  <2> QED
    BY <1>2, <2>1
<1>5. CASE SendReady(c)
  <2>1. client'[c].stage = "recv"
    BY <1>1, <1>5 DEF SendReady, JoinState
  <2> QED
    BY <1>2, <1>5, <2>1
<1>6. CASE RecvReady(c)
  <2>1. client'[c].stage \in {"joined", "failed"}
    BY <1>1, <1>6 DEF RecvReady, JoinState
  <2> QED
    BY <1>2, <1>6, <2>1
<1>7. CASE TransportLost(c) \/ MediasoupRefuses(c)
  <2>1. client'[c].stage = "failed"
    BY <1>1, <1>7 DEF TransportLost, MediasoupRefuses, JoinState
  <2> QED
    BY <1>2, <2>1
<1> QED
  BY <1>3, <1>4, <1>5, <1>6, <1>7 DEF Joins

\* Nothing is open before the first join.
LEMMA StreamInitInv == StreamInit => StreamInv
<1> SUFFICES ASSUME StreamInit PROVE StreamInv
  OBVIOUS
<1>1. MediaInv
  BY MediaInitInv DEF StreamInit
<1>2. StreamTypeOK
  BY DEF StreamInit, StreamTypeOK, Nothing
<1>3. room = NoRoom /\ \A c \in Clients : client[c].stage = "out"
  BY DEF StreamInit, MediaInit, Out
<1>4. OwnersInv
  BY DEF StreamInit, OwnersInv
<1>5. JoinsInv /\ MembersAreUpToDate
  BY <1>3 DEF JoinsInv, MembersAreUpToDate
<1>6. ConsumersInv
  BY <1>3 DEF StreamInit, ConsumersInv, Nothing
<1> QED
  BY <1>1, <1>2, <1>4, <1>5, <1>6 DEF StreamInv

-----------------------------------------------------------------------------
(* What the steps of the streams write *)

\* A producer is made.
LEMMA ReadyWrites ==
    ASSUME MediaInv, StreamTypeOK, NEW c \in Clients, StreamReady(c), c \notin parted
    PROVE  /\ producing[c] \in Rooms /\ opened + 1 \in Nat
           /\ producers' \in [Rooms -> [Clients -> SUBSET Nat]]
           /\ producers'[producing[c]][c] = producers[producing[c]][c] \cup {opened + 1}
           /\ \A q \in Rooms, d \in Clients :
                 q # producing[c] \/ d # c => producers'[q][d] = producers[q][d]
<1>1. producing[c] \in Rooms /\ opened + 1 \in Nat
  BY DEF MediaInv, MediaTypeOK, StreamTypeOK, StreamReady, ProducerReady
<1> DEFINE v == producers[producing[c]][c] \cup {opened + 1}
<1>2. v \in SUBSET Nat /\ producers \in [Rooms -> [Clients -> SUBSET Nat]]
  BY <1>1 DEF StreamTypeOK
<1>3. producers' = [producers EXCEPT ![producing[c]][c] = v]
  BY DEF StreamReady
<1> HIDE DEF v
<1>4. /\ producers' \in [Rooms -> [Clients -> SUBSET Nat]]
      /\ producers'[producing[c]][c] = v
      /\ \A q \in Rooms, d \in Clients :
            q # producing[c] \/ d # c => producers'[q][d] = producers[q][d]
  BY <1>1, <1>2, <1>3, OneEntryWritten
<1> QED
  BY <1>1, <1>4 DEF v

\* The producers of a peer are closed: of one that leaves, or of the seller.
LEMMA ClosingWrites ==
    ASSUME MediaInv, StreamTypeOK, NEW c \in Clients, room # NoRoom,
           producers' = [producers EXCEPT ![room][c] = {}]
    PROVE  /\ room \in Rooms
           /\ producers' \in [Rooms -> [Clients -> SUBSET Nat]]
           /\ producers'[room][c] = {}
           /\ \A q \in Rooms, d \in Clients :
                 q # room \/ d # c => producers'[q][d] = producers[q][d]
<1>1. room \in Rooms
  BY RoomsAreMade DEF MediaInv
<1>2. producers \in [Rooms -> [Clients -> SUBSET Nat]]
  BY DEF StreamTypeOK
<1>3. {} \in SUBSET Nat
  OBVIOUS
<1> QED
  BY <1>1, <1>2, <1>3, OneEntryWritten

\* Its consumers go with it.
LEMMA LeavingWrites ==
    ASSUME MediaInv, StreamTypeOK, NEW c \in Clients, StreamLeave(c)
    PROVE  /\ consumers' \in [Rooms -> [Clients -> SUBSET Nat]]
           /\ consumers'[room][c] = {}
           /\ \A q \in Rooms, d \in Clients :
                 q # room \/ d # c => consumers'[q][d] = consumers[q][d]
<1>1. room \in Rooms
  BY RoomsAreMade DEF MediaInv, StreamLeave, LeaveRoom
<1>2. consumers \in [Rooms -> [Clients -> SUBSET Nat]]
  BY DEF StreamTypeOK
<1>3. {} \in SUBSET Nat /\ consumers' = [consumers EXCEPT ![room][c] = {}]
  BY DEF StreamLeave
<1> QED
  BY <1>1, <1>2, <1>3, OneEntryWritten

\* A consumer is made.
LEMMA ConsumerWrites ==
    ASSUME StreamTypeOK, NEW c \in Clients, ConsumerReady(c)
    PROVE  /\ consuming[c].room \in Rooms
           /\ consumers' \in [Rooms -> [Clients -> SUBSET Nat]]
           /\ consumers'[consuming[c].room][c] =
                 consumers[consuming[c].room][c] \cup {consuming[c].producer}
           /\ \A q \in Rooms, d \in Clients :
                 q # consuming[c].room \/ d # c => consumers'[q][d] = consumers[q][d]
<1>1. consuming[c].room \in Rooms /\ consuming[c].producer \in Nat
  BY DEF StreamTypeOK, ConsumerReady
<1> DEFINE v == consumers[consuming[c].room][c] \cup {consuming[c].producer}
<1>2. v \in SUBSET Nat /\ consumers \in [Rooms -> [Clients -> SUBSET Nat]]
  BY <1>1 DEF StreamTypeOK
<1>3. consumers' = [consumers EXCEPT ![consuming[c].room][c] = v]
  BY DEF ConsumerReady
<1> HIDE DEF v
<1>4. /\ consumers' \in [Rooms -> [Clients -> SUBSET Nat]]
      /\ consumers'[consuming[c].room][c] = v
      /\ \A q \in Rooms, d \in Clients :
            q # consuming[c].room \/ d # c => consumers'[q][d] = consumers[q][d]
  BY <1>1, <1>2, <1>3, OneEntryWritten
<1> QED
  BY <1>1, <1>4 DEF v

-----------------------------------------------------------------------------
(* The steps keep the types *)

\* Every step writes values of the right type.
LEMMA StreamTypesKeep ==
    ASSUME MediaInv, StreamTypeOK, [StreamNext]_<<mediaVars, streamVars>>
    PROVE  StreamTypeOK'
<1>r. room # NoRoom => room \in Rooms
  BY RoomsAreMade DEF MediaInv
<1>m. /\ peers \in [Rooms -> SUBSET Clients] /\ seller \in [Rooms -> Clients \cup {NoClient}]
      /\ NoClient \notin Clients
  BY MediaBounds DEF MediaInv, MediaTypeOK
<1>1. ASSUME UNCHANGED streamVars PROVE StreamTypeOK'
  BY <1>1 DEF streamVars, StreamTypeOK
<1>2. ASSUME NEW c \in Clients, StreamJoin(c) PROVE StreamTypeOK'
  <2>1. known' \in [Clients -> SUBSET Nat] /\ told' \in [Clients -> BOOLEAN]
    <3>1. CASE UNCHANGED <<known, told>>
      BY <3>1 DEF StreamTypeOK
    <3>2. CASE ~UNCHANGED <<known, told>>
      <4>1. client[c].held \in Rooms
        BY <1>2 DEF StreamJoin, RecvReady, MediaInv, MediaTypeOK, JoinState, Directions
      <4>2. Collected(c) \in SUBSET Nat
        BY <4>1, <1>m DEF Collected, StreamTypeOK
      <4>3. agreed[client[c].held] \in BOOLEAN
        BY <4>1 DEF StreamTypeOK
      <4>4. /\ known' = [known EXCEPT ![c] = Collected(c)]
            /\ told' = [told EXCEPT ![c] = agreed[client[c].held]]
        BY <1>2, <3>2 DEF StreamJoin
      <4>5. known' \in [Clients -> SUBSET Nat]
        BY <4>2, <4>4 DEF StreamTypeOK
      <4>6. told' \in [Clients -> BOOLEAN]
        BY <4>3, <4>4 DEF StreamTypeOK
      <4> QED
        BY <4>5, <4>6
    <3> QED
      BY <3>1, <3>2
  <2> QED
    BY <1>2, <2>1 DEF StreamJoin, StreamTypeOK
<1>3. ASSUME NEW c \in Clients, StreamLeave(c) PROVE StreamTypeOK'
  <2>1. /\ room # NoRoom /\ room \in Rooms
        /\ producers' = [producers EXCEPT ![room][c] = {}]
    BY <1>3, <1>r DEF StreamLeave, LeaveRoom
  <2>2. producers' \in [Rooms -> [Clients -> SUBSET Nat]]
    BY <2>1, ClosingWrites
  <2>3. consumers' \in [Rooms -> [Clients -> SUBSET Nat]]
    BY <1>3, LeavingWrites
  <2>4. producers[room][c] \in SUBSET Nat
    BY <2>1 DEF StreamTypeOK
  <2>5. known' \in [Clients -> SUBSET Nat]
    BY <1>3 DEF StreamLeave, StreamTypeOK
  <2>6. excused' \in [Clients -> SUBSET Nat]
    BY <1>3, <2>4 DEF StreamLeave, StreamTypeOK
  <2>7. told' \in [Clients -> BOOLEAN]
    BY <1>3 DEF StreamLeave, StreamTypeOK
  <2>8. /\ consuming' \in [Clients -> [room : Rooms \cup {NoRoom}, producer : Nat]]
        /\ \A d \in Clients : consuming'[d] # Nothing => consuming'[d].room # NoRoom
    BY <1>3 DEF StreamLeave, StreamTypeOK, Nothing
  <2>9. sockets' \subseteq Clients /\ parted' \subseteq Clients /\ passed' \subseteq Nat
    BY <1>3 DEF StreamLeave, StreamTypeOK
  <2>10. agreed' = agreed /\ declined' = declined /\ opened' = opened
    BY <1>3 DEF StreamLeave
  <2> QED
    BY <2>2, <2>3, <2>5, <2>6, <2>7, <2>8, <2>9, <2>10 DEF StreamTypeOK
<1>4. ASSUME NEW c \in Clients, StreamProduce(c) PROVE StreamTypeOK'
  BY <1>4 DEF StreamProduce, StreamTypeOK
<1>5. ASSUME NEW c \in Clients, StreamReady(c) PROVE StreamTypeOK'
  <2>1. producing[c] \in Rooms /\ opened + 1 \in Nat
    BY <1>5 DEF MediaInv, MediaTypeOK, StreamTypeOK, StreamReady, ProducerReady
  <2>2. producers' \in [Rooms -> [Clients -> SUBSET Nat]]
    BY <1>5, ReadyWrites DEF StreamReady, StreamTypeOK
  <2>3. known' \in [Clients -> SUBSET Nat]
    <3>1. CASE c \in parted
      BY <1>5, <3>1 DEF StreamReady, StreamTypeOK
    <3>2. CASE c \notin parted
      <4>1. known' = [d \in Clients |->
                         IF d \in sockets \ {c} THEN known[d] \cup {opened + 1} ELSE known[d]]
        BY <1>5, <3>2 DEF StreamReady
      <4>2. \A d \in Clients : known[d] \in SUBSET Nat /\ known[d] \cup {opened + 1} \in SUBSET Nat
        BY <2>1 DEF StreamTypeOK
      <4> QED
        BY <4>1, <4>2
    <3> QED
      BY <3>1, <3>2
  <2>4. Displaced(c, producing[c]) \in SUBSET Nat
    BY <1>m, <2>1 DEF Displaced, StreamTypeOK
  <2>5. passed' \subseteq Nat /\ opened' \in Nat
    BY <1>5, <2>1, <2>4 DEF StreamReady, StreamTypeOK
  <2>6. UNCHANGED <<sockets, agreed, declined, told, parted, consuming, consumers, excused>>
    BY <1>5 DEF StreamReady
  <2> QED
    BY <2>2, <2>3, <2>5, <2>6 DEF StreamTypeOK
<1>6. ASSUME StreamStop PROVE StreamTypeOK'
  <2>1. /\ room # NoRoom /\ room \in Rooms /\ seller[room] \in Clients
        /\ producers' = [producers EXCEPT ![room][seller[room]] = {}]
    BY <1>6, <1>r, <1>m DEF StreamStop, StopPrevProducer
  <2>2. producers' \in [Rooms -> [Clients -> SUBSET Nat]]
    BY <2>1, ClosingWrites
  <2>3. consumers' \in [Rooms -> [Clients -> SUBSET Nat]]
    <3>1. [d \in Clients |-> {}] \in [Clients -> SUBSET Nat]
      OBVIOUS
    <3>2. consumers' = [consumers EXCEPT ![room] = [d \in Clients |-> {}]]
      BY <1>6 DEF StreamStop, ConsumersClosed
    <3> QED
      BY <2>1, <3>1, <3>2 DEF StreamTypeOK
  <2>4. producers[room][seller[room]] \in SUBSET Nat
    BY <2>1 DEF StreamTypeOK
  <2>5. known' \in [Clients -> SUBSET Nat] /\ passed' \subseteq Nat
    BY <1>6 DEF StreamStop, StreamTypeOK
  <2>6. excused' \in [Clients -> SUBSET Nat]
    BY <1>6, <2>4 DEF StreamStop, StreamTypeOK
  <2>7. UNCHANGED <<sockets, agreed, declined, told, opened, parted, consuming>>
    BY <1>6 DEF StreamStop
  <2> QED
    BY <2>2, <2>3, <2>5, <2>6, <2>7 DEF StreamTypeOK
<1>7. ASSUME NEW c \in Clients, NEW p \in Producers, Consume(c, p) PROVE StreamTypeOK'
  <2>1. p \in Nat /\ room \in Rooms /\ room # NoRoom
    BY <1>7, <1>r, StreamBounds DEF Consume, Producers
  <2>2. [producer |-> p, room |-> room] \in [room : Rooms \cup {NoRoom}, producer : Nat]
    BY <2>1
  <2>3. consuming' = [consuming EXCEPT ![c] = [producer |-> p, room |-> room]]
    BY <1>7 DEF Consume
  <2>4. consuming' \in [Clients -> [room : Rooms \cup {NoRoom}, producer : Nat]]
    BY <2>2, <2>3 DEF StreamTypeOK
  <2>5. \A d \in Clients : consuming'[d] # Nothing => consuming'[d].room # NoRoom
    BY <2>1, <2>3 DEF StreamTypeOK
  <2> QED
    BY <1>7, <2>4, <2>5 DEF Consume, StreamTypeOK
<1>8. ASSUME NEW c \in Clients, ConsumerReady(c) \/ ConsumerRefused(c) PROVE StreamTypeOK'
  <2>1. Nothing \in [room : Rooms \cup {NoRoom}, producer : Nat]
    BY DEF Nothing
  <2>2. consuming' = [consuming EXCEPT ![c] = Nothing]
    BY <1>8 DEF ConsumerReady, ConsumerRefused
  <2>3. consuming' \in [Clients -> [room : Rooms \cup {NoRoom}, producer : Nat]]
    BY <2>1, <2>2 DEF StreamTypeOK
  <2>4. \A d \in Clients : consuming'[d] # Nothing => consuming'[d].room # NoRoom
    BY <2>2 DEF StreamTypeOK
  <2>5. consumers' \in [Rooms -> [Clients -> SUBSET Nat]]
    BY <1>8, ConsumerWrites DEF ConsumerRefused, StreamTypeOK
  <2>6. UNCHANGED <<sockets, agreed, declined, told, opened, producers, parted, known, passed, excused>>
    BY <1>8 DEF ConsumerReady, ConsumerRefused
  <2> QED
    BY <2>3, <2>4, <2>5, <2>6 DEF StreamTypeOK
<1>9. ASSUME NEW answer \in BOOLEAN, SellerAgreed(answer) PROVE StreamTypeOK'
  <2>1. agreed' \in [Rooms -> BOOLEAN]
    BY <1>9, Zenon DEF SellerAgreed, StreamTypeOK
  <2>2. told' \in [Clients -> BOOLEAN]
    BY <1>9, Zenon DEF SellerAgreed, TellAll, StreamTypeOK
  <2>3. declined' \subseteq Rooms
    BY <1>9 DEF SellerAgreed, StreamTypeOK
  <2> QED
    BY <1>9, <2>1, <2>2, <2>3 DEF SellerAgreed, StreamTypeOK
<1>10. ASSUME SellerDisagreedCamera PROVE StreamTypeOK'
  <2>1. told' \in [Clients -> BOOLEAN]
    BY <1>10, Zenon DEF SellerDisagreedCamera, TellAll, StreamTypeOK
  <2>2. declined' \subseteq Rooms
    BY <1>10, <1>r DEF SellerDisagreedCamera, StreamTypeOK
  <2> QED
    BY <1>10, <2>1, <2>2 DEF SellerDisagreedCamera, StreamTypeOK
<1> QED
  BY <1>1, <1>2, <1>3, <1>4, <1>5, <1>6, <1>7, <1>8, <1>9, <1>10 DEF StreamNext

-----------------------------------------------------------------------------
(* The steps keep the owners *)

\* The producers of one peer are closed, and those of them that were passed forgotten.
LEMMA ClosingKeepsOwners ==
    ASSUME MediaInv, StreamTypeOK, OwnersInv, NEW c \in Clients, room # NoRoom,
           producers' = [producers EXCEPT ![room][c] = {}],
           passed' = passed \ producers[room][c], opened' = opened, producing' = producing,
           \A d \in parted' : d \in parted \/ (d = c /\ producing[c] = room),
           \A r \in Rooms, d \in Clients :
              d # seller'[r] => d # seller[r] \/ (r = room /\ d = c)
    PROVE  OwnersInv'
<1>1. /\ room \in Rooms /\ producers'[room][c] = {}
      /\ \A q \in Rooms, d \in Clients :
            q # room \/ d # c => producers'[q][d] = producers[q][d]
  BY ClosingWrites
<1>2. \A q \in Rooms, d \in Clients : producers'[q][d] \subseteq producers[q][d]
  BY <1>1
<1>t. \A q \in Rooms, d \in Clients : producers[q][d] \subseteq Nat
  BY DEF StreamTypeOK
<1>3. \A r \in Rooms, d \in Clients, p \in Nat : p \in producers'[r][d] => p <= opened'
  BY <1>2 DEF OwnersInv
<1>4. \A q, r \in Rooms, d, e \in Clients, p \in Nat :
         p \in producers'[q][d] /\ p \in producers'[r][e] => q = r /\ d = e
  BY <1>2 DEF OwnersInv
<1>5. ASSUME NEW r \in Rooms, NEW d \in Clients, d # seller'[r], NEW p \in producers'[r][d]
      PROVE  p \in passed'
  <2>1. p \in producers[r][d] /\ (r # room \/ d # c) /\ p \in Nat
    BY <1>1, <1>2, <1>5, <1>t
  <2>2. p \in passed
    BY <1>5, <2>1 DEF OwnersInv
  <2>3. p \notin producers[room][c]
    BY <1>1, <2>1 DEF OwnersInv
  <2> QED
    BY <2>2, <2>3
<1>6. ASSUME NEW d \in Clients, d \in parted', producing'[d] # NoRoom
      PROVE  producers'[producing'[d]][d] = {}
  <2>1. producing[d] \in Rooms /\ producing'[d] = producing[d]
    BY <1>6 DEF MediaInv, MediaTypeOK
  <2>2. CASE d \in parted
    BY <1>2, <1>6, <2>1, <2>2 DEF OwnersInv
  <2>3. CASE d = c /\ producing[c] = room
    BY <1>1, <2>1, <2>3
  <2> QED
    BY <1>6, <2>2, <2>3
<1> QED
  BY <1>3, <1>4, <1>5, <1>6 DEF OwnersInv

\* The new producer is its client's, who sells now; those of the seller before are noted.
LEMMA ReadyKeepsOwners ==
    ASSUME MediaInv, StreamTypeOK, OwnersInv, NEW c \in Clients, StreamReady(c)
    PROVE  OwnersInv'
<1>1. /\ producing[c] \in Rooms /\ opened \in Nat /\ opened' = opened + 1
      /\ seller' = [seller EXCEPT ![producing[c]] = c]
      /\ producing' = [producing EXCEPT ![c] = NoRoom]
      /\ passed' = passed \cup Displaced(c, producing[c]) /\ parted' = parted
  BY DEF MediaInv, MediaTypeOK, StreamTypeOK, StreamReady, ProducerReady
<1>t. /\ seller \in [Rooms -> Clients \cup {NoClient}]
      /\ producing \in [Clients -> Rooms \cup {NoRoom}]
      /\ \A q \in Rooms, d \in Clients : producers[q][d] \subseteq Nat
  BY DEF MediaInv, MediaTypeOK, StreamTypeOK
<1>2. \A q \in Rooms, d \in Clients, p \in Nat :
         p \in producers'[q][d] =>
             \/ p \in producers[q][d]
             \/ p = opened + 1 /\ q = producing[c] /\ d = c
  <2>1. CASE c \in parted
    BY <2>1 DEF StreamReady
  <2>2. CASE c \notin parted
    BY <1>1, <2>2, ReadyWrites
  <2> QED
    BY <2>1, <2>2
<1>3. \A r \in Rooms, d \in Clients, p \in Nat : p \in producers'[r][d] => p <= opened'
  BY <1>1, <1>2 DEF OwnersInv
<1>4. \A q, r \in Rooms, d, e \in Clients, p \in Nat :
         p \in producers'[q][d] /\ p \in producers'[r][e] => q = r /\ d = e
  <2>1. \A q \in Rooms, d \in Clients : opened + 1 \notin producers[q][d]
    BY <1>1 DEF OwnersInv
  <2> QED
    BY <1>2, <2>1 DEF OwnersInv
<1>5. ASSUME NEW r \in Rooms, NEW d \in Clients, d # seller'[r]
      PROVE  producers'[r][d] \subseteq passed'
  <2>1. r # producing[c] \/ d # c
    BY <1>1, <1>5, <1>t
  <2>2. producers'[r][d] = producers[r][d]
    <3>1. CASE c \in parted
      BY <3>1 DEF StreamReady
    <3>2. CASE c \notin parted
      BY <2>1, <3>2, ReadyWrites
    <3> QED
      BY <3>1, <3>2
  <2>3. CASE d # seller[r]
    BY <1>1, <2>2, <2>3 DEF OwnersInv
  <2>4. CASE d = seller[r]
    <3>1. r = producing[c]
      BY <1>1, <1>5, <1>t, <2>4
    <3>2. Displaced(c, r) = producers[r][d]
      BY <2>1, <2>4, <3>1, MediaBounds DEF Displaced
    <3> QED
      BY <1>1, <2>2, <3>1, <3>2
  <2> QED
    BY <2>3, <2>4
<1>6. ASSUME NEW d \in Clients, d \in parted', producing'[d] # NoRoom
      PROVE  producers'[producing'[d]][d] = {}
  <2>1. d # c /\ producing'[d] = producing[d] /\ producing[d] \in Rooms
    BY <1>1, <1>6, <1>t
  <2>2. producers'[producing[d]][d] = producers[producing[d]][d]
    <3>1. CASE c \in parted
      BY <3>1 DEF StreamReady
    <3>2. CASE c \notin parted
      BY <2>1, <3>2, ReadyWrites
    <3> QED
      BY <3>1, <3>2
  <2> QED
    BY <1>1, <1>6, <2>1, <2>2 DEF OwnersInv
<1> QED
  BY <1>3, <1>4, <1>5, <1>6 DEF OwnersInv

\* Only closing and making a producer, and waiting for one, concern its owner.
LEMMA OwnersKeep ==
    ASSUME MediaInv, StreamTypeOK, OwnersInv, [StreamNext]_<<mediaVars, streamVars>>
    PROVE  OwnersInv'
<1>1. ASSUME UNCHANGED <<producers, opened, passed, parted, seller, producing>>
      PROVE  OwnersInv'
  BY <1>1 DEF OwnersInv
<1>2. ASSUME NEW c \in Clients,
             UNCHANGED <<producers, opened, passed, parted, seller>>,
             producing' = [producing EXCEPT ![c] = NoRoom]
      PROVE  OwnersInv'
  <2>1. \A d \in Clients : producing'[d] # NoRoom => producing'[d] = producing[d]
    BY <1>2 DEF MediaInv, MediaTypeOK
  <2> QED
    BY <1>2, <2>1 DEF OwnersInv
<1>3. ASSUME NEW c \in Clients, Joins(c), UNCHANGED streamVars PROVE OwnersInv'
  BY <1>1, <1>3, JoinsMove DEF streamVars
<1>4. ASSUME NEW c \in Clients, ProducerRefused(c), UNCHANGED streamVars PROVE OwnersInv'
  BY <1>2, <1>4 DEF ProducerRefused, streamVars
<1>5. ASSUME NEW c \in Clients, StreamJoin(c) PROVE OwnersInv'
  <2>1. Joins(c)
    BY <1>5 DEF StreamJoin, Joins
  <2> QED
    BY <1>1, <1>5, <2>1, JoinsMove DEF StreamJoin
<1>6. ASSUME NEW c \in Clients, StreamLeave(c) PROVE OwnersInv'
  <2>1. /\ room # NoRoom /\ producers' = [producers EXCEPT ![room][c] = {}]
        /\ passed' = passed \ producers[room][c] /\ opened' = opened
        /\ producing' = producing /\ seller' = seller
        /\ parted' = IF producing[c] = room THEN parted \cup {c} ELSE parted
    BY <1>6 DEF StreamLeave, LeaveRoom
  <2> QED
    BY <2>1, ClosingKeepsOwners
<1>7. ASSUME NEW c \in Clients, StreamProduce(c) PROVE OwnersInv'
  <2>1. \A d \in Clients : d \in parted' => d \in parted /\ producing'[d] = producing[d]
    BY <1>7 DEF StreamProduce, Produce, MediaInv, MediaTypeOK
  <2> QED
    BY <1>7, <2>1 DEF StreamProduce, Produce, OwnersInv
<1>8. ASSUME NEW c \in Clients, StreamReady(c) PROVE OwnersInv'
  BY <1>8, ReadyKeepsOwners
<1>9. ASSUME StreamStop PROVE OwnersInv'
  <2>1. /\ room # NoRoom /\ producers' = [producers EXCEPT ![room][seller[room]] = {}]
        /\ passed' = passed \ producers[room][seller[room]] /\ opened' = opened
        /\ producing' = producing /\ seller' = [seller EXCEPT ![room] = NoClient]
        /\ parted' = parted /\ seller[room] \in peers[room]
    BY <1>9 DEF StreamStop, StopPrevProducer
  <2>2. room \in Rooms /\ seller[room] \in Clients
    BY <2>1, RoomsAreMade DEF MediaInv, MediaTypeOK
  <2>3. \A r \in Rooms, d \in Clients :
           d # seller'[r] => d # seller[r] \/ (r = room /\ d = seller[room])
    BY <2>1, <2>2 DEF MediaInv, MediaTypeOK
  <2> QED
    BY <2>1, <2>2, <2>3, ClosingKeepsOwners
<1>10. ASSUME NEW c \in Clients, NEW p \in Producers, Consume(c, p) PROVE OwnersInv'
  BY <1>1, <1>10 DEF Consume, mediaVars
<1>11. ASSUME NEW c \in Clients, ConsumerReady(c) \/ ConsumerRefused(c) PROVE OwnersInv'
  BY <1>1, <1>11 DEF ConsumerReady, ConsumerRefused, mediaVars
<1>12. ASSUME NEW answer \in BOOLEAN, SellerAgreed(answer) PROVE OwnersInv'
  BY <1>1, <1>12 DEF SellerAgreed, mediaVars
<1>13. ASSUME UNCHANGED <<mediaVars, streamVars>> PROVE OwnersInv'
  BY <1>1, <1>13 DEF mediaVars, streamVars
<1>14. ASSUME SellerDisagreedCamera PROVE OwnersInv'
  BY <1>1, <1>14 DEF SellerDisagreedCamera, mediaVars
<1> QED
  BY <1>3, <1>4, <1>5, <1>6, <1>7, <1>8, <1>9, <1>10, <1>11, <1>12, <1>13, <1>14
     DEF StreamNext, Joins

-----------------------------------------------------------------------------
(* The steps keep the consumers *)

\* Who joins changes no consumer, and a new room has none.
LEMMA JoinsKeepConsumers ==
    ASSUME MediaInv, StreamTypeOK, ConsumersInv, NEW c \in Clients, Joins(c),
           UNCHANGED <<producers, consumers, consuming, excused>>
    PROVE  ConsumersInv'
<1>1. /\ made \in Nat /\ made' \in Nat /\ made <= made'
      /\ \A r \in Rooms : peers[r] \subseteq peers'[r]
      /\ \/ room' = room
         \/ room' = made + 1 /\ made + 1 \in Rooms /\ peers' = peers
  BY JoinsMove
<1>2. \A d \in Clients : consuming[d].room \in Rooms \cup {NoRoom}
  BY DEF StreamTypeOK
<1>3. \A r \in Rooms, d \in Clients : consumers'[r][d] # {} => d \in peers'[r]
  BY <1>1 DEF ConsumersInv
<1>4. \A d \in Clients :
         consuming'[d].room # NoRoom =>
             consuming'[d].room <= made' /\ d \in peers'[consuming'[d].room]
  <2> SUFFICES ASSUME NEW d \in Clients, consuming'[d].room # NoRoom
               PROVE  consuming'[d].room <= made' /\ d \in peers'[consuming'[d].room]
    OBVIOUS
  <2>1. consuming[d].room \in Rooms /\ consuming[d].room <= made /\ d \in peers[consuming[d].room]
    BY <1>2 DEF ConsumersInv
  <2>2. consuming[d].room \in Nat /\ made' \in Nat
    BY <1>1, <2>1, RoomNumbers
  <2> QED
    BY <1>1, <2>1, <2>2
<1>5. room' # NoRoom =>
         \A d \in Clients :
             /\ consumers'[room'][d] \subseteq OpenIn(room)' \cup excused'[d]
             /\ consuming'[d].room = room' =>
                   consuming'[d].producer \in OpenIn(room)' \cup excused'[d]
  <2>1. CASE room' = room
    BY <2>1 DEF ConsumersInv, OpenIn
  <2>2. CASE room' = made + 1 /\ made + 1 \in Rooms /\ peers' = peers
    <3>1. peers[made + 1] = {}
      BY <1>1, <2>2 DEF MediaInv, MadeHavePeers
    <3>2. \A d \in Clients : consumers[made + 1][d] = {} /\ consuming[d].room # made + 1
      BY <1>1, <2>2, <3>1, RoomNumbers DEF ConsumersInv
    <3> QED
      BY <2>2, <3>2
  <2> QED
    BY <1>1, <2>1, <2>2
<1> QED
  BY <1>3, <1>4, <1>5 DEF ConsumersInv

\* Who leaves takes its consumers along; those of its producers are excused.
LEMMA LeaveKeepsConsumers ==
    ASSUME MediaInv, StreamTypeOK, ConsumersInv, NEW c \in Clients, StreamLeave(c)
    PROVE  ConsumersInv'
<1>1. /\ room # NoRoom /\ room \in Rooms /\ made' = made
      /\ producers' = [producers EXCEPT ![room][c] = {}]
      /\ room' \in {room, NoRoom}
      /\ peers' = [peers EXCEPT ![room] = peers[room] \ {c}]
  BY RoomsAreMade DEF MediaInv, StreamLeave, LeaveRoom, RoomUnlessEmpty, WithoutPeer
<1>t. /\ peers \in [Rooms -> SUBSET Clients]
      /\ consuming \in [Clients -> [room : Rooms \cup {NoRoom}, producer : Nat]]
  BY DEF MediaInv, MediaTypeOK, StreamTypeOK
<1>2. \A r \in Rooms, d \in Clients : r # room \/ d # c => (d \in peers'[r] <=> d \in peers[r])
  BY <1>1, <1>t
<1>3. /\ consumers'[room][c] = {}
      /\ \A r \in Rooms, d \in Clients : r # room \/ d # c => consumers'[r][d] = consumers[r][d]
  BY LeavingWrites
<1>4. \A d \in Clients : consuming'[d] = consuming[d] \/ (d = c /\ consuming'[d] = Nothing)
  BY <1>t DEF StreamLeave
<1>5. consuming'[c].room # room
  BY <1>1, <1>t DEF StreamLeave, Nothing
<1>6. \A d \in Clients :
         d # c => excused'[d] = excused[d] \cup
                     (producers[room][c] \cap (consumers[room][d] \cup {consuming[d].producer}))
  BY DEF StreamLeave
<1>7. \A x \in OpenIn(room) : x \in UNION {producers'[room][d] : d \in Clients} \/ x \in producers[room][c]
  <2> SUFFICES ASSUME NEW x \in OpenIn(room), x \notin producers[room][c]
               PROVE  x \in UNION {producers'[room][d] : d \in Clients}
    BY <1>1 DEF OpenIn
  <2>1. PICK d \in Clients : x \in producers[room][d]
    BY DEF OpenIn
  <2>2. producers'[room][d] = producers[room][d]
    BY <1>1, <2>1, ClosingWrites
  <2> QED
    BY <2>1, <2>2
<1>8. \A r \in Rooms, d \in Clients : consumers'[r][d] # {} => d \in peers'[r]
  BY <1>2, <1>3 DEF ConsumersInv
<1>9. \A d \in Clients :
         consuming'[d].room # NoRoom =>
             consuming'[d].room <= made' /\ d \in peers'[consuming'[d].room]
  <2> SUFFICES ASSUME NEW d \in Clients, consuming'[d].room # NoRoom
               PROVE  consuming'[d].room <= made' /\ d \in peers'[consuming'[d].room]
    OBVIOUS
  <2>1. consuming'[d] = consuming[d]
    BY <1>4 DEF Nothing
  <2>2. consuming[d].room \in Rooms /\ (consuming[d].room # room \/ d # c)
    BY <1>5, <1>t, <2>1
  <2>3. consuming[d].room <= made /\ d \in peers[consuming[d].room]
    BY <2>1 DEF ConsumersInv
  <2> QED
    BY <1>1, <1>2, <2>1, <2>2, <2>3
<1>10. ASSUME room' # NoRoom, NEW d \in Clients
       PROVE  /\ consumers'[room'][d] \subseteq OpenIn(room)' \cup excused'[d]
              /\ consuming'[d].room = room' =>
                    consuming'[d].producer \in OpenIn(room)' \cup excused'[d]
  <2>1. room' = room
    BY <1>1, <1>10
  <2>2. CASE d = c
    BY <1>3, <1>5, <2>1, <2>2
  <2>3. CASE d # c
    <3>1. /\ consumers'[room][d] = consumers[room][d] /\ consuming'[d] = consuming[d]
          /\ consumers[room][d] \subseteq OpenIn(room) \cup excused[d]
          /\ consuming[d].room = room => consuming[d].producer \in OpenIn(room) \cup excused[d]
      BY <1>1, <1>3, <1>4, <2>3 DEF ConsumersInv
    <3>a. OpenIn(room)' = UNION {producers'[room][e] : e \in Clients}
      BY <2>1 DEF OpenIn
    <3>2. consumers'[room][d] \subseteq OpenIn(room)' \cup excused'[d]
      BY <1>6, <1>7, <2>3, <3>1, <3>a
    <3>3. consuming'[d].room = room => consuming'[d].producer \in OpenIn(room)' \cup excused'[d]
      BY <1>6, <1>7, <2>3, <3>1, <3>a
    <3> QED
      BY <2>1, <3>2, <3>3
  <2> QED
    BY <2>2, <2>3
<1> QED
  BY <1>8, <1>9, <1>10 DEF ConsumersInv

\* A stop closes all consumers, and excuses who still waits for one.
LEMMA StopKeepsConsumers ==
    ASSUME MediaInv, StreamTypeOK, ConsumersInv, StreamStop
    PROVE  ConsumersInv'
<1>1. /\ room # NoRoom /\ made' = made /\ room' = room /\ peers' = peers /\ consuming' = consuming
      /\ producers' = [producers EXCEPT ![room][seller[room]] = {}]
      /\ seller[room] \in peers[room]
  BY DEF StreamStop, StopPrevProducer
<1>2. room \in Rooms /\ seller[room] \in Clients
  BY <1>1, RoomsAreMade DEF MediaInv, MediaTypeOK
<1>3. /\ \A d \in Clients : consumers'[room][d] = {}
      /\ \A r \in Rooms : r # room => consumers'[r] = consumers[r]
  BY <1>2 DEF StreamTypeOK, StreamStop, ConsumersClosed
<1>4. \A d \in Clients :
         excused'[d] = (excused[d] \cup producers[room][seller[room]]) \cap {consuming[d].producer}
  BY DEF StreamStop
<1>5. \A x \in OpenIn(room) : x \in UNION {producers'[room][d] : d \in Clients} \/ x \in producers[room][seller[room]]
  <2> SUFFICES ASSUME NEW x \in OpenIn(room), x \notin producers[room][seller[room]]
               PROVE  x \in UNION {producers'[room][d] : d \in Clients}
    BY <1>1 DEF OpenIn
  <2>1. PICK d \in Clients : x \in producers[room][d]
    BY DEF OpenIn
  <2>2. producers'[room][d] = producers[room][d]
    BY <1>1, <1>2, <2>1, ClosingWrites
  <2> QED
    BY <2>1, <2>2
<1>6. \A r \in Rooms, d \in Clients : consumers'[r][d] # {} => d \in peers'[r]
  BY <1>1, <1>3 DEF ConsumersInv
<1>7. \A d \in Clients :
         consuming'[d].room # NoRoom =>
             consuming'[d].room <= made' /\ d \in peers'[consuming'[d].room]
  BY <1>1 DEF ConsumersInv
<1>8. \A d \in Clients :
         /\ consumers'[room'][d] \subseteq OpenIn(room)' \cup excused'[d]
         /\ consuming'[d].room = room' =>
               consuming'[d].producer \in OpenIn(room)' \cup excused'[d]
  <2>a. OpenIn(room)' = UNION {producers'[room][e] : e \in Clients}
    BY <1>1 DEF OpenIn
  <2> SUFFICES ASSUME NEW d \in Clients, consuming[d].room = room
               PROVE  consuming[d].producer \in OpenIn(room)' \cup excused'[d]
    BY <1>1, <1>3
  <2>1. consuming[d].producer \in OpenIn(room) \cup excused[d]
    BY <1>1 DEF ConsumersInv
  <2> QED
    BY <1>4, <1>5, <2>1, <2>a
<1> QED
  BY <1>6, <1>7, <1>8 DEF ConsumersInv

\* Only leaving, stopping and consuming write consumers.
LEMMA ConsumersKeep ==
    ASSUME MediaInv, StreamTypeOK, ConsumersInv, [StreamNext]_<<mediaVars, streamVars>>
    PROVE  ConsumersInv'
<1>1. ASSUME NEW c \in Clients, Joins(c), UNCHANGED streamVars PROVE ConsumersInv'
  BY <1>1, JoinsKeepConsumers DEF streamVars
<1>2. ASSUME NEW c \in Clients, StreamJoin(c) PROVE ConsumersInv'
  BY <1>2, JoinsKeepConsumers DEF StreamJoin, Joins
<1>3. ASSUME NEW c \in Clients, StreamLeave(c) PROVE ConsumersInv'
  BY <1>3, LeaveKeepsConsumers
<1>4. ASSUME StreamStop PROVE ConsumersInv'
  BY <1>4, StopKeepsConsumers
<1>5. ASSUME UNCHANGED <<room, made, peers, producers, consumers, consuming, excused>>
      PROVE  ConsumersInv'
  BY <1>5 DEF ConsumersInv, OpenIn
<1>6. ASSUME NEW c \in Clients, ProducerRefused(c), UNCHANGED streamVars PROVE ConsumersInv'
  BY <1>5, <1>6 DEF ProducerRefused, streamVars
<1>7. ASSUME NEW c \in Clients, StreamProduce(c) PROVE ConsumersInv'
  BY <1>5, <1>7 DEF StreamProduce, Produce
<1>8. ASSUME NEW c \in Clients, StreamReady(c) PROVE ConsumersInv'
  <2>1. UNCHANGED <<room, made, peers, consumers, consuming, excused>>
    BY <1>8 DEF StreamReady, ProducerReady
  <2>2. \A q \in Rooms, d \in Clients : producers[q][d] \subseteq producers'[q][d]
    <3>1. CASE c \in parted
      BY <1>8, <3>1 DEF StreamReady
    <3>2. CASE c \notin parted
      BY <1>8, <3>2, ReadyWrites
    <3> QED
      BY <3>1, <3>2
  <2>3. room # NoRoom => OpenIn(room) \subseteq OpenIn(room)'
    BY <2>1, <2>2, RoomsAreMade DEF OpenIn, MediaInv
  <2> QED
    BY <2>1, <2>3 DEF ConsumersInv
<1>9. ASSUME NEW c \in Clients, NEW p \in Producers, Consume(c, p) PROVE ConsumersInv'
  <2>1. /\ UNCHANGED <<room, made, peers, producers, consumers, excused>>
        /\ room # NoRoom /\ c \in peers[room] /\ p \in OpenIn(room)
        /\ consuming' = [consuming EXCEPT ![c] = [producer |-> p, room |-> room]]
    BY <1>9 DEF Consume, OpenIn, mediaVars
  <2>2. room <= made
    BY RoomNumbers, RoomsAreMade DEF MediaInv, MediaTypeOK
  <2>3. \A d \in Clients : IF d = c THEN consuming'[d] = [producer |-> p, room |-> room]
                           ELSE consuming'[d] = consuming[d]
    BY <2>1 DEF StreamTypeOK
  <2>4. OpenIn(room)' = OpenIn(room)
    BY <2>1 DEF OpenIn
  <2> QED
    BY <2>1, <2>2, <2>3, <2>4 DEF ConsumersInv
<1>10. ASSUME NEW c \in Clients, ConsumerReady(c) \/ ConsumerRefused(c) PROVE ConsumersInv'
  <2>1. /\ UNCHANGED <<room, made, peers, producers, excused>>
        /\ consuming[c].room # NoRoom
        /\ consuming' = [consuming EXCEPT ![c] = Nothing]
    BY <1>10 DEF ConsumerReady, ConsumerRefused, mediaVars, StreamTypeOK
  <2>2. \A d \in Clients : IF d = c THEN consuming'[d] = Nothing ELSE consuming'[d] = consuming[d]
    BY <2>1 DEF StreamTypeOK
  <2>3. \A r \in Rooms, d \in Clients :
           \/ consumers'[r][d] = consumers[r][d]
           \/ /\ r = consuming[c].room /\ d = c
              /\ consumers'[r][d] = consumers[r][d] \cup {consuming[c].producer}
    <3>1. CASE ConsumerReady(c)
      BY <3>1, ConsumerWrites
    <3>2. CASE ConsumerRefused(c)
      BY <3>2 DEF ConsumerRefused
    <3> QED
      BY <1>10, <3>1, <3>2
  <2>4. c \in peers[consuming[c].room]
    BY <2>1 DEF ConsumersInv
  <2>5. OpenIn(room)' = OpenIn(room)
    BY <2>1 DEF OpenIn
  <2>6. \A r \in Rooms, d \in Clients : consumers'[r][d] # {} => d \in peers'[r]
    BY <2>1, <2>3, <2>4 DEF ConsumersInv
  <2>7. \A d \in Clients :
           consuming'[d].room # NoRoom =>
               consuming'[d].room <= made' /\ d \in peers'[consuming'[d].room]
    BY <2>1, <2>2 DEF ConsumersInv, Nothing
  <2>8. ASSUME room # NoRoom, NEW d \in Clients
        PROVE  /\ consumers'[room][d] \subseteq OpenIn(room) \cup excused[d]
               /\ consuming'[d].room = room =>
                     consuming'[d].producer \in OpenIn(room) \cup excused[d]
    <3>1. /\ consumers[room][d] \subseteq OpenIn(room) \cup excused[d]
          /\ consuming[d].room = room => consuming[d].producer \in OpenIn(room) \cup excused[d]
      BY <2>8 DEF ConsumersInv
    <3>2. room \in Rooms
      BY <2>8, RoomsAreMade DEF MediaInv
    <3>3. consumers'[room][d] \subseteq OpenIn(room) \cup excused[d]
      BY <2>3, <3>1, <3>2
    <3>4. consuming'[d].room = room => consuming'[d] = consuming[d]
      BY <2>2, <2>8 DEF Nothing
    <3> QED
      BY <3>1, <3>3, <3>4
  <2> QED
    BY <2>1, <2>5, <2>6, <2>7, <2>8 DEF ConsumersInv
<1>11. ASSUME NEW answer \in BOOLEAN, SellerAgreed(answer) PROVE ConsumersInv'
  BY <1>5, <1>11 DEF SellerAgreed, mediaVars
<1>12. ASSUME UNCHANGED <<mediaVars, streamVars>> PROVE ConsumersInv'
  BY <1>5, <1>12 DEF mediaVars, streamVars
<1>13. ASSUME SellerDisagreedCamera PROVE ConsumersInv'
  BY <1>5, <1>13 DEF SellerDisagreedCamera, mediaVars
<1> QED
  BY <1>1, <1>2, <1>3, <1>4, <1>6, <1>7, <1>8, <1>9, <1>10, <1>11, <1>12, <1>13
     DEF StreamNext, Joins

-----------------------------------------------------------------------------
(* The steps keep the joins *)

\* A turn that is not the last one answers nobody.
LEMMA NotAnswered ==
    ASSUME MediaInv, NEW c \in Clients,
           \/ JoinRoom(c) \/ RouterReady(c) \/ SendReady(c) \/ TransportLost(c)
           \/ MediasoupRefuses(c)
    PROVE  client'[c].stage # "joined"
<1>1. client \in [Clients -> JoinState]
  BY DEF MediaInv, MediaTypeOK
<1>2. CASE JoinRoom(c)
  BY <1>1, <1>2 DEF JoinRoom
<1>3. CASE RouterReady(c)
  BY <1>1, <1>3 DEF RouterReady
<1>4. CASE SendReady(c)
  BY <1>1, <1>4 DEF SendReady, JoinState
<1>5. CASE TransportLost(c) \/ MediasoupRefuses(c)
  BY <1>1, <1>5 DEF TransportLost, MediasoupRefuses, JoinState
<1> QED
  BY <1>2, <1>3, <1>4, <1>5

\* The room of the map stays while someone is answered in it.
LEMMA RoomStays ==
    ASSUME MediaInv, MediaInv', NEW c \in Clients, Joins(c) \/ LeaveRoom(c),
           NEW d \in Clients, client'[d].stage = "joined", d \notin gone', client'[d].held = room'
    PROVE  room' = room /\ room # NoRoom
<1>1. room' # NoRoom /\ d \in peers'[room']
  BY DEF MediaInv, MediaTypeOK, JoinedCanProduce
<1>2. CASE Joins(c)
  <2>1. ~(room' = made + 1 /\ made + 1 \in Rooms /\ peers' = peers)
    BY <1>1, <1>2, JoinsMove DEF MediaInv, MadeHavePeers
  <2> QED
    BY <1>1, <1>2, <2>1, JoinsMove
<1>3. CASE LeaveRoom(c)
  BY <1>1, <1>3 DEF LeaveRoom, RoomUnlessEmpty
<1> QED
  BY <1>2, <1>3

\* A client that leaves is out, or marked as gone.
LEMMA LeavingMarks ==
    ASSUME MediaInv, NEW c \in Clients, LeaveRoom(c)
    PROVE  /\ \A d \in Clients : d # c => client'[d] = client[d] /\ (d \in gone' <=> d \in gone)
           /\ \/ client'[c] = Out
              \/ client'[c] = client[c] /\ client[c].stage \notin Answered /\ c \in gone'
BY DEF MediaInv, MediaTypeOK, LeaveRoom

\* Only a join, or leaving, moves a join.
LEMMA JoinsKeep ==
    ASSUME MediaInv, MediaInv', JoinsInv, [StreamNext]_<<mediaVars, streamVars>>
    PROVE  JoinsInv'
<1>1. ASSUME NEW c \in Clients, Joins(c), sockets \subseteq sockets',
             client'[c].stage = "joined" => c \in sockets'
      PROVE  JoinsInv'
  BY <1>1, JoinsAnswer DEF JoinsInv
<1>2. ASSUME UNCHANGED <<client, gone, sockets>> PROVE JoinsInv'
  BY <1>2 DEF JoinsInv
<1>3. ASSUME NEW c \in Clients, UNCHANGED streamVars,
             \/ JoinRoom(c) \/ RouterReady(c) \/ SendReady(c) \/ TransportLost(c)
             \/ MediasoupRefuses(c)
      PROVE  JoinsInv'
  <2>1. Joins(c) /\ client'[c].stage # "joined"
    BY <1>3, NotAnswered DEF Joins
  <2> QED
    BY <1>1, <1>3, <2>1 DEF streamVars
<1>4. ASSUME NEW c \in Clients, StreamJoin(c) PROVE JoinsInv'
  BY <1>1, <1>4 DEF StreamJoin, Joins
<1>5. ASSUME NEW c \in Clients, StreamLeave(c) PROVE JoinsInv'
  <2>1. LeaveRoom(c) /\ sockets' = sockets \ {c}
    BY <1>5 DEF StreamLeave
  <2>2. /\ \A d \in Clients : d # c => client'[d] = client[d] /\ (d \in gone' <=> d \in gone)
        /\ \/ client'[c] = Out
           \/ client'[c] = client[c] /\ client[c].stage \notin Answered /\ c \in gone'
    BY <2>1, LeavingMarks
  <2> QED
    BY <2>1, <2>2 DEF JoinsInv, Out, Answered
<1>6. ASSUME NEW c \in Clients,
             \/ ProducerRefused(c) /\ UNCHANGED streamVars
             \/ StreamProduce(c) \/ StreamReady(c)
             \/ ConsumerReady(c) \/ ConsumerRefused(c)
             \/ \E p \in Producers : Consume(c, p)
      PROVE  JoinsInv'
  BY <1>2, <1>6 DEF ProducerRefused, streamVars, StreamProduce, Produce, StreamReady,
     ProducerReady, ConsumerReady, ConsumerRefused, Consume, mediaVars
<1>7. ASSUME StreamStop \/ (\E answer \in BOOLEAN : SellerAgreed(answer)) \/ SellerDisagreedCamera
      PROVE  JoinsInv'
  BY <1>2, <1>7 DEF StreamStop, StopPrevProducer, SellerAgreed, SellerDisagreedCamera, mediaVars
<1>8. ASSUME UNCHANGED <<mediaVars, streamVars>> PROVE JoinsInv'
  BY <1>2, <1>8 DEF mediaVars, streamVars
<1> QED
  BY <1>3, <1>4, <1>5, <1>6, <1>7, <1>8 DEF StreamNext

-----------------------------------------------------------------------------
(* The steps keep the members up to date *)

\* A turn of a join leaves the others as they are; its answer is the present state.
LEMMA JoinsKeepMembers ==
    ASSUME MediaInv, MediaInv', JoinsInv, MembersAreUpToDate, NEW c \in Clients, Joins(c),
           UNCHANGED <<agreed, declined, producers, passed>>,
           \A d \in Clients : d # c => told'[d] = told[d] /\ known'[d] = known[d],
           client'[c].stage = "joined" =>
               /\ client[c].stage = "recv" /\ gone' = gone
               /\ told'[c] = agreed[client[c].held] /\ known'[c] = Collected(c)
    PROVE  MembersAreUpToDate'
<1> SUFFICES ASSUME NEW d \in Clients, client'[d].stage = "joined", d \notin gone',
                    client'[d].held = room'
             PROVE  /\ told'[d] => agreed'[room']
                    /\ agreed'[room'] => told'[d] \/ room' \in declined'
                    /\ seller'[room'] \notin {d, NoClient} =>
                          producers'[room'][seller'[room']] \ passed' \subseteq known'[d]
  BY DEF MembersAreUpToDate
<1>1. room' = room /\ room # NoRoom /\ seller' = seller
  BY RoomStays, JoinsMove
<1>2. CASE d # c
  <2>1. client[d] = client'[d] /\ d \notin gone
    BY <1>2, JoinsAnswer
  <2> QED
    BY <1>1, <1>2, <2>1 DEF MembersAreUpToDate
<1>3. CASE d = c
  <2>1. client[c].held = client'[c].held
    BY <1>3, JoinsAnswer DEF RecvReady, MediaInv, MediaTypeOK, JoinState
  <2> QED
    BY <1>1, <1>3, <2>1 DEF Collected
<1> QED
  BY <1>2, <1>3

\* Whoever leaves closes producers that nobody needs to know.
LEMMA LeaveKeepsMembers ==
    ASSUME MediaInv, MediaInv', StreamTypeOK, OwnersInv, MembersAreUpToDate,
           NEW c \in Clients, StreamLeave(c)
    PROVE  MembersAreUpToDate'
<1> SUFFICES ASSUME NEW d \in Clients, client'[d].stage = "joined", d \notin gone',
                    client'[d].held = room'
             PROVE  /\ told'[d] => agreed'[room']
                    /\ agreed'[room'] => told'[d] \/ room' \in declined'
                    /\ seller'[room'] \notin {d, NoClient} =>
                          producers'[room'][seller'[room']] \ passed' \subseteq known'[d]
  BY DEF MembersAreUpToDate
<1>1. LeaveRoom(c) /\ seller' = seller
  BY DEF StreamLeave, LeaveRoom
<1>2. room' = room /\ room # NoRoom
  BY <1>1, RoomStays
<1>3. d # c /\ client[d].stage = "joined" /\ d \notin gone /\ client[d].held = room
  BY <1>1, <1>2, LeavingMarks DEF Out, Answered
<1>4. /\ agreed' = agreed /\ declined' = declined /\ told'[d] = told[d] /\ passed' = passed \ producers[room][c]
      /\ known'[d] = known[d] \ producers[room][c]
      /\ producers' = [producers EXCEPT ![room][c] = {}]
  BY <1>3 DEF StreamLeave, StreamTypeOK
<1>5. /\ told'[d] => agreed'[room']
      /\ agreed'[room'] => told'[d] \/ room' \in declined'
  BY <1>2, <1>3, <1>4 DEF MembersAreUpToDate
<1>6. ASSUME seller[room] \notin {d, NoClient}
      PROVE  producers'[room][seller[room]] \ passed' \subseteq known'[d]
  <2>1. room \in Rooms /\ seller[room] \in Clients
    BY <1>2, <1>6, RoomsAreMade DEF MediaInv, MediaTypeOK
  <2>2. producers[room][seller[room]] \ passed \subseteq known[d]
    BY <1>2, <1>3, <1>6 DEF MembersAreUpToDate
  <2>3. CASE seller[room] = c
    BY <1>2, <1>4, <2>3, ClosingWrites
  <2>4. CASE seller[room] # c
    <3>1. producers'[room][seller[room]] = producers[room][seller[room]]
      BY <1>2, <1>4, <2>1, <2>4, ClosingWrites
    <3>2. producers[room][seller[room]] \subseteq Nat
      BY <2>1 DEF StreamTypeOK
    <3>3. \A p \in producers[room][seller[room]] : p \notin producers[room][c]
      BY <2>1, <2>4, <3>2 DEF OwnersInv
    <3> QED
      BY <1>4, <2>2, <3>1, <3>3
  <2> QED
    BY <2>3, <2>4
<1> QED
  BY <1>1, <1>2, <1>5, <1>6

\* A new producer is announced to the socket.io room; its owner's others were known, or
\* forgotten when another seller took its place.
LEMMA ReadyKeepsMembers ==
    ASSUME MediaInv, StreamTypeOK, OwnersInv, JoinsInv, MembersAreUpToDate,
           NEW c \in Clients, StreamReady(c)
    PROVE  MembersAreUpToDate'
<1>1. /\ UNCHANGED <<room, client, gone, told, agreed, declined, sockets>>
      /\ producing[c] \in Rooms /\ producing[c] # NoRoom
      /\ seller' = [seller EXCEPT ![producing[c]] = c]
      /\ passed \subseteq passed'
  BY DEF StreamReady, ProducerReady, MediaInv, MediaTypeOK
<1> SUFFICES ASSUME NEW d \in Clients, client[d].stage = "joined", d \notin gone,
                    client[d].held = room
             PROVE  /\ told[d] => agreed[room]
                    /\ agreed[room] => told[d] \/ room \in declined
                    /\ seller'[room] \notin {d, NoClient} =>
                          producers'[room][seller'[room]] \ passed' \subseteq known'[d]
  BY <1>1 DEF MembersAreUpToDate
<1>2. /\ told[d] => agreed[room]
      /\ agreed[room] => told[d] \/ room \in declined
  BY DEF MembersAreUpToDate
<1>a. d \in sockets /\ room \in Rooms
  BY RoomsAreMade DEF JoinsInv, MediaInv, MediaTypeOK
<1>3. known[d] \subseteq known'[d]
  BY DEF StreamReady
<1>4. ASSUME seller'[room] \notin {d, NoClient}
      PROVE  producers'[room][seller'[room]] \ passed' \subseteq known'[d]
  <2>t. seller \in [Rooms -> Clients \cup {NoClient}]
    BY DEF MediaInv, MediaTypeOK
  <2>1. CASE producing[c] # room
    <3>1. seller'[room] = seller[room] /\ seller[room] \in Clients
      BY <1>1, <1>a, <1>4, <2>1, <2>t
    <3>2. producers'[room][seller[room]] = producers[room][seller[room]]
      <4>1. CASE c \in parted
        BY <4>1 DEF StreamReady
      <4>2. CASE c \notin parted
        BY <1>a, <2>1, <3>1, <4>2, ReadyWrites
      <4> QED
        BY <4>1, <4>2
    <3>3. producers[room][seller[room]] \ passed \subseteq known[d]
      BY <1>4, <3>1 DEF MembersAreUpToDate
    <3> QED
      BY <1>1, <1>3, <3>1, <3>2, <3>3
  <2>2. CASE producing[c] = room
    <3>1. seller'[room] = c /\ d # c
      BY <1>1, <1>a, <1>4, <2>2, <2>t
    <3>2. CASE c \in parted
      <4>1. producers'[room][c] = {}
        BY <1>1, <2>2, <3>2 DEF StreamReady, OwnersInv
      <4> QED
        BY <3>1, <4>1
    <3>3. CASE c \notin parted
      <4>1. producers'[room][c] = producers[room][c] \cup {opened + 1}
        BY <2>2, <3>3, ReadyWrites
      <4>2. opened + 1 \in known'[d]
        BY <1>a, <3>1, <3>3 DEF StreamReady
      <4>3. producers[room][c] \ passed \subseteq known[d]
        <5>1. CASE seller[room] = c
          BY <1>4, <3>1, <5>1 DEF MembersAreUpToDate
        <5>2. CASE seller[room] # c
          BY <1>a, <5>2 DEF OwnersInv
        <5> QED
          BY <5>1, <5>2
      <4> QED
        BY <1>1, <1>3, <3>1, <4>1, <4>2, <4>3
    <3> QED
      BY <3>2, <3>3
  <2> QED
    BY <2>1, <2>2
<1> QED
  BY <1>2, <1>4

\* No step leaves a member behind.
LEMMA MembersKeep ==
    ASSUME StreamInv, MediaInv', [StreamNext]_<<mediaVars, streamVars>>
    PROVE  MembersAreUpToDate'
<1> USE DEF StreamInv
<1>1. ASSUME UNCHANGED <<room, client, gone, seller, told, agreed, declined, producers, passed, known>>
      PROVE  MembersAreUpToDate'
  BY <1>1 DEF MembersAreUpToDate
<1>2. ASSUME NEW c \in Clients, UNCHANGED streamVars,
             \/ JoinRoom(c) \/ RouterReady(c) \/ SendReady(c) \/ TransportLost(c)
             \/ MediasoupRefuses(c)
      PROVE  MembersAreUpToDate'
  <2>1. Joins(c) /\ client'[c].stage # "joined"
    BY <1>2, NotAnswered DEF Joins
  <2> QED
    BY <1>2, <2>1, JoinsKeepMembers DEF streamVars
<1>3. ASSUME NEW c \in Clients, StreamJoin(c) PROVE MembersAreUpToDate'
  <2>1. Joins(c) /\ client[c].stage = "recv" /\ gone' = gone
    BY <1>3 DEF StreamJoin, Joins, RecvReady
  <2>2. UNCHANGED <<agreed, declined, producers, passed>>
    BY <1>3 DEF StreamJoin
  <2>3. \A d \in Clients : d # c => told'[d] = told[d] /\ known'[d] = known[d]
    BY <1>3 DEF StreamJoin, StreamTypeOK
  <2>4. client'[c].stage = "joined" =>
            told'[c] = agreed[client[c].held] /\ known'[c] = Collected(c)
    BY <1>3 DEF StreamJoin, StreamTypeOK
  <2> QED
    BY <2>1, <2>2, <2>3, <2>4, JoinsKeepMembers
<1>4. ASSUME NEW c \in Clients, StreamLeave(c) PROVE MembersAreUpToDate'
  BY <1>4, LeaveKeepsMembers
<1>5. ASSUME NEW c \in Clients, StreamReady(c) PROVE MembersAreUpToDate'
  BY <1>5, ReadyKeepsMembers
<1>6. ASSUME NEW c \in Clients,
             \/ ProducerRefused(c) /\ UNCHANGED streamVars
             \/ StreamProduce(c) \/ ConsumerReady(c) \/ ConsumerRefused(c)
             \/ \E p \in Producers : Consume(c, p)
      PROVE  MembersAreUpToDate'
  BY <1>1, <1>6 DEF ProducerRefused, streamVars, StreamProduce, Produce,
     ConsumerReady, ConsumerRefused, Consume, mediaVars
<1>7. ASSUME StreamStop PROVE MembersAreUpToDate'
  <2>1. /\ room # NoRoom /\ seller' = [seller EXCEPT ![room] = NoClient]
        /\ UNCHANGED <<room, client, gone, told, agreed, declined>>
    BY <1>7 DEF StreamStop, StopPrevProducer
  <2>2. seller'[room] = NoClient
    BY <2>1, RoomsAreMade DEF MediaInv, MediaTypeOK
  <2> QED
    BY <2>1, <2>2 DEF MembersAreUpToDate
<1>8. ASSUME NEW answer \in BOOLEAN, SellerAgreed(answer) PROVE MembersAreUpToDate'
  <2>1. /\ room # NoRoom
        /\ UNCHANGED <<room, client, gone, seller, producers, passed, known>>
    BY <1>8 DEF SellerAgreed, mediaVars
  <2>2. room \in Rooms
    BY <2>1, RoomsAreMade DEF MediaInv
  <2>3. agreed'[room] = answer
    BY <1>8, <2>2, Zenon DEF SellerAgreed, StreamTypeOK
  <2>4. \A d \in sockets : told'[d] = answer
    BY <1>8, Zenon DEF SellerAgreed, TellAll, StreamTypeOK
  <2>5. \A d \in Clients : client[d].stage = "joined" /\ d \notin gone => told'[d] = agreed'[room]
    BY <2>3, <2>4 DEF JoinsInv
  <2> QED
    BY <2>1, <2>5 DEF MembersAreUpToDate
<1>10. ASSUME SellerDisagreedCamera PROVE MembersAreUpToDate'
  <2>1. /\ room # NoRoom
        /\ UNCHANGED <<room, client, gone, seller, agreed, producers, passed, known>>
        /\ agreed[room] => room \in declined'
    BY <1>10 DEF SellerDisagreedCamera, mediaVars
  <2>2. \A d \in sockets : ~told'[d]
    BY <1>10, Zenon DEF SellerDisagreedCamera, TellAll, StreamTypeOK
  <2>3. \A d \in Clients : client[d].stage = "joined" /\ d \notin gone => ~told'[d]
    BY <2>2 DEF JoinsInv
  <2> QED
    BY <2>1, <2>3 DEF MembersAreUpToDate
<1>9. ASSUME UNCHANGED <<mediaVars, streamVars>> PROVE MembersAreUpToDate'
  BY <1>1, <1>9 DEF mediaVars, streamVars
<1> QED
  BY <1>2, <1>3, <1>4, <1>5, <1>6, <1>7, <1>8, <1>9, <1>10 DEF StreamNext

\* Every step keeps the invariant.
LEMMA StreamStepKeeps == StreamInv /\ [StreamNext]_<<mediaVars, streamVars>> => StreamInv'
<1> SUFFICES ASSUME StreamInv, [StreamNext]_<<mediaVars, streamVars>> PROVE StreamInv'
  OBVIOUS
<1>1. MediaInv'
  BY StreamIsMedia, MediaStepKeeps DEF StreamInv
<1>2. StreamTypeOK' /\ OwnersInv' /\ ConsumersInv'
  BY StreamTypesKeep, OwnersKeep, ConsumersKeep DEF StreamInv
<1>3. JoinsInv' /\ MembersAreUpToDate'
  BY <1>1, JoinsKeep, MembersKeep DEF StreamInv
<1> QED
  BY <1>1, <1>2, <1>3 DEF StreamInv

\* The invariant of the room with its streams, for any clients and any number of rooms
\* and producers (producer-consumer.service.ts, signaling.gateway.ts).
THEOREM StreamInvariance == StreamSpec => []StreamInv
<1> QED
  BY StreamInitInv, StreamStepKeeps, PTL DEF StreamSpec

\* The streams add to the room and take nothing from it: each behaviour of both is one
\* of the room alone.
THEOREM StreamImplementsMedia == StreamSpec => MediaSpec
<1>1. StreamInit => MediaInit
  BY DEF StreamInit
<1>2. [StreamNext]_<<mediaVars, streamVars>> => [MediaNext]_mediaVars
  BY StreamIsMedia
<1> QED
  BY <1>1, <1>2, PTL DEF StreamSpec, MediaSpec

\* Whoever was answered knows all producers of the seller, from the answer or from a
\* message since, is told yes only when the seller agreed, and not of its yes only when
\* the camera was refused since (signaling.gateway.ts:83-116, 232-259).
THEOREM NobodyMissesAProducer == StreamSpec => []MembersAreUpToDate
<1>1. StreamInv => MembersAreUpToDate
  BY DEF StreamInv
<1> QED
  BY <1>1, StreamInvariance, PTL

\* No consumer of a closed producer is kept (producer-consumer.service.ts:84-109).
THEOREM ConsumersAreClosed == StreamSpec => []KeptConsumersLive
<1>1. StreamInv => KeptConsumersLive
  BY RoomsAreMade DEF StreamInv, ConsumersInv, KeptConsumersLive, OpenIn, MediaInv, MediaTypeOK
<1> QED
  BY <1>1, StreamInvariance, PTL
=============================================================================
