------------------------------ MODULE WsRooms ------------------------------
(***************************************************************************)
(* The WebSocket target (target-apps/apps/ws_api.py): echo connections and *)
(* broadcast rooms in one asyncio process.  A handler runs alone between   *)
(* two awaits, and each await is a point where the others run: a send, a   *)
(* receive, a close, or a lock that is taken.                              *)
(***************************************************************************)
EXTENDS Naturals, Sequences, FiniteSets

CONSTANTS
  Conns,           \* the connections that clients open, each of them once
  Rooms,           \* names of broadcast rooms
  Echo,            \* the path /ws/echo, no room
  NoConn,          \* no connection
  MAX_CONCURRENT_CONNECTIONS,
  MAX_ROOM_SIZE,
  MAX_MESSAGES_PER_CONNECTION

ASSUME WsAssumption ==
  /\ IsFiniteSet(Conns)
  /\ Echo \notin Rooms /\ NoConn \notin Conns
  /\ {MAX_CONCURRENT_CONNECTIONS, MAX_ROOM_SIZE, MAX_MESSAGES_PER_CONNECTION}
       \subseteq Nat \ {0}

VARIABLES
  pc,        \* where the handler of each connection is
  room,      \* the room of each connection, or Echo
  gone,      \* the connections whose client has disconnected
  shut,      \* the connections that their handler has closed
  seen,      \* messages_seen
  todo,      \* the peers a handler has still to send its broadcast to
  number,    \* the sequence number of that broadcast
  members,   \* _rooms
  counter,   \* _room_sequences, 0 for a room without an entry
  slots,     \* _active_connections
  lock,      \* the handler that holds _room_lock across an await, or NoConn
  got        \* the broadcasts each connection was sent: <<sender, number>>

connVars == <<pc, room, gone, shut, seen, todo, number>>
roomVars == <<members, counter, lock>>
vars == <<connVars, roomVars, slots, got>>

Points == {"new", "refused", "accepting", "joining", "refusing", "welcoming", "waiting",
           "echoing", "numbering", "sending", "limited", "leaving", "releasing", "closed"}

TypeOK ==
  /\ pc \in [Conns -> Points] /\ room \in [Conns -> Rooms \cup {Echo}]
  /\ gone \subseteq Conns /\ shut \subseteq Conns
  /\ seen \in [Conns -> 0 .. MAX_MESSAGES_PER_CONNECTION]
  /\ todo \in [Conns -> SUBSET Conns] /\ number \in [Conns -> Nat]
  /\ members \in [Rooms -> SUBSET Conns] /\ counter \in [Rooms -> Nat]
  /\ slots \in 0 .. MAX_CONCURRENT_CONNECTIONS
  /\ lock \in Conns \cup {NoConn}
  /\ got \in [Conns -> Seq(Conns \X Nat)]

Init ==
  /\ pc = [c \in Conns |-> "new"] /\ room \in [Conns -> Rooms \cup {Echo}]
  /\ gone = {} /\ shut = {}
  /\ seen = [c \in Conns |-> 0]
  /\ todo = [c \in Conns |-> {}] /\ number = [c \in Conns |-> 0]
  /\ members = [r \in Rooms |-> {}] /\ counter = [r \in Rooms |-> 0]
  /\ slots = 0 /\ lock = NoConn
  /\ got = [c \in Conns |-> <<>>]

At(c, p) == pc[c] = p
Goto(c, p) == pc' = [pc EXCEPT ![c] = p]
Free == lock = NoConn

\* Mutation: the cap on connections is off by one.
ConnectLate(c) ==
  /\ At(c, "new")
  /\ IF slots > MAX_CONCURRENT_CONNECTIONS
     THEN Goto(c, "refused") /\ UNCHANGED slots
     ELSE Goto(c, "accepting") /\ slots' = slots + 1
  /\ UNCHANGED <<room, gone, shut, seen, todo, number, roomVars, got>>

\* _try_acquire_connection
Connect(c) ==
  /\ At(c, "new")
  /\ IF slots >= MAX_CONCURRENT_CONNECTIONS
     THEN Goto(c, "refused") /\ UNCHANGED slots
     ELSE Goto(c, "accepting") /\ slots' = slots + 1
  /\ UNCHANGED <<room, gone, shut, seen, todo, number, roomVars, got>>

Accept(c) ==
  /\ At(c, "accepting")
  /\ Goto(c, IF room[c] = Echo THEN "welcoming" ELSE "joining")
  /\ UNCHANGED <<room, gone, shut, seen, todo, number, roomVars, slots, got>>

\* Mutation: the cap on the size of a room is off by one.
RoomFullLate(r) == Cardinality(members[r]) > MAX_ROOM_SIZE

RoomFull(r) == Cardinality(members[r]) >= MAX_ROOM_SIZE

\* The handler enters its room under the lock.  When the room is full it
\* closes the connection while it holds the lock.
Join(c) ==
  /\ At(c, "joining") /\ Free
  /\ IF RoomFull(room[c])
     THEN Goto(c, "refusing") /\ lock' = c /\ shut' = shut \cup {c} /\ UNCHANGED members
     ELSE /\ Goto(c, "welcoming")
          /\ members' = [members EXCEPT ![room[c]] = @ \cup {c}]
          /\ UNCHANGED <<lock, shut>>
  /\ UNCHANGED <<room, gone, seen, todo, number, counter, slots, got>>

\* Mutation: the lock is not given back.
RefuseRoomLocked(c) ==
  /\ At(c, "refusing")
  /\ Goto(c, "releasing")
  /\ UNCHANGED <<room, gone, shut, seen, todo, number, members, counter, lock, slots, got>>

RefuseRoom(c) ==
  /\ At(c, "refusing")
  /\ Goto(c, "releasing") /\ lock' = NoConn
  /\ UNCHANGED <<room, gone, shut, seen, todo, number, members, counter, slots, got>>

\* Whether a send to c raises: it does when c was closed, and it may, or be
\* dropped, when its client has gone.  The handler that sends then leaves
\* through its finally.
SendRaises(c) ==
  IF c \in shut THEN {TRUE} ELSE IF c \in gone THEN BOOLEAN ELSE {FALSE}

Welcome(c) ==
  /\ At(c, "welcoming")
  /\ \E raises \in SendRaises(c) : Goto(c, IF raises THEN "leaving" ELSE "waiting")
  /\ UNCHANGED <<room, gone, shut, seen, todo, number, roomVars, slots, got>>

Receive(c) ==
  /\ At(c, "waiting") /\ c \notin gone
  /\ seen' = [seen EXCEPT ![c] = @ + 1]
  /\ Goto(c, IF room[c] = Echo THEN "echoing" ELSE "numbering")
  /\ UNCHANGED <<room, gone, shut, todo, number, roomVars, slots, got>>

\* The 5 s pass without a message, or one is too long: the handler closes.
\* Or it learns that its client has gone.
StopWaiting(c) ==
  /\ At(c, "waiting")
  /\ Goto(c, "leaving")
  /\ shut' = IF c \in gone THEN shut ELSE shut \cup {c}
  /\ UNCHANGED <<room, gone, seen, todo, number, roomVars, slots, got>>

\* After the answer to a message: the next one, or the limit is reached.
NextMessage(c) ==
  Goto(c, IF seen[c] < MAX_MESSAGES_PER_CONNECTION THEN "waiting" ELSE "limited")

\* The handler tells its client of the limit, and closes.
CloseAtLimit(c) ==
  /\ At(c, "limited")
  /\ \E raises \in SendRaises(c) : shut' = IF raises THEN shut ELSE shut \cup {c}
  /\ Goto(c, "leaving")
  /\ UNCHANGED <<room, gone, seen, todo, number, roomVars, slots, got>>

SendEcho(c) ==
  /\ At(c, "echoing")
  /\ \E raises \in SendRaises(c) :
       IF raises THEN Goto(c, "leaving") ELSE NextMessage(c)
  /\ UNCHANGED <<room, gone, shut, seen, todo, number, roomVars, slots, got>>

\* The broadcast gets its number and its list of peers under the lock.
Number(c) ==
  /\ At(c, "numbering") /\ Free
  /\ counter' = [counter EXCEPT ![room[c]] = @ + 1]
  /\ number' = [number EXCEPT ![c] = counter[room[c]] + 1]
  /\ todo' = [todo EXCEPT ![c] = members[room[c]]]
  /\ Goto(c, "sending")
  /\ UNCHANGED <<room, gone, shut, seen, members, lock, slots, got>>

\* One peer is sent the broadcast.  A send that raises ends the connection of
\* the sender, whoever the peer.
SendTo(c, p) ==
  /\ At(c, "sending") /\ p \in todo[c]
  /\ \E raises \in SendRaises(p) :
       IF raises
       THEN /\ Goto(c, "leaving")
            /\ todo' = [todo EXCEPT ![c] = {}]
            /\ UNCHANGED got
       ELSE /\ got' = [got EXCEPT ![p] = IF p \in gone THEN @ ELSE Append(@, <<c, number[c]>>)]
            /\ todo' = [todo EXCEPT ![c] = @ \ {p}]
            /\ IF todo[c] = {p} THEN NextMessage(c) ELSE UNCHANGED pc
  /\ UNCHANGED <<room, gone, shut, seen, number, roomVars, slots>>

\* Mutation: the numbering of a room starts again whenever somebody leaves.
ForgetCounter(r, left) == 0

\* A room that nobody is in is removed with its numbering.
LeftCounter(r, left) == IF left = {} THEN 0 ELSE counter[r]

\* The finally of a handler: out of the room, if it was in it.
LeaveRoom(c) ==
  /\ At(c, "leaving") /\ Free
  /\ IF room[c] = Echo THEN UNCHANGED <<members, counter>>
     ELSE LET left == members[room[c]] \ {c} IN
          /\ members' = [members EXCEPT ![room[c]] = left]
          /\ counter' = [counter EXCEPT ![room[c]] = LeftCounter(room[c], left)]
  /\ Goto(c, "releasing")
  /\ UNCHANGED <<room, gone, shut, seen, todo, number, lock, slots, got>>

\* Mutation: a handler refused by its room keeps its slot.
ReleaseOfMembers(c) ==
  /\ At(c, "releasing")
  /\ slots' = IF c \in shut /\ seen[c] = 0 THEN slots ELSE slots - 1
  /\ Goto(c, "closed")
  /\ UNCHANGED <<room, gone, shut, seen, todo, number, roomVars, got>>

\* _release_connection
Release(c) ==
  /\ At(c, "releasing")
  /\ slots' = IF slots > 0 THEN slots - 1 ELSE 0
  /\ Goto(c, "closed")
  /\ UNCHANGED <<room, gone, shut, seen, todo, number, roomVars, got>>

\* The client disconnects once it was accepted.
ClientLeaves(c) ==
  /\ pc[c] \notin {"new", "refused", "accepting", "closed"} /\ c \notin gone
  /\ gone' = gone \cup {c}
  /\ UNCHANGED <<pc, room, shut, seen, todo, number, roomVars, slots, got>>

\* What the handler of c does next; Receive and StopWaiting are both open to
\* a handler that waits.
HandlerStep(c) ==
  \/ Accept(c) \/ Join(c) \/ RefuseRoom(c) \/ Welcome(c)
  \/ Receive(c) \/ StopWaiting(c) \/ SendEcho(c) \/ Number(c)
  \/ \E p \in Conns : SendTo(c, p)
  \/ CloseAtLimit(c) \/ LeaveRoom(c) \/ Release(c)

Next == \E c \in Conns : Connect(c) \/ ClientLeaves(c) \/ HandlerStep(c)
Spec == Init /\ [][Next]_vars

\* The event loop runs every handler that can go on, and the idle timeout
\* sees to it that one that waits can.
FairSpec == Spec /\ \A c \in Conns : WF_vars(HandlerStep(c))

-----------------------------------------------------------------------------
\* The handlers between _try_acquire_connection and _release_connection.
Unslotted == {"new", "refused", "closed"}
Holding == {c \in Conns : pc[c] \notin Unslotted}

\* The handlers between their peers.add and their peers.discard.
Seated == {"welcoming", "waiting", "numbering", "sending", "limited", "leaving"}
InRoom(r) == {c \in Conns : room[c] = r /\ pc[c] \in Seated}

\* The count of connections is that of the handlers that hold a slot, however
\* each of them ends: refused by its room, timed out, at its limit, or thrown
\* out by a peer that cannot be reached.  A leak would shut the target for good.
SlotsExact == slots = Cardinality(Holding)

\* A room holds its live handlers and no more than it may; an empty one
\* leaves no numbering behind for the next clients of that name.
RoomsExact ==
  \A r \in Rooms :
    /\ members[r] = InRoom(r) /\ Cardinality(members[r]) <= MAX_ROOM_SIZE
    /\ counter[r] # 0 => members[r] # {}

\* No two broadcasts that a member receives bear the same number, whichever
\* members send, join and leave in between.
NumberedOnce ==
  \A c \in Conns : \A i, j \in 1 .. Len(got[c]) :
    i # j => got[c][i][2] # got[c][j][2]

\* Every accepted connection ends: the message limit and the idle timeout
\* leave no handler running, and none waits for the lock for ever.
EveryConnectionEnds == \A c \in Conns : At(c, "accepting") ~> At(c, "closed")
=============================================================================
