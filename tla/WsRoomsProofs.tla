---------------------------- MODULE WsRoomsProofs ----------------------------
(***************************************************************************)
(* Proofs about WsRooms, for any number of connections and rooms and any   *)
(* limits: type correctness, that rooms hold exactly their live handlers   *)
(* and never too many, that no slot is lost or given back twice, and that  *)
(* no number is heard twice.                                               *)
(*                                                                         *)
(* The inductive invariant adds to these that a handler is only where its  *)
(* kind of connection can be (Stations): without it, a step could take a   *)
(* handler into or out of a room unseen.                                   *)
(***************************************************************************)
EXTENDS WsRooms, FiniteSetTheorems, TLAPS

Fresh == {"new", "refused", "accepting", "joining", "refusing", "welcoming"}

Stations ==
  \A c \in Conns :
    /\ pc[c] = "echoing" => room[c] = Echo
    /\ pc[c] \in {"joining", "refusing", "numbering", "sending"} => room[c] \in Rooms
    /\ pc[c] \in Fresh => seen[c] = 0
    /\ pc[c] = "waiting" => seen[c] < MAX_MESSAGES_PER_CONNECTION

WsInv == TypeOK /\ Stations /\ RoomsExact /\ SlotsExact

-----------------------------------------------------------------------------
\* A handler that goes from p0 to p takes its seat along, or has none.
LEMMA InRoomKept ==
  ASSUME TypeOK, NEW c \in Conns, NEW p, pc' = [pc EXCEPT ![c] = p], room' = room,
         room[c] = Echo \/ (pc[c] \in Seated <=> p \in Seated)
  PROVE  \A r \in Rooms : InRoom(r)' = InRoom(r)
<1> SUFFICES ASSUME NEW r \in Rooms PROVE InRoom(r)' = InRoom(r)
  OBVIOUS
<1>1. \A d \in Conns : pc'[d] = IF d = c THEN p ELSE pc[d]
  BY DEF TypeOK
<1>2. \A d \in Conns : (room'[d] = r /\ pc'[d] \in Seated) <=> (room[d] = r /\ pc[d] \in Seated)
  BY <1>1, WsAssumption
<1> QED
  BY <1>2 DEF InRoom

\* The same of the slot of a handler.
LEMMA HoldingKept ==
  ASSUME TypeOK, NEW c \in Conns, NEW p, pc' = [pc EXCEPT ![c] = p],
         pc[c] \in Unslotted <=> p \in Unslotted
  PROVE  Holding' = Holding
<1>1. \A d \in Conns : pc'[d] = IF d = c THEN p ELSE pc[d]
  BY DEF TypeOK
<1>2. \A d \in Conns : pc'[d] \in Unslotted <=> pc[d] \in Unslotted
  BY <1>1
<1> QED
  BY <1>2 DEF Holding

\* Rooms stay exact when neither they nor their handlers change.
LEMMA RoomsKept ==
  ASSUME RoomsExact, UNCHANGED <<members, counter>>, \A r \in Rooms : InRoom(r)' = InRoom(r)
  PROVE  RoomsExact'
BY DEF RoomsExact

\* The count stays exact when neither it nor its handlers change.
LEMMA SlotsKept ==
  ASSUME SlotsExact, UNCHANGED slots, Holding' = Holding
  PROVE  SlotsExact'
BY DEF SlotsExact

\* A handler that goes on within the body of its function, without touching
\* rooms or slots, keeps both exact.
LEMMA StaysExact ==
  ASSUME TypeOK, RoomsExact, SlotsExact, NEW c \in Conns, NEW p,
         pc' = [pc EXCEPT ![c] = p], UNCHANGED <<room, members, counter, slots>>,
         room[c] = Echo \/ (pc[c] \in Seated <=> p \in Seated),
         pc[c] \in Unslotted <=> p \in Unslotted
  PROVE  RoomsExact' /\ SlotsExact'
<1>1. RoomsExact'
  BY InRoomKept, RoomsKept
<1>2. SlotsExact'
  BY HoldingKept, SlotsKept
<1> QED
  BY <1>1, <1>2

\* Sets of connections are finite.
LEMMA ConnsFinite ==
  ASSUME NEW X, X \subseteq Conns
  PROVE  IsFiniteSet(X) /\ Cardinality(X) \in Nat
BY FS_Subset, FS_CardinalityType, WsAssumption

\* An element more is at most one more.
LEMMA AddOne ==
  ASSUME NEW X, NEW x, IsFiniteSet(X)
  PROVE  Cardinality(X \cup {x}) <= Cardinality(X) + 1
<1>1. Cardinality(X) \in Nat
  BY FS_CardinalityType
<1>2. Cardinality(X \cup {x}) = IF x \in X THEN Cardinality(X) ELSE Cardinality(X) + 1
  BY FS_AddElement
<1> QED
  BY <1>1, <1>2

-----------------------------------------------------------------------------
\* No connection has been opened yet: the invariant holds.
LEMMA WsInit == Init => WsInv
<1> SUFFICES ASSUME Init PROVE WsInv
  OBVIOUS
<1>1. TypeOK
  BY WsAssumption DEF Init, TypeOK, Points
<1>2. Stations
  BY WsAssumption DEF Init, Stations, Fresh
<1>3. \A r \in Rooms : InRoom(r) = {}
  BY DEF Init, InRoom, Seated
<1>4. Holding = {}
  BY DEF Init, Holding, Unslotted
<1>5. Cardinality({}) = 0
  BY FS_EmptySet
<1>6. RoomsExact
  BY <1>3, <1>5, WsAssumption DEF Init, RoomsExact
<1>7. SlotsExact
  BY <1>4, <1>5 DEF Init, SlotsExact
<1> QED
  BY <1>1, <1>2, <1>6, <1>7 DEF WsInv

-----------------------------------------------------------------------------
\* Stations of the handlers that stay where they are.
LEMMA StationsKept ==
  ASSUME TypeOK, Stations, NEW c \in Conns, NEW p, NEW n,
         pc' = [pc EXCEPT ![c] = p], seen' = [seen EXCEPT ![c] = n], room' = room,
         p = "echoing" => room[c] = Echo,
         p \in {"joining", "refusing", "numbering", "sending"} => room[c] \in Rooms,
         p \in Fresh => n = 0,
         p = "waiting" => n < MAX_MESSAGES_PER_CONNECTION
  PROVE  Stations'
<1>1. \A d \in Conns : /\ pc'[d] = IF d = c THEN p ELSE pc[d]
                       /\ seen'[d] = IF d = c THEN n ELSE seen[d]
  BY DEF TypeOK
<1>2. SUFFICES ASSUME NEW d \in Conns
               PROVE  /\ pc'[d] = "echoing" => room[d] = Echo
                      /\ pc'[d] \in {"joining", "refusing", "numbering", "sending"} => room[d] \in Rooms
                      /\ pc'[d] \in Fresh => seen'[d] = 0
                      /\ pc'[d] = "waiting" => seen'[d] < MAX_MESSAGES_PER_CONNECTION
  BY DEF Stations
<1>3. CASE d = c
  BY <1>1, <1>3
<1>4. CASE d # c
  BY <1>1, <1>4 DEF Stations
<1> QED
  BY <1>3, <1>4

\* The same when no message was received.
LEMMA StationsMove ==
  ASSUME TypeOK, Stations, NEW c \in Conns, NEW p,
         pc' = [pc EXCEPT ![c] = p], UNCHANGED <<seen, room>>,
         p = "echoing" => room[c] = Echo,
         p \in {"joining", "refusing", "numbering", "sending"} => room[c] \in Rooms,
         p \in Fresh => pc[c] \in Fresh,
         p = "waiting" => seen[c] < MAX_MESSAGES_PER_CONNECTION
  PROVE  Stations'
<1>1. seen' = [seen EXCEPT ![c] = seen[c]]
  BY DEF TypeOK
<1>2. p \in Fresh => seen[c] = 0
  BY DEF Stations
<1> QED
  BY <1>1, <1>2, StationsKept

-----------------------------------------------------------------------------
\* One lemma per action: it preserves the invariant.
LEMMA ConnectKeeps ==
  ASSUME WsInv, NEW c \in Conns, Connect(c)
  PROVE  WsInv'
<1> USE DEF WsInv
<1>1. CASE slots >= MAX_CONCURRENT_CONNECTIONS
  <2>1. pc' = [pc EXCEPT ![c] = "refused"] /\ UNCHANGED <<room, seen, members, counter, slots>>
    BY <1>1 DEF Connect, Goto, connVars, roomVars
  <2>2. TypeOK'
    BY <1>1 DEF Connect, Goto, roomVars, TypeOK, Points
  <2>3. Stations'
    BY <2>1, StationsMove DEF Connect, At, Fresh
  <2>4. RoomsExact' /\ SlotsExact'
    BY <2>1, StaysExact DEF Connect, At, Seated, Unslotted
  <2> QED
    BY <2>2, <2>3, <2>4
<1>2. CASE ~ (slots >= MAX_CONCURRENT_CONNECTIONS)
  <2>1. /\ pc' = [pc EXCEPT ![c] = "accepting"] /\ slots' = slots + 1
        /\ UNCHANGED <<room, seen, members, counter>>
    BY <1>2 DEF Connect, Goto, roomVars
  <2>2. TypeOK'
    <3>1. slots' \in 0 .. MAX_CONCURRENT_CONNECTIONS
      BY <1>2, <2>1, WsAssumption DEF TypeOK
    <3> QED
      BY <2>1, <3>1 DEF Connect, roomVars, TypeOK, Points
  <2>3. Stations'
    BY <2>1, StationsMove DEF Connect, At, Fresh
  <2>4. RoomsExact'
    BY <2>1, InRoomKept, RoomsKept DEF Connect, At, Seated
  <2>5. Holding' = Holding \cup {c} /\ c \notin Holding
    BY <2>1 DEF Connect, At, Holding, Unslotted, TypeOK
  <2>6. Cardinality(Holding') = Cardinality(Holding) + 1
    BY <2>5, ConnsFinite, FS_AddElement DEF Holding
  <2>7. SlotsExact'
    BY <2>1, <2>6 DEF SlotsExact
  <2> QED
    BY <2>2, <2>3, <2>4, <2>7
<1> QED
  BY <1>1, <1>2

\* The handler that gives its slot back held one.
LEMMA ReleaseKeeps ==
  ASSUME WsInv, NEW c \in Conns, Release(c)
  PROVE  WsInv'
<1> USE DEF WsInv
<1>1. pc' = [pc EXCEPT ![c] = "closed"] /\ UNCHANGED <<room, seen, members, counter>>
  BY DEF Release, Goto, roomVars
<1>2. Holding' = Holding \ {c} /\ c \in Holding
  BY <1>1 DEF Release, At, Holding, Unslotted, TypeOK
<1>3. Cardinality(Holding') = Cardinality(Holding) - 1 /\ Cardinality(Holding) \in Nat
  BY <1>2, ConnsFinite, FS_RemoveElement DEF Holding
<1>4. Cardinality(Holding) # 0
  BY <1>2, ConnsFinite, FS_EmptySet DEF Holding
<1>5. slots' = slots - 1 /\ slots' \in 0 .. MAX_CONCURRENT_CONNECTIONS
  BY <1>3, <1>4, WsAssumption DEF Release, SlotsExact, TypeOK
<1>6. SlotsExact'
  BY <1>3, <1>5 DEF SlotsExact
<1>7. TypeOK'
  BY <1>1, <1>5 DEF Release, roomVars, TypeOK, Points
<1>8. Stations'
  BY <1>1, StationsMove DEF Fresh
<1>9. RoomsExact'
  BY <1>1, InRoomKept, RoomsKept DEF Release, At, Seated
<1> QED
  BY <1>6, <1>7, <1>8, <1>9

\* The only step that enters a room: its size was checked in the same hold of
\* the lock.
LEMMA JoinKeeps ==
  ASSUME WsInv, NEW c \in Conns, Join(c)
  PROVE  WsInv'
<1> USE DEF WsInv
<1>1. room[c] \in Rooms
  BY DEF Join, At, Stations
<1>2. CASE RoomFull(room[c])
  <2>1. pc' = [pc EXCEPT ![c] = "refusing"] /\ UNCHANGED <<room, seen, members, counter, slots>>
    BY <1>2 DEF Join, Goto
  <2>2. TypeOK'
    BY <1>2, <2>1 DEF Join, TypeOK, Points
  <2>3. Stations'
    BY <1>1, <2>1, StationsMove DEF Join, At, Fresh
  <2>4. RoomsExact' /\ SlotsExact'
    BY <2>1, StaysExact DEF Join, At, Seated, Unslotted
  <2> QED
    BY <2>2, <2>3, <2>4
<1>3. CASE ~ RoomFull(room[c])
  <2>0. PICK s \in Rooms : s = room[c]
    BY <1>1
  <2>1. /\ pc' = [pc EXCEPT ![c] = "welcoming"]
        /\ members' = [members EXCEPT ![s] = @ \cup {c}]
        /\ UNCHANGED <<room, seen, counter, slots>>
    BY <1>3, <2>0 DEF Join, Goto
  <2>2. TypeOK'
    BY <1>1, <1>3, <2>0, <2>1 DEF Join, TypeOK, Points
  <2>3. Stations'
    BY <2>1, StationsMove DEF Join, At, Fresh
  <2>4. SlotsExact'
    BY <2>1, HoldingKept, SlotsKept DEF Join, At, Unslotted
  <2>5. InRoom(s)' = InRoom(s) \cup {c}
    BY <2>0, <2>1 DEF InRoom, Seated, TypeOK
  <2>6. \A r \in Rooms \ {s} : InRoom(r)' = InRoom(r)
    BY <2>0, <2>1 DEF InRoom, TypeOK
  <2>7. /\ members'[s] = members[s] \cup {c}
        /\ \A r \in Rooms \ {s} : members'[r] = members[r]
    BY <1>1, <2>1 DEF TypeOK
  <2>8. Cardinality(members'[s]) <= MAX_ROOM_SIZE
    <3>1. members[s] \subseteq Conns
      BY <1>1 DEF TypeOK
    <3>2. Cardinality(members[s]) < MAX_ROOM_SIZE
      BY <1>3, <2>0, <3>1, ConnsFinite, WsAssumption DEF RoomFull
    <3>3. IsFiniteSet(members[s]) /\ Cardinality(members[s]) \in Nat
      BY <3>1, ConnsFinite
    <3>4. Cardinality(members[s] \cup {c}) <= Cardinality(members[s]) + 1
      BY <3>3, AddOne
    <3>5. Cardinality(members[s] \cup {c}) \in Nat
      BY <3>1, ConnsFinite
    <3>6. Cardinality(members[s] \cup {c}) <= MAX_ROOM_SIZE
      BY <3>2, <3>3, <3>4, <3>5, WsAssumption
    <3> QED
      BY <2>7, <3>6
  <2>9. RoomsExact'
    <3> SUFFICES ASSUME NEW r \in Rooms
                 PROVE  /\ members'[r] = InRoom(r)'
                        /\ Cardinality(members'[r]) <= MAX_ROOM_SIZE
                        /\ counter'[r] # 0 => members'[r] # {}
      BY DEF RoomsExact
    <3>1. CASE r = s
      <4>1. members[s] = InRoom(s)
        BY <1>1 DEF RoomsExact
      <4>2. members'[s] = InRoom(s)' /\ members'[s] # {}
        BY <2>5, <2>7, <4>1
      <4> QED
        BY <2>8, <3>1, <4>2
    <3>2. CASE r # s
      BY <2>1, <2>6, <2>7, <3>2 DEF RoomsExact
    <3> QED
      BY <3>1, <3>2
  <2> QED
    BY <2>2, <2>3, <2>4, <2>9
<1> QED
  BY <1>2, <1>3

\* An accepted handler goes to where its path says.
LEMMA AcceptKeeps ==
  ASSUME WsInv, NEW c \in Conns, Accept(c)
  PROVE  WsInv'
<1> USE DEF WsInv
<1> DEFINE p == IF room[c] = Echo THEN "welcoming" ELSE "joining"
<1>1. pc' = [pc EXCEPT ![c] = p] /\ UNCHANGED <<room, seen, members, counter, slots>>
  BY DEF Accept, Goto, roomVars
<1>2. TypeOK'
  BY <1>1 DEF Accept, roomVars, TypeOK, Points
<1>3. Stations'
  BY <1>1, StationsMove DEF Accept, At, Fresh, TypeOK
<1>4. room[c] = Echo \/ (pc[c] \in Seated <=> p \in Seated)
  BY DEF Accept, At, Seated
<1>5. RoomsExact' /\ SlotsExact'
  BY <1>1, <1>4, StaysExact DEF Accept, At, Unslotted
<1> QED
  BY <1>2, <1>3, <1>5

\* A refused handler is in no room, and still holds its slot.
LEMMA RefuseRoomKeeps ==
  ASSUME WsInv, NEW c \in Conns, RefuseRoom(c)
  PROVE  WsInv'
<1> USE DEF WsInv
<1>1. pc' = [pc EXCEPT ![c] = "releasing"] /\ UNCHANGED <<room, seen, members, counter, slots>>
  BY DEF RefuseRoom, Goto
<1>2. TypeOK'
  BY <1>1 DEF RefuseRoom, TypeOK, Points
<1>3. Stations'
  BY <1>1, StationsMove DEF Fresh
<1>4. RoomsExact' /\ SlotsExact'
  BY <1>1, StaysExact DEF RefuseRoom, At, Seated, Unslotted
<1> QED
  BY <1>2, <1>3, <1>4

\* A handler that was welcomed has seen no message.
LEMMA WelcomeKeeps ==
  ASSUME WsInv, NEW c \in Conns, Welcome(c)
  PROVE  WsInv'
<1> USE DEF WsInv
<1>1. PICK p \in {"leaving", "waiting"} :
        pc' = [pc EXCEPT ![c] = p] /\ UNCHANGED <<room, seen, members, counter, slots>>
  BY DEF Welcome, Goto, roomVars
<1>2. TypeOK'
  BY <1>1 DEF Welcome, roomVars, TypeOK, Points
<1>3. seen[c] < MAX_MESSAGES_PER_CONNECTION
  BY WsAssumption DEF Welcome, At, Stations, Fresh
<1>4. Stations'
  BY <1>1, <1>3, StationsMove DEF Fresh
<1>5. RoomsExact' /\ SlotsExact'
  BY <1>1, StaysExact DEF Welcome, At, Seated, Unslotted
<1> QED
  BY <1>2, <1>4, <1>5

\* A handler that waits is below the limit of messages.
LEMMA ReceiveKeeps ==
  ASSUME WsInv, NEW c \in Conns, Receive(c)
  PROVE  WsInv'
<1> USE DEF WsInv
<1> DEFINE p == IF room[c] = Echo THEN "echoing" ELSE "numbering"
<1>1. /\ pc' = [pc EXCEPT ![c] = p] /\ seen' = [seen EXCEPT ![c] = seen[c] + 1]
      /\ UNCHANGED <<room, members, counter, slots>>
  BY DEF Receive, Goto, roomVars
<1>2. seen[c] + 1 \in 0 .. MAX_MESSAGES_PER_CONNECTION
  BY WsAssumption DEF Receive, At, Stations, TypeOK
<1>3. TypeOK'
  BY <1>1, <1>2 DEF Receive, roomVars, TypeOK, Points
<1>4. Stations'
  BY <1>1, StationsKept DEF Fresh, TypeOK
<1>5. room[c] = Echo \/ (pc[c] \in Seated <=> p \in Seated)
  BY DEF Receive, At, Seated
<1>6. RoomsExact' /\ SlotsExact'
  BY <1>1, <1>5, StaysExact DEF Receive, At, Unslotted
<1> QED
  BY <1>3, <1>4, <1>6

\* A handler that stops waiting keeps its seat until it leaves its room.
LEMMA StopWaitingKeeps ==
  ASSUME WsInv, NEW c \in Conns, StopWaiting(c)
  PROVE  WsInv'
<1> USE DEF WsInv
<1>1. pc' = [pc EXCEPT ![c] = "leaving"] /\ UNCHANGED <<room, seen, members, counter, slots>>
  BY DEF StopWaiting, Goto, roomVars
<1>2. TypeOK'
  BY <1>1 DEF StopWaiting, roomVars, TypeOK, Points
<1>3. Stations'
  BY <1>1, StationsMove DEF Fresh
<1>4. RoomsExact' /\ SlotsExact'
  BY <1>1, StaysExact DEF StopWaiting, At, Seated, Unslotted
<1> QED
  BY <1>2, <1>3, <1>4

\* Nor does the end of its messages unseat it.
LEMMA CloseAtLimitKeeps ==
  ASSUME WsInv, NEW c \in Conns, CloseAtLimit(c)
  PROVE  WsInv'
<1> USE DEF WsInv
<1>1. pc' = [pc EXCEPT ![c] = "leaving"] /\ UNCHANGED <<room, seen, members, counter, slots>>
  BY DEF CloseAtLimit, Goto, roomVars
<1>2. TypeOK'
  BY <1>1 DEF CloseAtLimit, roomVars, TypeOK, Points
<1>3. Stations'
  BY <1>1, StationsMove DEF Fresh
<1>4. RoomsExact' /\ SlotsExact'
  BY <1>1, StaysExact DEF CloseAtLimit, At, Seated, Unslotted
<1> QED
  BY <1>2, <1>3, <1>4

\* An echo changes no room.
LEMMA SendEchoKeeps ==
  ASSUME WsInv, NEW c \in Conns, SendEcho(c)
  PROVE  WsInv'
<1> USE DEF WsInv
<1>1. PICK p \in {"leaving", "waiting", "limited"} :
        /\ pc' = [pc EXCEPT ![c] = p]
        /\ p = "waiting" => seen[c] < MAX_MESSAGES_PER_CONNECTION
        /\ UNCHANGED <<room, seen, members, counter, slots>>
  BY DEF SendEcho, NextMessage, Goto, roomVars
<1>2. TypeOK'
  BY <1>1 DEF SendEcho, roomVars, TypeOK, Points
<1>3. Stations'
  BY <1>1, StationsMove DEF Fresh
<1>4. room[c] = Echo
  BY DEF SendEcho, At, Stations
<1>5. RoomsExact' /\ SlotsExact'
  BY <1>1, <1>4, StaysExact DEF SendEcho, At, Unslotted
<1> QED
  BY <1>2, <1>3, <1>5

\* A broadcast is numbered while its sender is a member: no numbering without
\* a room.
LEMMA NumberKeeps ==
  ASSUME WsInv, NEW c \in Conns, Number(c)
  PROVE  WsInv'
<1> USE DEF WsInv
<1>1. PICK s \in Rooms : s = room[c]
  BY DEF Number, At, Stations
<1>2. /\ pc' = [pc EXCEPT ![c] = "sending"]
      /\ counter' = [counter EXCEPT ![s] = @ + 1]
      /\ number' = [number EXCEPT ![c] = counter[s] + 1]
      /\ todo' = [todo EXCEPT ![c] = members[s]]
      /\ UNCHANGED <<room, seen, members, slots>>
  BY <1>1 DEF Number, Goto
<1>3. TypeOK'
  <2>1. members[s] \in SUBSET Conns /\ counter[s] + 1 \in Nat
    BY DEF TypeOK
  <2>2. pc' \in [Conns -> Points] /\ counter' \in [Rooms -> Nat]
    BY <1>2, <2>1 DEF TypeOK, Points
  <2>3. number' \in [Conns -> Nat]
    BY <1>2, <2>1 DEF TypeOK
  <2>4. todo' \in [Conns -> SUBSET Conns]
    BY <1>2, <2>1 DEF TypeOK
  <2> QED
    BY <2>2, <2>3, <2>4 DEF Number, TypeOK
<1>4. Stations'
  BY <1>1, <1>2, StationsMove DEF Fresh
<1>5. \A r \in Rooms : InRoom(r)' = InRoom(r)
  BY <1>2, InRoomKept DEF Number, At, Seated
<1>6. c \in members[s]
  BY <1>1 DEF RoomsExact, InRoom, Number, At, Seated
<1>7. \A r \in Rooms \ {s} : counter'[r] = counter[r]
  BY <1>2 DEF TypeOK
<1>8. RoomsExact'
  BY <1>2, <1>5, <1>6, <1>7 DEF RoomsExact
<1>9. SlotsExact'
  BY <1>2, HoldingKept, SlotsKept DEF Number, At, Unslotted
<1> QED
  BY <1>3, <1>4, <1>8, <1>9

\* A broadcast changes no room, whoever it throws out.
LEMMA SendToKeeps ==
  ASSUME WsInv, NEW c \in Conns, NEW q \in Conns, SendTo(c, q)
  PROVE  WsInv'
<1> USE DEF WsInv
<1>1. PICK p \in {"leaving", "waiting", "limited", "sending"} :
        /\ pc' = [pc EXCEPT ![c] = p]
        /\ p = "waiting" => seen[c] < MAX_MESSAGES_PER_CONNECTION
        /\ UNCHANGED <<room, seen, members, counter, slots>>
  BY DEF SendTo, NextMessage, Goto, At, roomVars, TypeOK
<1>2. TypeOK'
  <2>1. shut' \subseteq Conns
    BY DEF SendTo, TypeOK
  <2>2. todo' \in [Conns -> SUBSET Conns]
    <3>1. PICK left \in SUBSET Conns : todo' = [todo EXCEPT ![c] = left]
      <4>1. {} \in SUBSET Conns /\ todo[c] \ {q} \in SUBSET Conns
        BY DEF TypeOK
      <4>2. todo' = [todo EXCEPT ![c] = {}] \/ todo' = [todo EXCEPT ![c] = todo[c] \ {q}]
        BY DEF SendTo
      <4> QED
        BY <4>1, <4>2
    <3> QED
      BY <3>1 DEF TypeOK
  <2>3. got' \in [Conns -> Seq(Conns \X Nat)]
    <3>1. got[q] \in Seq(Conns \X Nat) /\ <<c, number[c]>> \in Conns \X Nat
      BY DEF TypeOK
    <3>2. Append(got[q], <<c, number[c]>>) \in Seq(Conns \X Nat)
      BY <3>1
    <3>3. CASE UNCHANGED got
      BY <3>3 DEF TypeOK
    <3>4. CASE got' = [got EXCEPT ![q] =
                         IF q \in gone THEN @ ELSE Append(@, <<c, number[c]>>)]
      BY <3>1, <3>2, <3>4 DEF TypeOK
    <3> QED
      BY <3>3, <3>4 DEF SendTo
  <2> QED
    BY <1>1, <2>1, <2>2, <2>3 DEF SendTo, roomVars, TypeOK, Points
<1>3. room[c] \in Rooms
  BY DEF SendTo, At, Stations
<1>4. Stations'
  BY <1>1, <1>3, StationsMove DEF Fresh
<1>5. RoomsExact' /\ SlotsExact'
  BY <1>1, StaysExact DEF SendTo, At, Seated, Unslotted
<1> QED
  BY <1>2, <1>4, <1>5

\* A handler gives its seat up; the last one takes the numbering along.
LEMMA LeaveRoomKeeps ==
  ASSUME WsInv, NEW c \in Conns, LeaveRoom(c)
  PROVE  WsInv'
<1> USE DEF WsInv
<1>1. pc' = [pc EXCEPT ![c] = "releasing"] /\ UNCHANGED <<room, seen, slots>>
  BY DEF LeaveRoom, Goto
<1>2. Stations'
  BY <1>1, StationsMove DEF Fresh
<1>3. SlotsExact'
  BY <1>1, HoldingKept, SlotsKept DEF LeaveRoom, At, Unslotted
<1>4. CASE room[c] = Echo
  <2>1. UNCHANGED <<members, counter>>
    BY <1>4 DEF LeaveRoom
  <2>2. TypeOK'
    BY <1>1, <2>1 DEF LeaveRoom, TypeOK, Points
  <2>3. RoomsExact'
    BY <1>1, <1>4, <2>1, InRoomKept, RoomsKept
  <2> QED
    BY <1>2, <1>3, <2>2, <2>3
<1>5. CASE room[c] # Echo
  <2>1. PICK s \in Rooms : s = room[c]
    BY <1>5 DEF TypeOK
  <2>2. PICK left \in SUBSET Conns : left = members[s] \ {c}
    BY DEF TypeOK
  <2>3. /\ members' = [members EXCEPT ![s] = left]
        /\ counter' = [counter EXCEPT ![s] = IF left = {} THEN 0 ELSE counter[s]]
    BY <1>5, <2>1, <2>2 DEF LeaveRoom, LeftCounter
  <2>4. TypeOK'
    <3>1. members' \in [Rooms -> SUBSET Conns] /\ counter' \in [Rooms -> Nat]
      BY <2>3 DEF TypeOK
    <3> QED
      BY <1>1, <3>1 DEF LeaveRoom, TypeOK, Points
  <2>5. InRoom(s)' = InRoom(s) \ {c}
    BY <1>1, <2>1 DEF InRoom, Seated, TypeOK
  <2>6. \A r \in Rooms \ {s} : InRoom(r)' = InRoom(r)
    BY <1>1, <2>1 DEF InRoom, TypeOK
  <2>7. /\ members'[s] = left
        /\ counter'[s] # 0 => left # {}
        /\ \A r \in Rooms \ {s} : members'[r] = members[r] /\ counter'[r] = counter[r]
    BY <2>3 DEF TypeOK
  <2>8. Cardinality(left) <= MAX_ROOM_SIZE
    <3>1. members[s] \subseteq Conns
      BY DEF TypeOK
    <3>2. IsFiniteSet(members[s]) /\ Cardinality(members[s]) \in Nat
      BY <3>1, ConnsFinite
    <3>3. Cardinality(left) \in Nat
      BY ConnsFinite
    <3>4. Cardinality(left) <= Cardinality(members[s])
      BY <2>2, <3>2, FS_Subset
    <3>5. Cardinality(members[s]) <= MAX_ROOM_SIZE
      BY DEF RoomsExact
    <3> QED
      BY <3>2, <3>3, <3>4, <3>5, WsAssumption
  <2>9. RoomsExact'
    <3> SUFFICES ASSUME NEW r \in Rooms
                 PROVE  /\ members'[r] = InRoom(r)'
                        /\ Cardinality(members'[r]) <= MAX_ROOM_SIZE
                        /\ counter'[r] # 0 => members'[r] # {}
      BY DEF RoomsExact
    <3>1. CASE r = s
      <4>1. members[s] = InRoom(s)
        BY DEF RoomsExact
      <4>2. members'[s] = InRoom(s)'
        BY <2>2, <2>5, <2>7, <4>1
      <4> QED
        BY <2>7, <2>8, <3>1, <4>2
    <3>2. CASE r # s
      BY <2>6, <2>7, <3>2 DEF RoomsExact
    <3> QED
      BY <3>1, <3>2
  <2> QED
    BY <1>2, <1>3, <2>4, <2>9
<1> QED
  BY <1>4, <1>5

\* Nothing the invariant speaks of changes.
LEMMA SameKeeps ==
  ASSUME WsInv, UNCHANGED <<pc, room, shut, seen, todo, number, roomVars, slots, got>>,
         gone' \subseteq Conns
  PROVE  WsInv'
<1> USE DEF WsInv
<1>1. TypeOK'
  BY DEF TypeOK, roomVars
<1>2. Stations'
  BY DEF Stations
<1>3. \A r \in Rooms : InRoom(r)' = InRoom(r)
  BY DEF InRoom
<1>4. Holding' = Holding
  BY DEF Holding
<1>5. RoomsExact'
  BY <1>3, RoomsKept DEF roomVars
<1>6. SlotsExact'
  BY <1>4, SlotsKept
<1> QED
  BY <1>1, <1>2, <1>5, <1>6

\* The invariant is inductive.
LEMMA WsNext == WsInv /\ [Next]_vars => WsInv'
<1> SUFFICES ASSUME WsInv, [Next]_vars PROVE WsInv'
  OBVIOUS
<1>1. ASSUME NEW c \in Conns, Connect(c) PROVE WsInv'
  BY <1>1, ConnectKeeps
<1>2. ASSUME NEW c \in Conns, ClientLeaves(c) PROVE WsInv'
  BY <1>2, SameKeeps DEF ClientLeaves, WsInv, TypeOK
<1>3. ASSUME NEW c \in Conns, HandlerStep(c) PROVE WsInv'
  BY <1>3, AcceptKeeps, JoinKeeps, RefuseRoomKeeps, WelcomeKeeps, ReceiveKeeps,
     StopWaitingKeeps, CloseAtLimitKeeps, SendEchoKeeps, NumberKeeps, SendToKeeps,
     LeaveRoomKeeps, ReleaseKeeps
     DEF HandlerStep
<1>4. CASE UNCHANGED vars
  BY <1>4, SameKeeps DEF vars, connVars, WsInv, TypeOK
<1> QED
  BY <1>1, <1>2, <1>3, <1>4 DEF Next

-----------------------------------------------------------------------------
\* The invariant holds in every reachable state.
THEOREM WsInvariant == Spec => []WsInv
BY WsInit, WsNext, PTL DEF Spec

\* Every variable of the target keeps its type; the count of connections
\* stays between 0 and its cap.
THEOREM WsTypeCorrect == Spec => []TypeOK
<1>1. WsInv => TypeOK
  BY DEF WsInv
<1> QED
  BY <1>1, WsInvariant, PTL

\* Whatever the order in which handlers join, send and leave, a room holds
\* exactly its live handlers, never more than MAX_ROOM_SIZE of them, and an
\* empty room keeps no numbering.
THEOREM RoomsAreExact == Spec => []RoomsExact
<1>1. WsInv => RoomsExact
  BY DEF WsInv
<1> QED
  BY <1>1, WsInvariant, PTL

\* No way for a handler to end leaks the slot it took at its start, or gives
\* it back twice.
THEOREM SlotsAreExact == Spec => []SlotsExact
<1>1. WsInv => SlotsExact
  BY DEF WsInv
<1> QED
  BY <1>1, WsInvariant, PTL

-----------------------------------------------------------------------------
(***************************************************************************)
(* The numbering of broadcasts.  A sender is a member of its room, so that *)
(* the numbering goes on while anybody has a broadcast to deliver; what is *)
(* on its way bears different numbers, none above the counter of the room, *)
(* and none that its receiver has heard.                                   *)
(***************************************************************************)
Unseated == {"new", "refused", "accepting", "joining", "refusing"}

Heard(p, n) == \E i \in 1 .. Len(got[p]) : got[p][i][2] = n

HeardUpTo(p, r) == \A n \in Nat : Heard(p, n) => n <= counter[r]

\* The broadcasts on their way.
Numbered ==
  \A c \in Conns : At(c, "sending") =>
    /\ number[c] <= counter[room[c]]
    /\ \A d \in Conns : d # c /\ At(d, "sending") /\ room[d] = room[c] => number[d] # number[c]

\* Their receivers, who may have left in the meantime.
Awaited ==
  \A c \in Conns : At(c, "sending") =>
    \A p \in todo[c] : /\ room[p] = room[c] /\ pc[p] \notin Unseated
                       /\ ~ Heard(p, number[c]) /\ HeardUpTo(p, room[c])

\* The members, and those who are none yet.
Listening ==
  \A p \in Conns : /\ pc[p] \in Seated /\ room[p] \in Rooms => HeardUpTo(p, room[p])
                   /\ pc[p] \in Unseated => \A n \in Nat : ~ Heard(p, n)

NumInv == NumberedOnce /\ Numbered /\ Awaited /\ Listening

LEMMA NumInit == Init => NumInv
<1> SUFFICES ASSUME Init PROVE NumInv
  OBVIOUS
<1>1. \A c \in Conns : pc[c] = "new" /\ Len(got[c]) = 0
  BY DEF Init
<1>2. \A p \in Conns : \A n \in Nat : ~ Heard(p, n)
  BY <1>1 DEF Heard
<1> QED
  BY <1>1, <1>2 DEF NumInv, NumberedOnce, Numbered, Awaited, Listening, At, Seated

\* A step that moves one handler, other than into a room or to a broadcast.
LEMMA NumMove ==
  ASSUME TypeOK, NumInv, NEW c \in Conns, NEW p, pc' = [pc EXCEPT ![c] = p],
         UNCHANGED <<room, number, counter, got>>,
         \A d \in Conns : todo'[d] \subseteq todo[d],
         p = "sending" => pc[c] = "sending",
         p \in Unseated => pc[c] \in Unseated,
         room[c] = Echo \/ (p \in Seated => pc[c] \in Seated)
  PROVE  NumInv'
<1> USE DEF NumInv
<1>1. \A d \in Conns : pc'[d] = IF d = c THEN p ELSE pc[d]
  BY DEF TypeOK
<1>2. \A d \in Conns : /\ pc'[d] = "sending" => pc[d] = "sending"
                       /\ pc'[d] \in Unseated => pc[d] \in Unseated
                       /\ room[d] = Echo \/ (pc'[d] \in Seated => pc[d] \in Seated)
  BY <1>1
<1>3. \A d, n : Heard(d, n)' = Heard(d, n)
  BY DEF Heard
<1>4. \A d, r : HeardUpTo(d, r)' = HeardUpTo(d, r)
  BY <1>3 DEF HeardUpTo
<1>5. NumberedOnce'
  BY DEF NumberedOnce
<1>6. Numbered'
  BY <1>2 DEF Numbered, At
<1>7. Awaited'
  <2> SUFFICES ASSUME NEW d \in Conns, pc'[d] = "sending", NEW q \in todo'[d]
               PROVE  /\ room[q] = room[d] /\ pc'[q] \notin Unseated
                      /\ ~ Heard(q, number[d])' /\ HeardUpTo(q, room[d])'
    BY DEF Awaited, At
  <2>1. q \in todo[d] /\ q \in Conns
    BY DEF TypeOK
  <2> QED BY <1>2, <1>3, <1>4, <2>1 DEF Awaited, At
<1>8. Listening'
  BY <1>2, <1>3, <1>4, WsAssumption DEF Listening
<1> QED BY <1>5, <1>6, <1>7, <1>8

LEMMA NumJoin ==
  ASSUME TypeOK, NumInv, NEW c \in Conns, Join(c)
  PROVE  NumInv'
<1>1. CASE RoomFull(room[c])
  <2>1. pc' = [pc EXCEPT ![c] = "refusing"] /\ UNCHANGED <<room, number, counter, got, todo>>
    BY <1>1 DEF Join, Goto
  <2> QED BY <2>1, NumMove DEF Join, At, Unseated, Seated
<1>2. CASE ~ RoomFull(room[c])
  <2> USE DEF NumInv
  <2>1. pc' = [pc EXCEPT ![c] = "welcoming"] /\ UNCHANGED <<room, number, counter, got, todo>>
    BY <1>2 DEF Join, Goto
  <2>2. pc[c] \in Unseated
    BY DEF Join, At, Unseated
  <2>3. \A d \in Conns : pc'[d] = IF d = c THEN "welcoming" ELSE pc[d]
    BY <2>1 DEF TypeOK
  <2>4. \A d \in Conns : /\ pc'[d] = "sending" => pc[d] = "sending"
                         /\ pc'[d] \in Unseated => pc[d] \in Unseated
    BY <2>3 DEF Unseated
  <2>5. \A d, n : Heard(d, n)' = Heard(d, n)
    BY <2>1 DEF Heard
  <2>6. \A d, r : HeardUpTo(d, r)' = HeardUpTo(d, r)
    BY <2>1, <2>5 DEF HeardUpTo
  <2>7. NumberedOnce'
    BY <2>1 DEF NumberedOnce
  <2>8. Numbered'
    BY <2>1, <2>4 DEF Numbered, At
  <2>9. Awaited'
    <3> SUFFICES ASSUME NEW d \in Conns, pc'[d] = "sending", NEW q \in todo'[d]
                 PROVE  /\ room'[q] = room'[d] /\ pc'[q] \notin Unseated
                        /\ ~ Heard(q, number[d])' /\ HeardUpTo(q, room[d])'
      BY DEF Awaited, At
    <3>1. q \in todo[d] /\ q \in Conns
      BY <2>1 DEF TypeOK
    <3> QED BY <2>1, <2>4, <2>5, <2>6, <3>1 DEF Awaited, At
  <2>10. Listening'
    <3> SUFFICES ASSUME NEW d \in Conns
                 PROVE  /\ pc'[d] \in Seated /\ room'[d] \in Rooms => HeardUpTo(d, room[d])'
                        /\ pc'[d] \in Unseated => \A n \in Nat : ~ Heard(d, n)'
      BY DEF Listening
    <3>1. CASE d = c
      <4>1. \A n \in Nat : ~ Heard(d, n)
        BY <2>2, <3>1 DEF Listening
      <4> QED BY <2>5, <4>1 DEF HeardUpTo
    <3>2. CASE d # c
      BY <2>1, <2>3, <2>5, <2>6, <3>2 DEF Listening
    <3> QED BY <3>1, <3>2
  <2> QED BY <2>7, <2>8, <2>9, <2>10
<1> QED BY <1>1, <1>2

\* A broadcast takes a number above all that were heard or are on their way.
LEMMA NumNumber ==
  ASSUME WsInv, NumInv, NEW c \in Conns, Number(c)
  PROVE  NumInv'
<1> USE DEF WsInv, NumInv
<1>1. PICK s \in Rooms : s = room[c]
  BY DEF Number, At, Stations
<1>2. /\ pc' = [pc EXCEPT ![c] = "sending"]
      /\ counter' = [counter EXCEPT ![s] = @ + 1]
      /\ number' = [number EXCEPT ![c] = counter[s] + 1]
      /\ todo' = [todo EXCEPT ![c] = members[s]]
      /\ UNCHANGED <<room, got>> /\ pc[c] = "numbering"
  BY <1>1 DEF Number, Goto, At
<1>3. /\ \A d \in Conns : /\ pc'[d] = IF d = c THEN "sending" ELSE pc[d]
                          /\ number'[d] = IF d = c THEN counter[s] + 1 ELSE number[d]
                          /\ todo'[d] = IF d = c THEN members[s] ELSE todo[d]
                          /\ number[d] \in Nat
      /\ \A r \in Rooms : /\ counter'[r] = IF r = s THEN counter[s] + 1 ELSE counter[r]
                          /\ counter[r] \in Nat
  BY <1>2 DEF TypeOK
<1>4. \A d, n : Heard(d, n)' = Heard(d, n)
  BY <1>2 DEF Heard
<1>5. \A r \in Rooms : counter[r] <= counter'[r]
  BY <1>3
<1>6. \A d \in Conns : \A r \in Rooms : HeardUpTo(d, r) => HeardUpTo(d, r)'
  <2> SUFFICES ASSUME NEW d \in Conns, NEW r \in Rooms, HeardUpTo(d, r), NEW n \in Nat, Heard(d, n)'
               PROVE  n <= counter'[r]
    BY DEF HeardUpTo
  <2>1. n <= counter[r]
    BY <1>4 DEF HeardUpTo
  <2>2. counter'[r] \in Nat
    BY <1>3
  <2> QED BY <1>3, <1>5, <2>1, <2>2
<1>7. \A d \in Conns : At(d, "sending") => room[d] \in Rooms
  BY DEF Stations, At
<1>8. NumberedOnce'
  BY <1>2 DEF NumberedOnce
<1>9. Numbered'
  <2> SUFFICES ASSUME NEW d \in Conns, pc'[d] = "sending"
               PROVE  /\ number'[d] <= counter'[room[d]]
                      /\ \A e \in Conns : e # d /\ pc'[e] = "sending" /\ room[e] = room[d]
                                             => number'[e] # number'[d]
    BY <1>2 DEF Numbered, At
  <2>1. \A e \in Conns : e # c /\ pc'[e] = "sending" =>
          /\ room[e] \in Rooms /\ number'[e] = number[e] /\ number[e] <= counter[room[e]]
    BY <1>3, <1>7 DEF Numbered, At
  <2>2. CASE d = c
    <3>1. number'[d] = counter[s] + 1 /\ counter'[room[d]] = counter[s] + 1 /\ counter[s] \in Nat
      BY <1>1, <1>3, <2>2
    <3>2. \A e \in Conns : e # d /\ pc'[e] = "sending" /\ room[e] = room[d] => number'[e] <= counter[s]
      BY <1>1, <2>1, <2>2
    <3>3. \A e \in Conns : number'[e] \in Nat
      BY <1>3
    <3> QED BY <3>1, <3>2, <3>3
  <2>3. CASE d # c
    <3>1. /\ room[d] \in Rooms /\ number'[d] = number[d] /\ number[d] <= counter[room[d]]
      BY <2>1, <2>3
    <3>2. number'[d] <= counter'[room[d]]
      <4>1. counter[room[d]] <= counter'[room[d]] /\ counter'[room[d]] \in Nat /\ counter[room[d]] \in Nat
        BY <1>3, <1>5, <3>1
      <4> QED BY <1>3, <3>1, <4>1
    <3>3. ASSUME NEW e \in Conns, e # d, pc'[e] = "sending", room[e] = room[d]
          PROVE  number'[e] # number'[d]
      <4>1. CASE e = c
        BY <1>1, <1>3, <3>1, <3>3, <4>1
      <4>2. CASE e # c
        BY <1>3, <2>3, <3>3, <4>2 DEF Numbered, At
      <4> QED BY <4>1, <4>2
    <3> QED BY <3>2, <3>3
  <2> QED BY <2>2, <2>3
<1>10. Awaited'
  <2> SUFFICES ASSUME NEW d \in Conns, pc'[d] = "sending", NEW q \in todo'[d]
               PROVE  /\ room[q] = room[d] /\ pc'[q] \notin Unseated
                      /\ ~ Heard(q, number'[d]) /\ HeardUpTo(q, room[d])'
    BY <1>2, <1>4 DEF Awaited, At
  <2>1. CASE d = c
    <3>1. q \in InRoom(s)
      BY <1>3, <2>1 DEF RoomsExact
    <3>2. q \in Conns /\ room[q] = s /\ pc[q] \in Seated
      BY <3>1 DEF InRoom
    <3>3. HeardUpTo(q, s)
      BY <3>2 DEF Listening
    <3>4. ~ Heard(q, counter[s] + 1)
      <4>1. counter[s] \in Nat
        BY <1>3
      <4>2. counter[s] + 1 \in Nat /\ ~ (counter[s] + 1 <= counter[s])
        BY <4>1
      <4> QED BY <3>3, <4>2 DEF HeardUpTo
    <3>5. pc'[q] \notin Unseated
      BY <1>3, <3>2 DEF Seated, Unseated
    <3> QED BY <1>1, <1>2, <1>3, <1>6, <2>1, <3>2, <3>3, <3>4, <3>5
  <2>2. CASE d # c
    <3>1. q \in todo[d] /\ q \in Conns /\ pc[d] = "sending" /\ number'[d] = number[d]
      BY <1>3, <2>2 DEF TypeOK
    <3>2. /\ room[q] = room[d] /\ pc[q] \notin Unseated
          /\ ~ Heard(q, number[d]) /\ HeardUpTo(q, room[d])
      BY <3>1 DEF Awaited, At
    <3>3. pc'[q] \notin Unseated
      BY <1>3, <3>1, <3>2 DEF Unseated
    <3>4. room[d] \in Rooms
      BY <1>7, <3>1 DEF At
    <3> QED BY <1>2, <1>6, <3>1, <3>2, <3>3, <3>4
  <2> QED BY <2>1, <2>2
<1>11. Listening'
  <2> SUFFICES ASSUME NEW d \in Conns
               PROVE  /\ pc'[d] \in Seated /\ room[d] \in Rooms => HeardUpTo(d, room[d])'
                      /\ pc'[d] \in Unseated => \A n \in Nat : ~ Heard(d, n)
    BY <1>2, <1>4 DEF Listening
  <2>1. /\ pc'[d] \in Seated => pc[d] \in Seated
        /\ pc'[d] \in Unseated => pc[d] \in Unseated
    BY <1>2, <1>3 DEF Seated, Unseated
  <2> QED BY <1>2, <1>6, <2>1 DEF Listening
<1> QED BY <1>8, <1>9, <1>10, <1>11

\* A broadcast that arrives adds its number to what its receiver has heard.
LEMMA HeardAppend ==
  ASSUME TypeOK, NEW q \in Conns, NEW c \in Conns, NEW k \in Nat,
         got' = [got EXCEPT ![q] = Append(@, <<c, k>>)]
  PROVE  /\ \A d \in Conns \ {q} : \A n : Heard(d, n)' = Heard(d, n)
         /\ \A n : Heard(q, n)' <=> Heard(q, n) \/ n = k
         /\ NumberedOnce /\ ~ Heard(q, k) => NumberedOnce'
<1>1. got[q] \in Seq(Conns \X Nat) /\ got'[q] = Append(got[q], <<c, k>>)
  BY DEF TypeOK
<1>2. \A d \in Conns \ {q} : got'[d] = got[d]
  BY DEF TypeOK
<1>3. /\ Len(got[q]) \in Nat /\ Len(got'[q]) = Len(got[q]) + 1
      /\ \A i \in 1 .. Len(got[q]) : got'[q][i] = got[q][i]
      /\ got'[q][Len(got[q]) + 1] = <<c, k>>
  BY <1>1
<1>4. \A i \in 1 .. Len(got'[q]) : i \in 1 .. Len(got[q]) \/ i = Len(got[q]) + 1
  BY <1>3
<1>5. \A i \in 1 .. Len(got[q]) : i \in 1 .. Len(got'[q])
  BY <1>3
<1>6. Len(got[q]) + 1 \in 1 .. Len(got'[q])
  BY <1>3
<1>7. <<c, k>>[2] = k
  OBVIOUS
<1>8. \A d \in Conns \ {q} : \A n : Heard(d, n)' = Heard(d, n)
  BY <1>2 DEF Heard
<1>9. \A n : Heard(q, n)' <=> Heard(q, n) \/ n = k
  BY <1>3, <1>4, <1>5, <1>6, <1>7 DEF Heard
<1>10. ASSUME NumberedOnce, ~ Heard(q, k) PROVE NumberedOnce'
  <2> SUFFICES ASSUME NEW d \in Conns, NEW i \in 1 .. Len(got'[d]), NEW j \in 1 .. Len(got'[d]),
                      i # j
               PROVE  got'[d][i][2] # got'[d][j][2]
    BY DEF NumberedOnce
  <2>1. CASE d # q
    BY <1>2, <1>10, <2>1 DEF NumberedOnce
  <2>2. CASE d = q
    <3>1. CASE i \in 1 .. Len(got[q]) /\ j \in 1 .. Len(got[q])
      BY <1>3, <1>10, <2>2, <3>1 DEF NumberedOnce
    <3>2. CASE i = Len(got[q]) + 1 /\ j \in 1 .. Len(got[q])
      BY <1>3, <1>7, <1>10, <2>2, <3>2 DEF Heard
    <3>3. CASE i \in 1 .. Len(got[q]) /\ j = Len(got[q]) + 1
      BY <1>3, <1>7, <1>10, <2>2, <3>3 DEF Heard
    <3> QED BY <1>4, <2>2, <3>1, <3>2, <3>3
  <2> QED BY <2>1, <2>2
<1> QED BY <1>8, <1>9, <1>10

\* A peer is sent a broadcast that it has not heard; nobody else sends it the
\* same number.
LEMMA NumSend ==
  ASSUME WsInv, NumInv, NEW c \in Conns, NEW q \in Conns, SendTo(c, q)
  PROVE  NumInv'
<1> USE DEF WsInv, NumInv
<1>1. PICK p \in {"leaving", "waiting", "limited", "sending"} : pc' = [pc EXCEPT ![c] = p]
  BY DEF SendTo, NextMessage, Goto, At, TypeOK
<1>2. pc[c] = "sending" /\ q \in todo[c] /\ UNCHANGED <<room, number, counter>>
  BY DEF SendTo, At, roomVars
<1>3. \A d \in Conns : todo'[d] \subseteq todo[d]
  <2>1. todo' = [todo EXCEPT ![c] = {}] \/ todo' = [todo EXCEPT ![c] = todo[c] \ {q}]
    BY DEF SendTo
  <2> QED BY <2>1 DEF TypeOK
<1>4. CASE UNCHANGED got
  BY <1>1, <1>2, <1>3, <1>4, NumMove DEF Unseated, Seated
<1>5. CASE ~ UNCHANGED got
  <2>1. got' = [got EXCEPT ![q] = Append(@, <<c, number[c]>>)]
    <3>1. got' = [got EXCEPT ![q] = IF q \in gone THEN @ ELSE Append(@, <<c, number[c]>>)]
      BY <1>5 DEF SendTo
    <3>2. CASE q \in gone
      BY <1>5, <3>1, <3>2 DEF TypeOK
    <3> QED BY <3>1, <3>2
  <2>2. q \notin todo'[c]
    BY <1>5 DEF SendTo, TypeOK
  <2>3. number[c] \in Nat
    BY DEF TypeOK
  <2>4. /\ room[q] = room[c] /\ pc[q] \notin Unseated
        /\ ~ Heard(q, number[c]) /\ HeardUpTo(q, room[c]) /\ number[c] <= counter[room[c]]
    BY <1>2 DEF Awaited, Numbered, At
  <2>5. \A d \in Conns \ {q} : \A n : Heard(d, n)' = Heard(d, n)
    BY <2>1, <2>3, HeardAppend
  <2>6. \A n : Heard(q, n)' <=> Heard(q, n) \/ n = number[c]
    BY <2>1, <2>3, HeardAppend
  <2>7. NumberedOnce'
    BY <2>1, <2>3, <2>4, HeardAppend
  <2>8. \A d \in Conns : pc'[d] = IF d = c THEN p ELSE pc[d]
    BY <1>1 DEF TypeOK
  <2>9. \A d \in Conns : /\ pc'[d] = "sending" => pc[d] = "sending"
                         /\ pc'[d] \in Unseated => pc[d] \in Unseated
                         /\ pc'[d] \in Seated => pc[d] \in Seated
    BY <1>2, <2>8 DEF Unseated, Seated
  <2>10. \A d \in Conns \ {q} : \A r : HeardUpTo(d, r) => HeardUpTo(d, r)'
    BY <1>2, <2>5 DEF HeardUpTo
  <2>11. HeardUpTo(q, room[c])'
    BY <1>2, <2>4, <2>6 DEF HeardUpTo
  <2>12. Numbered'
    BY <1>2, <2>9 DEF Numbered, At
  <2>13. Awaited'
    <3> SUFFICES ASSUME NEW d \in Conns, pc'[d] = "sending", NEW e \in todo'[d]
                 PROVE  /\ room[e] = room[d] /\ pc'[e] \notin Unseated
                        /\ ~ Heard(e, number[d])' /\ HeardUpTo(e, room[d])'
      BY <1>2 DEF Awaited, At
    <3>1. e \in todo[d] /\ e \in Conns /\ pc[d] = "sending"
      BY <1>3, <2>9 DEF TypeOK
    <3>2. /\ room[e] = room[d] /\ pc[e] \notin Unseated
          /\ ~ Heard(e, number[d]) /\ HeardUpTo(e, room[d])
      BY <3>1 DEF Awaited, At
    <3>3. pc'[e] \notin Unseated
      BY <2>9, <3>1, <3>2
    <3>4. CASE e # q
      BY <1>2, <2>5, <2>10, <3>1, <3>2, <3>3, <3>4
    <3>5. CASE e = q
      <4>1. d # c /\ room[d] = room[c]
        BY <2>2, <2>4, <3>2, <3>5
      <4>2. number[d] # number[c]
        BY <1>2, <3>1, <4>1 DEF Numbered, At
      <4>3. ~ Heard(e, number[d])'
        BY <1>2, <2>6, <3>2, <3>5, <4>2
      <4>4. HeardUpTo(e, room[d])'
        BY <1>2, <2>11, <3>5, <4>1
      <4> QED BY <3>2, <3>3, <4>3, <4>4
    <3> QED BY <3>4, <3>5
  <2>14. Listening'
    <3> SUFFICES ASSUME NEW d \in Conns
                 PROVE  /\ pc'[d] \in Seated /\ room[d] \in Rooms => HeardUpTo(d, room[d])'
                        /\ pc'[d] \in Unseated => \A n \in Nat : ~ Heard(d, n)'
      BY <1>2 DEF Listening
    <3>1. CASE d = q
      BY <1>2, <2>4, <2>9, <2>11, <3>1
    <3>2. CASE d # q
      BY <1>2, <2>5, <2>9, <2>10, <3>2 DEF Listening
    <3> QED BY <3>1, <3>2
  <2> QED BY <2>7, <2>12, <2>13, <2>14
<1> QED BY <1>4, <1>5

\* The numbering of a room starts again only when nobody is left in it who
\* could have heard the old one.
LEMMA NumLeave ==
  ASSUME WsInv, NumInv, NEW c \in Conns, LeaveRoom(c)
  PROVE  NumInv'
<1> USE DEF WsInv, NumInv
<1>1. /\ pc' = [pc EXCEPT ![c] = "releasing"] /\ UNCHANGED <<room, number, got, todo>>
      /\ pc[c] = "leaving"
  BY DEF LeaveRoom, Goto, At
<1>2. CASE room[c] = Echo
  <2>1. UNCHANGED counter
    BY <1>2 DEF LeaveRoom
  <2> QED BY <1>1, <2>1, NumMove DEF Unseated, Seated
<1>3. CASE room[c] # Echo
  <2>1. PICK s \in Rooms : s = room[c]
    BY <1>3 DEF TypeOK
  <2>2. PICK left : left = members[s] \ {c}
    OBVIOUS
  <2>3. counter' = [counter EXCEPT ![s] = IF left = {} THEN 0 ELSE counter[s]]
    BY <1>3, <2>1, <2>2 DEF LeaveRoom, LeftCounter
  <2>4. \A d \in Conns : pc'[d] = IF d = c THEN "releasing" ELSE pc[d]
    BY <1>1 DEF TypeOK
  <2>5. \A d \in Conns : /\ pc'[d] = "sending" => pc[d] = "sending"
                         /\ pc'[d] \in Unseated => pc[d] \in Unseated
                         /\ pc'[d] \in Seated => pc[d] \in Seated /\ d # c
    BY <1>1, <2>4 DEF Unseated, Seated
  <2>6. ASSUME NEW d \in Conns, pc'[d] \in Seated, room[d] \in Rooms
        PROVE  counter'[room[d]] = counter[room[d]]
    <3>1. CASE room[d] = s
      <4>1. d \in InRoom(s)
        BY <2>5, <2>6, <3>1 DEF InRoom
      <4>2. d \in left
        BY <2>2, <2>5, <2>6, <4>1 DEF RoomsExact
      <4> QED BY <2>3, <3>1, <4>2 DEF TypeOK
    <3>2. CASE room[d] # s
      BY <2>3, <2>6, <3>2 DEF TypeOK
    <3> QED BY <3>1, <3>2
  <2>7. \A d, n : Heard(d, n)' = Heard(d, n)
    BY <1>1 DEF Heard
  <2>8. \A d \in Conns : pc'[d] \in Seated /\ room[d] \in Rooms =>
          \A e : HeardUpTo(e, room[d]) => HeardUpTo(e, room[d])'
    BY <1>1, <2>6, <2>7 DEF HeardUpTo
  <2>9. \A d \in Conns : pc'[d] = "sending" => pc'[d] \in Seated /\ room[d] \in Rooms
    BY <2>5 DEF Stations, Seated
  <2>10. NumberedOnce'
    BY <1>1 DEF NumberedOnce
  <2>11. Numbered'
    BY <1>1, <2>5, <2>6, <2>9 DEF Numbered, At
  <2>12. Awaited'
    <3> SUFFICES ASSUME NEW d \in Conns, pc'[d] = "sending", NEW e \in todo[d]
                 PROVE  /\ room[e] = room[d] /\ pc'[e] \notin Unseated
                        /\ ~ Heard(e, number[d]) /\ HeardUpTo(e, room[d])'
      BY <1>1, <2>7 DEF Awaited, At
    <3>1. e \in Conns /\ pc[d] = "sending"
      BY <2>5 DEF TypeOK
    <3>2. /\ room[e] = room[d] /\ pc[e] \notin Unseated
          /\ ~ Heard(e, number[d]) /\ HeardUpTo(e, room[d])
      BY <3>1 DEF Awaited, At
    <3> QED BY <2>5, <2>8, <2>9, <3>1, <3>2
  <2>13. Listening'
    <3> SUFFICES ASSUME NEW d \in Conns
                 PROVE  /\ pc'[d] \in Seated /\ room[d] \in Rooms => HeardUpTo(d, room[d])'
                        /\ pc'[d] \in Unseated => \A n \in Nat : ~ Heard(d, n)
      BY <1>1, <2>7 DEF Listening
    <3> QED BY <2>5, <2>8 DEF Listening
  <2> QED BY <2>10, <2>11, <2>12, <2>13
<1> QED BY <1>2, <1>3

\* Nothing that the numbering is about changes.
LEMMA NumSame ==
  ASSUME NumInv, UNCHANGED <<pc, room, todo, number, counter, got>>
  PROVE  NumInv'
<1>1. \A d, n : Heard(d, n)' = Heard(d, n)
  BY DEF Heard
<1>2. \A d, r : HeardUpTo(d, r)' = HeardUpTo(d, r)
  BY <1>1 DEF HeardUpTo
<1> QED
  BY <1>1, <1>2 DEF NumInv, NumberedOnce, Numbered, Awaited, Listening, At

\* The other steps of a handler move it without a broadcast.
LEMMA NumQuiet ==
  ASSUME WsInv, NumInv, NEW c \in Conns,
         \/ Connect(c) \/ Accept(c) \/ RefuseRoom(c) \/ Welcome(c) \/ Receive(c)
         \/ StopWaiting(c) \/ CloseAtLimit(c) \/ SendEcho(c) \/ Release(c)
  PROVE  NumInv'
<1> USE DEF WsInv, At, Goto, Unseated, Seated, roomVars
<1>0. TypeOK /\ \A d \in Conns : todo[d] \subseteq todo[d]
  OBVIOUS
<1>1. ASSUME Connect(c) PROVE NumInv'
  <2>1. PICK p \in {"refused", "accepting"} : pc' = [pc EXCEPT ![c] = p]
    BY <1>1 DEF Connect
  <2> QED BY <1>0, <1>1, <2>1, NumMove DEF Connect
<1>2. ASSUME Accept(c) PROVE NumInv'
  <2>1. PICK p \in {"welcoming", "joining"} :
          pc' = [pc EXCEPT ![c] = p] /\ (p = "welcoming" => room[c] = Echo)
    BY <1>2 DEF Accept
  <2> QED BY <1>0, <1>2, <2>1, NumMove DEF Accept
<1>3. ASSUME RefuseRoom(c) PROVE NumInv'
  BY <1>0, <1>3, NumMove DEF RefuseRoom
<1>4. ASSUME Welcome(c) PROVE NumInv'
  <2>1. PICK p \in {"leaving", "waiting"} : pc' = [pc EXCEPT ![c] = p]
    BY <1>4 DEF Welcome
  <2> QED BY <1>0, <1>4, <2>1, NumMove DEF Welcome
<1>5. ASSUME Receive(c) PROVE NumInv'
  <2>1. PICK p \in {"echoing", "numbering"} :
          pc' = [pc EXCEPT ![c] = p] /\ (p = "echoing" => room[c] = Echo)
    BY <1>5 DEF Receive
  <2> QED BY <1>0, <1>5, <2>1, NumMove DEF Receive
<1>6. ASSUME StopWaiting(c) PROVE NumInv'
  BY <1>0, <1>6, NumMove DEF StopWaiting
<1>7. ASSUME SendEcho(c) PROVE NumInv'
  <2>1. PICK p \in {"leaving", "waiting", "limited"} : pc' = [pc EXCEPT ![c] = p]
    BY <1>7 DEF SendEcho, NextMessage
  <2>2. room[c] = Echo
    BY <1>7 DEF SendEcho, Stations
  <2> QED BY <1>0, <1>7, <2>1, <2>2, NumMove DEF SendEcho
<1>8. ASSUME Release(c) PROVE NumInv'
  BY <1>0, <1>8, NumMove DEF Release
<1>9. ASSUME CloseAtLimit(c) PROVE NumInv'
  BY <1>0, <1>9, NumMove DEF CloseAtLimit
<1> QED BY <1>1, <1>2, <1>3, <1>4, <1>5, <1>6, <1>7, <1>8, <1>9

\* No step makes a number heard twice.
LEMMA NumNext == WsInv /\ NumInv /\ [Next]_vars => NumInv'
<1> SUFFICES ASSUME WsInv, NumInv, [Next]_vars PROVE NumInv'
  OBVIOUS
<1>1. ASSUME NEW c \in Conns, Connect(c) PROVE NumInv'
  BY <1>1, NumQuiet
<1>2. ASSUME NEW c \in Conns, ClientLeaves(c) PROVE NumInv'
  BY <1>2, NumSame DEF ClientLeaves, roomVars
<1>3. ASSUME NEW c \in Conns, HandlerStep(c) PROVE NumInv'
  BY <1>3, NumQuiet, NumJoin, NumNumber, NumSend, NumLeave DEF HandlerStep, WsInv
<1>4. CASE UNCHANGED vars
  BY <1>4, NumSame DEF vars, connVars, roomVars
<1> QED
  BY <1>1, <1>2, <1>3, <1>4 DEF Next

\* No member of a room receives two broadcasts of one number, whoever sends,
\* joins, leaves or is thrown out in between, and however often the room is
\* emptied and filled again.
THEOREM NumbersAreHeardOnce == Spec => []NumberedOnce
<1>1. NumInv => NumberedOnce
  BY DEF NumInv
<1> QED
  BY <1>1, NumInit, NumNext, WsInvariant, PTL DEF Spec

=============================================================================
