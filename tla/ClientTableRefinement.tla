------------------------ MODULE ClientTableRefinement ------------------------
(***************************************************************************)
(* ClientTable implements ChatRoom: what each callback does to the buffer  *)
(* of every connection, however the slots move, and the step of the room   *)
(* it amounts to.                                                          *)
(***************************************************************************)
EXTENDS ClientTableProofs

LEMMA BufferAt ==
  ASSUME TableInv, NEW i \in LiveSlots, NEW w, clients[i].wsi = w
  PROVE  BufferOf(w) = clients[i].buffer
<1>1. w \in open
  BY DEF TableInv, OneSlotPerConnection
<1>2. SlotOf(w) = i
  BY <1>1, SlotOfOpen DEF TableInv, OneSlotPerConnection
<1> QED
  BY <1>2 DEF BufferOf

LEMMA BufferAtNext ==
  ASSUME TableInv', NEW i \in LiveSlots', NEW w, clients'[i].wsi = w
  PROVE  BufferOf(w)' = clients'[i].buffer
<1>1. SlotOf(w)' \in LiveSlots' /\ clients'[SlotOf(w)'].wsi = w
  BY DEF SlotOf
<1>2. SlotOf(w)' = i
  BY <1>1 DEF TableInv, OneSlotPerConnection
<1> QED
  BY <1>2 DEF BufferOf

(* Each open connection has a slot to look at.                             *)
LEMMA OpenSlot ==
  ASSUME TableInv, NEW w \in open
  PROVE  \E i \in LiveSlots : clients[i].wsi = w /\ BufferOf(w) = clients[i].buffer
BY SlotOfOpen, BufferAt

-----------------------------------------------------------------------------
LEMMA AddBuffers ==
  ASSUME TableInv, TableInv', NEW w \in Wsis, NEW u, FilterProtocolConnection(w, u)
  PROVE  /\ BufferOf(w)' = <<>>
         /\ \A v \in open : BufferOf(v)' = BufferOf(v)
<1>1. /\ InBounds
      /\ clients' = [clients EXCEPT ![clients_sz] =
                       [wsi |-> w, buffer |-> <<>>, auth_user_id |-> u]]
      /\ clients_sz' = clients_sz + 1
  BY DEF FilterProtocolConnection, AddClient
<1>2. clients_sz \in Slots /\ LiveSlots = 0 .. clients_sz - 1
  BY <1>1, InBoundsStage DEF TableInv
<1>3. LiveSlots' = LiveSlots \cup {clients_sz} /\ clients_sz \notin LiveSlots
  BY <1>1, <1>2 DEF LiveSlots, Slots
<1>4. clients'[clients_sz].wsi = w /\ clients'[clients_sz].buffer = <<>>
  BY <1>1, <1>2 DEF TableInv, TypeOK
<1>5. \A i \in LiveSlots : clients'[i] = clients[i]
  BY <1>1, <1>2, <1>3 DEF TableInv, TypeOK, LiveSlots
<1>6. ASSUME NEW v \in open PROVE BufferOf(v)' = BufferOf(v)
  <2>1. PICK i \in LiveSlots : clients[i].wsi = v /\ BufferOf(v) = clients[i].buffer
    BY OpenSlot
  <2> QED
    BY <2>1, <1>3, <1>5, BufferAtNext
<1> QED
  BY <1>3, <1>4, <1>6, BufferAtNext

LEMMA AddFailsBuffers ==
  ASSUME TableInv, TableInv', FilterAddFails, NEW v \in open
  PROVE  BufferOf(v)' = BufferOf(v)
<1>1. PICK i \in LiveSlots : clients[i].wsi = v /\ BufferOf(v) = clients[i].buffer
  BY OpenSlot
<1> QED
  BY <1>1, AddFailsLeavesClients, BufferAtNext

(* Whom a broadcast reaches: those with room, and all of those unless      *)
(* copying the line may fail.                                              *)
LEMMA ReceiveBuffers ==
  ASSUME TableInv, TableInv', NEW w \in Wsis, Receive(w)
  PROVE  \E to \in SUBSET {v \in open : Len(BufferOf(v)) < BufferCt - 1} :
           /\ AllocMayFail \/ to = {v \in open : Len(BufferOf(v)) < BufferCt - 1}
           /\ \A v \in open : BufferOf(v)' =
                IF v \in to THEN Append(BufferOf(v), Len(log) + 1) ELSE BufferOf(v)
<1>1. PICK reach \in Reaches : WriteAll(Len(log) + 1, reach)
  BY DEF Receive
<1>2. InBounds /\ LiveSlots' = LiveSlots
  BY DEF Receive, LiveSlots
<1> DEFINE space == {v \in open : Len(BufferOf(v)) < BufferCt - 1}
           to == {clients[i].wsi : i \in Reached(reach)}
<1>3. to \subseteq space
  BY BufferAt DEF Reached, TableInv, OneSlotPerConnection
<1>4. AllocMayFail \/ to = space
  <2> SUFFICES ASSUME ~AllocMayFail, NEW v \in space PROVE v \in to
    BY <1>3
  <2>1. reach = clients_sz
    BY <1>1 DEF Reaches
  <2>2. PICK i \in LiveSlots : clients[i].wsi = v /\ BufferOf(v) = clients[i].buffer
    BY OpenSlot
  <2>3. i \in Reached(reach)
    BY <2>1, <2>2 DEF Reached, LiveSlots
  <2> QED
    BY <2>2, <2>3
<1>5. ASSUME NEW v \in open
      PROVE  BufferOf(v)' =
               IF v \in to THEN Append(BufferOf(v), Len(log) + 1) ELSE BufferOf(v)
  <2>1. PICK i \in LiveSlots : clients[i].wsi = v /\ BufferOf(v) = clients[i].buffer
    BY OpenSlot
  <2>2. i \in Slots /\ clients[i] \in ClientRec
    BY LiveClient
  <2>3. v \in to <=> i \in Reached(reach)
    BY <2>1 DEF Reached, TableInv, OneSlotPerConnection
  <2>4. CASE i \in Reached(reach)
    <3>1. clients'[i] = [clients[i] EXCEPT !.buffer = Append(@, Len(log) + 1)]
      BY <1>1, <2>2, <2>4 DEF WriteAll
    <3>2. /\ clients'[i].wsi = v
          /\ clients'[i].buffer = Append(clients[i].buffer, Len(log) + 1)
      BY <3>1, <2>1, <2>2 DEF ClientRec
    <3> QED
      BY <3>2, <2>1, <2>3, <2>4, <1>2, BufferAtNext
  <2>5. CASE i \notin Reached(reach)
    <3>1. clients'[i] = clients[i]
      BY <1>1, <2>2, <2>5 DEF WriteAll
    <3> QED
      BY <3>1, <2>1, <2>3, <2>5, <1>2, BufferAtNext
  <2> QED
    BY <2>4, <2>5
<1> QED
  BY <1>3, <1>4, <1>5

LEMMA WriteableBuffers ==
  ASSUME TableInv, TableInv', NEW w \in Wsis, ServerWriteable(w)
  PROVE  /\ written' = [written EXCEPT ![w] = @ \o BufferOf(w)]
         /\ BufferOf(w)' = <<>>
         /\ \A v \in open \ {w} : BufferOf(v)' = BufferOf(v)
<1>1. InBounds /\ LiveSlots' = LiveSlots
  BY DEF ServerWriteable, LiveSlots
<1>2. PICK i \in Slots :
        /\ IsClientOf(i, w)
        /\ written' = [written EXCEPT ![w] = @ \o clients[i].buffer]
        /\ clients' = [clients EXCEPT ![i].buffer = <<>>]
  BY DEF ServerWriteable
<1>3. i \in LiveSlots /\ clients[i].wsi = w
  BY <1>1, <1>2, FoundClient
<1>4. BufferOf(w) = clients[i].buffer
  BY <1>3, BufferAt
<1>5. clients'[i] = [clients[i] EXCEPT !.buffer = <<>>]
  BY <1>2 DEF TableInv, TypeOK
<1>6. clients'[i].wsi = w /\ clients'[i].buffer = <<>>
  BY <1>3, <1>5, LiveClient DEF ClientRec
<1>7. ASSUME NEW v \in open \ {w} PROVE BufferOf(v)' = BufferOf(v)
  <2>1. PICK j \in LiveSlots : clients[j].wsi = v /\ BufferOf(v) = clients[j].buffer
    BY OpenSlot
  <2>2. clients'[j] = clients[j]
    BY <2>1, <1>2, <1>3, LiveClient DEF TableInv, TypeOK
  <2> QED
    BY <2>1, <2>2, <1>1, BufferAtNext
<1> QED
  BY <1>1, <1>2, <1>3, <1>4, <1>6, <1>7, BufferAtNext

LEMMA ClosedBuffers ==
  ASSUME TableInv, TableInv', NEW w \in Wsis, Closed(w), NEW v \in open \ {w}
  PROVE  BufferOf(v)' = BufferOf(v)
<1>1. InBounds
  BY DEF Closed
<1>2. PICK idx \in Slots : IsClientOf(idx, w) /\ DeleteClient(idx)
  BY DEF Closed
<1>3. \A j \in LiveSlots' : /\ Shifted(idx, j) \in LiveSlots \ {idx}
                            /\ clients'[j] = clients[Shifted(idx, j)]
  BY <1>1, <1>2, DeleteShifts
<1>4. PICK j \in LiveSlots' : clients'[j].wsi = v
  <2>1. open' = open \ {w}
    BY DEF Closed
  <2> QED
    BY <2>1 DEF TableInv, OneSlotPerConnection
<1>5. BufferOf(v)' = clients'[j].buffer
  BY <1>4, BufferAtNext
<1>6. BufferOf(v) = clients[Shifted(idx, j)].buffer
  BY <1>3, <1>4, BufferAt
<1> QED
  BY <1>3, <1>5, <1>6

-----------------------------------------------------------------------------
LEMMA OpenTypes ==
  ASSUME TableInv, NEW v \in open
  PROVE  /\ v \in Wsis
         /\ BufferOf(v) \in Seq(Nat) /\ written[v] \in Seq(Nat)
         /\ Feed(v) = written[v] \o BufferOf(v)
<1>1. PICK i \in LiveSlots : clients[i].wsi = v /\ BufferOf(v) = clients[i].buffer
  BY OpenSlot
<1> QED
  BY <1>1, LiveClient DEF Feed

(* s is a prefix of t.                                                     *)
Extends(t, s) == Len(s) <= Len(t) /\ \A k \in 1 .. Len(s) : t[k] = s[k]

LEMMA AppendExtends ==
  ASSUME NEW s \in Seq(Nat), NEW t \in Seq(Nat), NEW n \in Nat
  PROVE  Extends(s \o Append(t, n), s \o t)
<1>1. s \o Append(t, n) = Append(s \o t, n)
  OBVIOUS
<1>2. s \o t \in Seq(Nat)
  OBVIOUS
<1> QED
  BY <1>1, <1>2 DEF Extends

LEMMA ConcatNumbers ==
  ASSUME NEW s \in Seq(Nat), NEW t \in Seq(Nat)
  PROVE  s \o t \in Seq(Nat)
OBVIOUS

LEMMA FlushKeeps ==
  ASSUME NEW s \in Seq(Nat), NEW t \in Seq(Nat)
  PROVE  (s \o t) \o <<>> = s \o t
OBVIOUS

LEMMA SameExtends ==
  ASSUME NEW s \in Seq(Nat)
  PROVE  Extends(s, s)
BY DEF Extends

(* Nothing that was addressed to a connection is ever taken back.          *)
THEOREM NothingIsTakenBack == Spec => NothingTakenBack
<1> DEFINE Kept(v) == Extends(Feed(v)', Feed(v))
<1>1. ASSUME TableInv, TableInv', [Next]_vars, NEW v \in open, v \in open'
      PROVE  Kept(v)
  <2>1. /\ v \in Wsis /\ BufferOf(v) \in Seq(Nat) /\ written[v] \in Seq(Nat)
        /\ Feed(v) = written[v] \o BufferOf(v)
        /\ Feed(v) \in Seq(Nat)
    <3>1. /\ v \in Wsis /\ BufferOf(v) \in Seq(Nat) /\ written[v] \in Seq(Nat)
          /\ Feed(v) = written[v] \o BufferOf(v)
      BY <1>1, OpenTypes
    <3> QED
      BY <3>1, ConcatNumbers
  <2>2. Feed(v)' = written'[v] \o BufferOf(v)'
    BY DEF Feed
  <2>3. Len(log) \in Nat
    BY <1>1 DEF TableInv, TypeOK
  <2>4. CASE \E w \in Wsis, u \in Users \cup {NoUser} : FilterProtocolConnection(w, u)
    BY <1>1, <2>1, <2>2, <2>4, AddBuffers, SameExtends DEF FilterProtocolConnection
  <2>5. CASE FilterAddFails
    BY <1>1, <2>1, <2>2, <2>5, AddFailsBuffers, AddFailsLeavesClients, SameExtends
  <2>6. CASE \E w \in Wsis : Receive(w)
    <3>1. PICK w \in Wsis : Receive(w)
      BY <2>6
    <3>2. written'[v] = written[v]
      BY <3>1 DEF Receive
    <3>3. \/ BufferOf(v)' = Append(BufferOf(v), Len(log) + 1)
          \/ BufferOf(v)' = BufferOf(v)
      BY <1>1, <3>1, ReceiveBuffers
    <3>4. CASE BufferOf(v)' = Append(BufferOf(v), Len(log) + 1)
      BY <2>1, <2>2, <2>3, <3>2, <3>4, AppendExtends
    <3>5. CASE BufferOf(v)' = BufferOf(v)
      BY <2>1, <2>2, <3>2, <3>5, SameExtends
    <3> QED
      BY <3>3, <3>4, <3>5
  <2>7. CASE \E w \in Wsis : ServerWriteable(w)
    <3>1. PICK w \in Wsis : ServerWriteable(w)
      BY <2>7
    <3>2. /\ written' = [written EXCEPT ![w] = @ \o BufferOf(w)]
          /\ BufferOf(w)' = <<>>
          /\ v # w => BufferOf(v)' = BufferOf(v)
      BY <1>1, <3>1, WriteableBuffers
    <3>3. CASE v = w
      <4>1. Feed(v)' = (written[v] \o BufferOf(v)) \o <<>>
        BY <1>1, <2>1, <2>2, <3>2, <3>3 DEF TableInv, TypeOK
      <4> QED
        BY <2>1, <4>1, FlushKeeps, SameExtends
    <3>4. CASE v # w
      <4>1. written'[v] = written[v]
        BY <1>1, <2>1, <3>2, <3>4 DEF TableInv, TypeOK
      <4> QED
        BY <2>1, <2>2, <3>2, <3>4, <4>1, SameExtends
    <3> QED
      BY <3>3, <3>4
  <2>8. CASE \E w \in Wsis : Closed(w)
    <3>1. PICK w \in Wsis : Closed(w)
      BY <2>8
    <3>2. v # w /\ written'[v] = written[v]
      BY <1>1, <2>1, <3>1 DEF Closed, TableInv, TypeOK
    <3> QED
      BY <1>1, <2>1, <2>2, <3>1, <3>2, ClosedBuffers, SameExtends
  <2>9. CASE UNCHANGED vars
    <3>1. BufferOf(v)' = BufferOf(v) /\ written' = written
      BY <2>9 DEF vars, tableVars, lwsVars, BufferOf, SlotOf, LiveSlots
    <3> QED
      BY <2>1, <2>2, <3>1, SameExtends
  <2> QED
    BY <1>1, <2>4, <2>5, <2>6, <2>7, <2>8, <2>9 DEF Next
<1>2. TableInv /\ TableInv' /\ [Next]_vars => [KeepsFeeds]_vars
  BY <1>1 DEF Extends, KeepsFeeds
<1> QED
  BY <1>2, TableInvariant, PTL DEF Spec, NothingTakenBack

-----------------------------------------------------------------------------
(* The queue and the names of the room, as the table has them.             *)
Queue == [w \in Wsis |-> IF w \in open THEN BufferOf(w) ELSE <<>>]
Names == [k \in 1 .. Len(log) |-> log[k].from]

LEMMA RoomInit == Init => Room!Init
<1> SUFFICES ASSUME Init PROVE Room!Init
  OBVIOUS
<1>1. Names = <<>>
  BY DEF Init, Names
<1>2. Queue = [w \in Wsis |-> <<>>]
  BY DEF Init, Queue
<1> QED
  BY <1>1, <1>2 DEF Init, Room!Init, Room!NoUser, NoUser, Queue, Names

LEMMA RoomJoin ==
  ASSUME TableInv, TableInv', NEW w \in Wsis, NEW u \in Users \cup {NoUser},
         FilterProtocolConnection(w, u)
  PROVE  Room!Join(w, u)
<1>1. /\ w \notin open /\ open' = open \cup {w}
      /\ auth' = [auth EXCEPT ![w] = u]
      /\ UNCHANGED <<written, log>>
  BY DEF FilterProtocolConnection
<1>2. \A v \in Wsis : (IF v \in open' THEN BufferOf(v)' ELSE <<>>)
                        = (IF v \in open THEN BufferOf(v) ELSE <<>>)
  BY <1>1, AddBuffers
<1>3. Queue' = Queue
  BY <1>2 DEF Queue
<1>4. Names' = Names
  BY <1>1 DEF Names
<1> QED
  BY <1>1, <1>3, <1>4 DEF Room!Join, Queue, Names

LEMMA RoomPost ==
  ASSUME TableInv, TableInv', NEW w \in Wsis, Receive(w)
  PROVE  Room!Post(w)
<1>1. w \in open /\ UNCHANGED <<open, auth, written>>
  BY DEF Receive
<1>2. /\ Len(log') = Len(log) + 1 /\ Len(log) \in Nat
      /\ \A k \in 1 .. Len(log) : log'[k] = log[k]
      /\ log'[Len(log) + 1].from = NameFor(auth[w])
  BY ReceiveLog DEF TableInv, TypeOK
<1>3. /\ NameFor(auth[w]) \in Users
      /\ auth[w] \in Users => NameFor(auth[w]) = auth[w]
  BY NameIsAUser DEF NameFor
<1>4. Names' = Append(Names, NameFor(auth[w])) /\ Len(Names) = Len(log)
  <2>1. Names \in Seq(Users) /\ Len(Names) = Len(log)
    <3> DEFINE Broadcast == [from : Users, author : Users \cup {NoUser}]
    <3>1. \A k \in 1 .. Len(log) : log[k].from \in Users
      <4>1. log \in Seq(Broadcast)
        BY DEF TableInv, TypeOK
      <4>2. \A k \in 1 .. Len(log) : log[k] \in Broadcast
        <5> HIDE DEF Broadcast
        <5> QED
          BY <4>1
      <4> QED
        BY <4>2
    <3>2. Names \in [1 .. Len(log) -> Users]
      BY <3>1 DEF Names
    <3>3. Len(log) \in Nat
      BY DEF TableInv, TypeOK
    <3> QED
      BY <3>2, <3>3
  <2>2. \A k \in 1 .. Len(log) + 1 :
          log'[k].from = IF k <= Len(log) THEN Names[k] ELSE NameFor(auth[w])
    BY <1>2 DEF Names
  <2>3. Names' = [k \in 1 .. Len(log) + 1 |-> log'[k].from]
    BY <1>2 DEF Names
  <2>4. Append(Names, NameFor(auth[w])) =
          [k \in 1 .. Len(log) + 1 |->
             IF k <= Len(log) THEN Names[k] ELSE NameFor(auth[w])]
    BY <2>1, <1>2, <1>3
  <2> QED
    BY <2>1, <2>2, <2>3, <2>4
<1> DEFINE space == {v \in open : Len(BufferOf(v)) < BufferCt - 1}
<1>5. PICK to \in SUBSET space :
        /\ AllocMayFail \/ to = space
        /\ \A v \in open : BufferOf(v)' =
             IF v \in to THEN Append(BufferOf(v), Len(log) + 1) ELSE BufferOf(v)
  BY ReceiveBuffers
<1>6. Queue' = [v \in Wsis |->
                  IF v \in to THEN Append(Queue[v], Len(Names) + 1) ELSE Queue[v]]
  BY <1>1, <1>4, <1>5 DEF Queue
<1>7. {v \in Wsis : v \in open /\ Len(Queue[v]) < BufferCt - 1} = space
  BY DEF Queue, TableInv, TypeOK
<1> HIDE DEF space
<1> QED
  BY <1>1, <1>3, <1>4, <1>5, <1>6, <1>7
     DEF Room!Post, Room!HasSpace, Queue, Names

(* A writable callback delivers the queue; one that finds it empty would   *)
(* change nothing.                                                         *)
LEMMA RoomDeliver ==
  ASSUME TableInv, TableInv', NEW w \in Wsis, ServerWriteable(w)
  PROVE  Room!Deliver(w) \/ UNCHANGED Room!vars
<1>1. w \in open /\ UNCHANGED <<open, auth, log>>
  BY DEF ServerWriteable
<1>2. /\ written' = [written EXCEPT ![w] = @ \o BufferOf(w)]
      /\ BufferOf(w)' = <<>>
      /\ \A v \in open \ {w} : BufferOf(v)' = BufferOf(v)
  BY WriteableBuffers
<1>3. Names' = Names
  BY <1>1 DEF Names
<1>4. Queue[w] = BufferOf(w)
  BY <1>1 DEF Queue
<1>5. Queue' = [Queue EXCEPT ![w] = <<>>]
  BY <1>1, <1>2 DEF Queue
<1>6. CASE BufferOf(w) # <<>>
  BY <1>1, <1>2, <1>3, <1>4, <1>5, <1>6 DEF Room!Deliver, Queue, Names
<1>7. CASE BufferOf(w) = <<>>
  <2>1. Queue' = Queue
    BY <1>4, <1>5, <1>7 DEF Queue
  <2>2. written' = written
    <3>1. written[w] \o <<>> = written[w]
      BY <1>1, OpenTypes
    <3> QED
      BY <3>1, <1>2, <1>7 DEF TableInv, TypeOK
  <2> QED
    BY <2>1, <2>2, <1>1, <1>3 DEF Room!vars, Queue, Names
<1> QED
  BY <1>6, <1>7

LEMMA RoomLeave ==
  ASSUME TableInv, TableInv', NEW w \in Wsis, Closed(w)
  PROVE  Room!Leave(w)
<1>1. /\ w \in open /\ open' = open \ {w}
      /\ written' = [written EXCEPT ![w] = <<>>]
      /\ auth' = [auth EXCEPT ![w] = NoUser]
      /\ UNCHANGED log
  BY DEF Closed
<1>2. Names' = Names
  BY <1>1 DEF Names
<1>3. Queue' = [Queue EXCEPT ![w] = <<>>]
  BY <1>1, ClosedBuffers DEF Queue
<1> QED
  BY <1>1, <1>2, <1>3 DEF Room!Leave, Room!NoUser, NoUser, Queue, Names

(* Every behaviour of the client table is a behaviour of the room.         *)
THEOREM Implements == Spec => RoomSpec
<1>1. TableInv /\ TableInv' /\ [Next]_vars => [Room!Next]_Room!vars
  <2> SUFFICES ASSUME TableInv, TableInv', [Next]_vars
               PROVE  Room!Next \/ UNCHANGED Room!vars
    OBVIOUS
  <2>1. CASE \E w \in Wsis, u \in Users \cup {NoUser} : FilterProtocolConnection(w, u)
    BY <2>1, RoomJoin DEF Room!Next, Room!NoUser, NoUser
  <2>2. CASE FilterAddFails
    <3>1. UNCHANGED <<open, written, auth, log>>
      BY <2>2, AddFailsLeavesClients
    <3>2. Queue' = Queue /\ Names' = Names
      BY <2>2, <3>1, AddFailsBuffers DEF Queue, Names
    <3> QED
      BY <3>1, <3>2 DEF Room!vars, Queue, Names
  <2>3. CASE \E w \in Wsis : Receive(w)
    BY <2>3, RoomPost DEF Room!Next
  <2>4. CASE \E w \in Wsis : ServerWriteable(w)
    BY <2>4, RoomDeliver DEF Room!Next
  <2>5. CASE \E w \in Wsis : Closed(w)
    BY <2>5, RoomLeave DEF Room!Next
  <2>6. CASE UNCHANGED vars
    <3>1. Queue' = Queue /\ Names' = Names
      BY <2>6 DEF vars, tableVars, lwsVars, Queue, Names, BufferOf, SlotOf, LiveSlots
    <3> QED
      BY <2>6, <3>1 DEF vars, tableVars, lwsVars, Room!vars, Queue, Names
  <2> QED
    BY <2>1, <2>2, <2>3, <2>4, <2>5, <2>6 DEF Next
<1> QED
  BY <1>1, RoomInit, TableInvariant, PTL DEF Spec, RoomSpec, Room!Spec
==============================================================================
