-------------------------- MODULE ClientTableProofs --------------------------
(***************************************************************************)
(* Proofs about ClientTable, for any number of connections, users, slots   *)
(* and lines.                                                              *)
(***************************************************************************)
EXTENDS ClientTable, TLAPS

Line == 1 .. MaxLines
ClientRec == [wsi : Wsis \cup {NoWsi}, buffer : Lines \cup {NoBuffer},
              auth_user_id : Users \cup {NoUser, 0}]

(* The three stages of the allocation; after the growth step the table no  *)
(* longer fits.                                                            *)
Capacity ==
  \/ clients_sz_max = 0 /\ clients_bytes = 0 /\ clients_sz = 0
  \/ /\ clients_sz_max = InitSlots
     /\ clients_bytes = InitSlots * SlotBytes
     /\ clients_sz < InitSlots
  \/ /\ clients_sz_max = 2 * InitSlots
     /\ clients_bytes = 2 * InitSlots
     /\ clients_sz \in {InitSlots - 1, InitSlots}

(* The invariant that carries type correctness and the one-to-one match of *)
(* slots and connections: without the state of the allocation an index     *)
(* could leave the array, without NoLostWakeup a line could be appended to *)
(* a NULL buffer.                                                          *)
TableInv == TypeOK /\ Capacity /\ OneSlotPerConnection /\ NoLostWakeup

-----------------------------------------------------------------------------
LEMMA MulMono ==
  ASSUME NEW a \in Nat, NEW b \in Nat, NEW c \in Nat, a <= b
  PROVE  a * c <= b * c
  OBVIOUS

(* Growing leaves less memory than the slots in use need.                  *)
LEMMA GrowthOverruns ==
  ASSUME NEW n \in {InitSlots - 1, InitSlots}
  PROVE  n * SlotBytes > 2 * InitSlots
<1> USE ClientTableAssumption DEF ClientTableAssumption
<1>1. n * 5 <= n * SlotBytes
  BY MulMono
<1>2. n \in Nat /\ n * 5 > 2 * InitSlots
  OBVIOUS
<1> QED
  BY <1>1, <1>2

LEMMA InBoundsStage ==
  ASSUME TypeOK, Capacity, InBounds
  PROVE  /\ clients_sz \in 0 .. InitSlots - 1
         /\ clients_sz \in Slots
         /\ LiveSlots = 0 .. clients_sz - 1
         /\ clients_sz_max \in {0, InitSlots}
<1> USE ClientTableAssumption DEF ClientTableAssumption
<1>1. ~(clients_bytes = 2 * InitSlots /\ clients_sz \in {InitSlots - 1, InitSlots})
  BY GrowthOverruns DEF InBounds, TypeOK
<1> QED
  BY <1>1 DEF Capacity, TypeOK, Slots, LiveSlots

-----------------------------------------------------------------------------
LEMMA TableInit == Init => TableInv
<1> SUFFICES ASSUME Init PROVE TableInv
  OBVIOUS
<1> USE ClientTableAssumption DEF ClientTableAssumption, Init
<1>1. LiveSlots = {}
  BY DEF LiveSlots, Slots
<1>2. TypeOK
  BY DEF TypeOK, Cleared, Slots, Lines
<1> QED
  BY <1>1, <1>2 DEF TableInv, Capacity, OneSlotPerConnection, NoLostWakeup

(* What every action that runs inside its memory may assume.               *)
LEMMA FoundClient ==
  ASSUME TableInv, InBounds, NEW i, NEW w, IsClientOf(i, w)
  PROVE  /\ i \in LiveSlots /\ i \in Slots /\ clients[i].wsi = w
         /\ clients[i].buffer \in Lines
         /\ clients[i].auth_user_id = auth[w]
<1>1. i \in LiveSlots /\ i \in Slots /\ clients[i].wsi = w
  BY DEF IsClientOf, LiveSlots
<1>2. clients[i].buffer \in Lines \cup {NoBuffer}
  BY <1>1 DEF TableInv, TypeOK
<1>3. clients[i].buffer # NoBuffer
  BY <1>1, ClientTableAssumption DEF ClientTableAssumption, TableInv, NoLostWakeup
<1> QED
  BY <1>1, <1>2, <1>3 DEF TableInv, OneSlotPerConnection

LEMMA ReserveCapacity ==
  ASSUME TableInv, InBounds, ReserveSlot
  PROVE  /\ clients_sz_max' \in {InitSlots, 2 * InitSlots}
         /\ clients_bytes' \in Nat
         /\ \/ /\ clients_sz_max' = InitSlots
               /\ clients_bytes' = InitSlots * SlotBytes
               /\ clients_sz + 1 < InitSlots
            \/ /\ clients_sz_max' = 2 * InitSlots
               /\ clients_bytes' = 2 * InitSlots
               /\ clients_sz = InitSlots - 1
<1> USE ClientTableAssumption DEF ClientTableAssumption
<1>1. clients_sz \in 0 .. InitSlots - 1 /\ clients_sz_max \in {0, InitSlots}
  BY InBoundsStage DEF TableInv
<1>2. InitSlots * SlotBytes \in Nat
  OBVIOUS
<1> QED
  BY <1>1, <1>2 DEF ReserveSlot, TableInv, Capacity, TypeOK

LEMMA AddStep ==
  ASSUME TableInv, NEW w \in Wsis, NEW u \in Users \cup {NoUser},
         FilterProtocolConnection(w, u)
  PROVE  TableInv'
<1> USE ClientTableAssumption DEF ClientTableAssumption
<1>1. InBounds /\ w \notin open /\ ReserveSlot
  BY DEF FilterProtocolConnection, AddClient
<1>2. /\ clients_sz \in 0 .. InitSlots - 1
      /\ clients_sz \in Slots
      /\ LiveSlots = 0 .. clients_sz - 1
  BY <1>1, InBoundsStage DEF TableInv
<1>3. /\ clients_sz' = clients_sz + 1
      /\ clients' = [clients EXCEPT ![clients_sz] =
                       [wsi |-> w, buffer |-> <<>>, auth_user_id |-> u]]
      /\ open' = open \cup {w}
      /\ auth' = [auth EXCEPT ![w] = u]
      /\ joined' = [joined EXCEPT ![w] = Len(log)]
      /\ UNCHANGED <<want, written, log>>
  BY DEF FilterProtocolConnection, AddClient
<1>4. LiveSlots' = LiveSlots \cup {clients_sz}
  BY <1>2, <1>3 DEF LiveSlots, Slots
<1>5. Capacity'
  BY <1>1, <1>2, <1>3, ReserveCapacity DEF Capacity
<1>6. TypeOK'
  <2>1. [wsi |-> w, buffer |-> <<>>, auth_user_id |-> u] \in ClientRec
    BY DEF ClientRec, Lines
  <2>2. clients' \in [Slots -> ClientRec]
    BY <2>1, <1>2, <1>3 DEF TableInv, TypeOK, ClientRec
  <2>3. clients_sz' \in 0 .. InitSlots
    BY <1>2, <1>3
  <2>4. clients_sz_max' \in {0, InitSlots, 2 * InitSlots} /\ clients_bytes' \in Nat
    BY <1>1, ReserveCapacity
  <2>5. Len(log) \in 0 .. MaxLines
    BY DEF TableInv, TypeOK
  <2> QED
    BY <2>2, <2>3, <2>4, <2>5, <1>3 DEF TableInv, TypeOK, ClientRec
<1>7. \A i \in LiveSlots : clients'[i] = clients[i] /\ clients[i].wsi \in open
  BY <1>2, <1>3 DEF TableInv, TypeOK, OneSlotPerConnection
<1>8. clients'[clients_sz] = [wsi |-> w, buffer |-> <<>>, auth_user_id |-> u]
  BY <1>2, <1>3 DEF TableInv, TypeOK
<1>9. OneSlotPerConnection'
  BY <1>1, <1>3, <1>4, <1>7, <1>8 DEF TableInv, TypeOK, OneSlotPerConnection
<1>10. NoLostWakeup'
  <2>1. \A i \in LiveSlots :
          /\ clients'[i].buffer \in Seq(Nat)
          /\ Len(clients'[i].buffer) < BufferCt
          /\ clients'[i].buffer # <<>> => clients'[i].wsi \in want'
    BY <1>3, <1>7 DEF TableInv, NoLostWakeup
  <2>2. /\ clients'[clients_sz].buffer \in Seq(Nat)
        /\ Len(clients'[clients_sz].buffer) < BufferCt
        /\ clients'[clients_sz].buffer = <<>>
    BY <1>8
  <2> QED
    BY <2>1, <2>2, <1>4 DEF NoLostWakeup
<1> QED
  BY <1>5, <1>6, <1>9, <1>10 DEF TableInv

LEMMA AppendLine ==
  ASSUME NEW s \in Lines, NEW k \in 1 .. MaxLines
  PROVE  /\ Append(s, k) \in Lines
         /\ Len(Append(s, k)) = Len(s) + 1
         /\ s \in Seq(Nat) /\ Append(s, k) \in Seq(Nat)
BY ClientTableAssumption DEF ClientTableAssumption, Lines

LEMMA LinesAreNumbers ==
  ASSUME NEW s \in Lines
  PROVE  s \in Seq(Nat)
BY ClientTableAssumption DEF ClientTableAssumption, Lines

LEMMA EmptyBuffer == <<>> \in Lines
BY DEF Lines

LEMMA NewBuffer ==
  ASSUME NEW c \in ClientRec, NEW b \in Lines \cup {NoBuffer}
  PROVE  /\ [c EXCEPT !.buffer = b] \in ClientRec
         /\ [c EXCEPT !.buffer = b].buffer = b
         /\ [c EXCEPT !.buffer = b].wsi = c.wsi
         /\ [c EXCEPT !.buffer = b].auth_user_id = c.auth_user_id
BY DEF ClientRec

LEMMA AddFailsStep ==
  ASSUME TableInv, FilterAddFails
  PROVE  TableInv'
<1> USE ClientTableAssumption DEF ClientTableAssumption
<1>1. /\ InBounds /\ ReserveSlot
      /\ UNCHANGED <<clients_sz, open, want, written, auth, joined, log>>
  BY DEF FilterAddFails, lwsVars
<1>2. /\ clients_sz \in 0 .. InitSlots - 1
      /\ clients_sz \in Slots
      /\ LiveSlots = 0 .. clients_sz - 1
  BY <1>1, InBoundsStage DEF TableInv
<1>3. PICK b \in {NoBuffer, <<>>} :
        clients' = [clients EXCEPT ![clients_sz].buffer = b]
  BY DEF FilterAddFails
<1>4. Capacity'
  BY <1>1, <1>2, ReserveCapacity DEF Capacity
<1>5. TypeOK'
  <2>1. clients[clients_sz] \in ClientRec
    BY <1>2 DEF TableInv, TypeOK, ClientRec
  <2>2. b \in Lines \cup {NoBuffer}
    BY <1>3, EmptyBuffer
  <2>3. [clients[clients_sz] EXCEPT !.buffer = b] \in ClientRec
    BY <2>1, <2>2, NewBuffer
  <2>4. clients' \in [Slots -> ClientRec]
    BY <2>3, <1>2, <1>3 DEF TableInv, TypeOK, ClientRec
  <2>5. clients_sz_max' \in {0, InitSlots, 2 * InitSlots} /\ clients_bytes' \in Nat
    BY <1>1, ReserveCapacity
  <2> QED
    BY <2>4, <2>5, <1>1 DEF TableInv, TypeOK, ClientRec
<1>6. LiveSlots' = LiveSlots /\ \A i \in LiveSlots : clients'[i] = clients[i]
  BY <1>1, <1>2, <1>3 DEF TableInv, TypeOK, LiveSlots
<1>7. OneSlotPerConnection'
  BY <1>1, <1>6 DEF TableInv, OneSlotPerConnection
<1>8. NoLostWakeup'
  BY <1>1, <1>6 DEF TableInv, NoLostWakeup
<1> QED
  BY <1>4, <1>5, <1>7, <1>8 DEF TableInv

(* A line always carries the name of some user.                            *)
LEMMA NameIsAUser ==
  ASSUME NEW u
  PROVE  NameFor(u) \in Users
BY LastUserAssumption DEF NameFor

LEMMA ReceiveStep ==
  ASSUME TableInv, NEW w \in Wsis, Receive(w)
  PROVE  TableInv'
<1> USE ClientTableAssumption DEF ClientTableAssumption
<1>1. /\ InBounds /\ Len(log) < MaxLines /\ w \in open
      /\ UNCHANGED <<clients_sz, clients_sz_max, clients_bytes,
                     open, written, auth, joined>>
  BY DEF Receive
<1>2. PICK i \in Slots, reach \in Reaches :
        /\ IsClientOf(i, w)
        /\ WriteAll(Len(log) + 1, reach)
        /\ log' = Append(log, [from |-> NameFor(clients[i].auth_user_id),
                               author |-> auth[w]])
  BY DEF Receive
<1>3. LiveSlots' = LiveSlots
  BY <1>1 DEF LiveSlots
<1>4. Len(log) + 1 \in 1 .. MaxLines
  BY <1>1 DEF TableInv, TypeOK
<1> DEFINE hit == Reached(reach)
           new(j) == [clients[j] EXCEPT !.buffer = Append(@, Len(log) + 1)]
<1>5. /\ clients' = [j \in Slots |-> IF j \in hit THEN new(j) ELSE clients[j]]
      /\ want' = want \cup {clients[j].wsi : j \in hit}
  BY <1>2 DEF WriteAll
<1>6. hit \subseteq LiveSlots /\ \A j \in hit : Len(clients[j].buffer) < BufferCt - 1
  BY DEF Reached
<1>7. \A j \in LiveSlots : j \in Slots /\ clients[j].buffer \in Lines /\ clients[j] \in ClientRec
  BY DEF TableInv, TypeOK, NoLostWakeup, LiveSlots, ClientRec
<1> HIDE DEF hit
<1>8. \A j \in hit : /\ new(j) \in ClientRec
                     /\ new(j).wsi = clients[j].wsi
                     /\ new(j).auth_user_id = clients[j].auth_user_id
                     /\ new(j).buffer = Append(clients[j].buffer, Len(log) + 1)
                     /\ new(j).buffer \in Lines
                     /\ Len(new(j).buffer) = Len(clients[j].buffer) + 1
                     /\ new(j).buffer \in Seq(Nat)
  <2> SUFFICES ASSUME NEW j \in hit
               PROVE  LET b == Append(clients[j].buffer, Len(log) + 1)
                      IN  /\ [clients[j] EXCEPT !.buffer = b] \in ClientRec
                          /\ [clients[j] EXCEPT !.buffer = b].wsi = clients[j].wsi
                          /\ [clients[j] EXCEPT !.buffer = b].auth_user_id
                                = clients[j].auth_user_id
                          /\ [clients[j] EXCEPT !.buffer = b].buffer = b
                          /\ b \in Lines /\ b \in Seq(Nat)
                          /\ Len(b) = Len(clients[j].buffer) + 1
    OBVIOUS
  <2>1. clients[j] \in ClientRec /\ clients[j].buffer \in Lines
    BY <1>6, <1>7
  <2>2. /\ Append(clients[j].buffer, Len(log) + 1) \in Lines
        /\ Append(clients[j].buffer, Len(log) + 1) \in Seq(Nat)
        /\ Len(Append(clients[j].buffer, Len(log) + 1)) = Len(clients[j].buffer) + 1
    BY <2>1, <1>4, AppendLine
  <2> QED
    BY <2>1, <2>2, NewBuffer
<1>9. \A j \in LiveSlots : /\ clients'[j].wsi = clients[j].wsi
                           /\ clients'[j].auth_user_id = clients[j].auth_user_id
  BY <1>5, <1>7, <1>8
<1>10. want' \subseteq open
  BY <1>5, <1>6 DEF TableInv, TypeOK, OneSlotPerConnection
<1>11. log' \in Seq([from : Users, author : Users \cup {NoUser}])
       /\ Len(log') = Len(log) + 1
  <2>1. clients[i].auth_user_id \in Users \cup {NoUser, 0}
    BY DEF TableInv, TypeOK
  <2>2. NameFor(clients[i].auth_user_id) \in Users
    BY NameIsAUser
  <2>3. auth[w] \in Users \cup {NoUser}
    BY DEF TableInv, TypeOK
  <2> QED
    BY <2>2, <2>3, <1>2 DEF TableInv, TypeOK
<1>12. TypeOK'
  <2>1. clients' \in [Slots -> ClientRec]
    BY <1>5, <1>8 DEF TableInv, TypeOK, ClientRec
  <2>2. Len(log') <= MaxLines
    BY <1>4, <1>11
  <2> QED
    BY <2>1, <2>2, <1>1, <1>10, <1>11 DEF TableInv, TypeOK, ClientRec
<1>13. Capacity'
  BY <1>1 DEF TableInv, Capacity
<1>14. OneSlotPerConnection'
  BY <1>1, <1>3, <1>9 DEF TableInv, OneSlotPerConnection
<1>15. NoLostWakeup'
  <2>1. \A j \in hit : /\ clients'[j].buffer = new(j).buffer
                       /\ clients'[j].wsi \in want'
    BY <1>5, <1>6, <1>7, <1>9
  <2>2. \A j \in hit : /\ clients'[j].buffer \in Seq(Nat)
                       /\ Len(clients'[j].buffer) < BufferCt
    <3> SUFFICES ASSUME NEW j \in hit
                 PROVE  /\ clients'[j].buffer \in Seq(Nat)
                        /\ Len(clients'[j].buffer) < BufferCt
      OBVIOUS
    <3>1. Len(clients[j].buffer) \in Nat /\ Len(clients[j].buffer) < BufferCt - 1
      BY <1>6, <1>7 DEF Lines
    <3>2. /\ clients'[j].buffer \in Seq(Nat)
          /\ Len(clients'[j].buffer) = Len(clients[j].buffer) + 1
      BY <2>1, <1>8
    <3> QED
      BY <3>1, <3>2
  <2>3. \A j \in LiveSlots \ hit :
          /\ clients'[j].buffer \in Seq(Nat)
          /\ Len(clients'[j].buffer) < BufferCt
          /\ clients'[j].buffer # <<>> => clients'[j].wsi \in want'
    <3>1. \A j \in LiveSlots \ hit : clients'[j] = clients[j]
      BY <1>5, <1>7
    <3> QED
      BY <3>1, <1>5 DEF TableInv, NoLostWakeup
  <2> QED
    BY <2>1, <2>2, <2>3, <1>3 DEF NoLostWakeup
<1> QED
  BY <1>12, <1>13, <1>14, <1>15 DEF TableInv

LEMMA WriteableStep ==
  ASSUME TableInv, NEW w \in Wsis, ServerWriteable(w)
  PROVE  TableInv'
<1> USE ClientTableAssumption DEF ClientTableAssumption
<1>1. /\ InBounds /\ w \in open
      /\ want' = want \ {w}
      /\ UNCHANGED <<clients_sz, clients_sz_max, clients_bytes,
                     open, auth, joined, log>>
  BY DEF ServerWriteable
<1>2. PICK i \in Slots :
        /\ IsClientOf(i, w)
        /\ written' = [written EXCEPT ![w] = @ \o clients[i].buffer]
        /\ clients' = [clients EXCEPT ![i].buffer = <<>>]
  BY DEF ServerWriteable
<1>3. i \in LiveSlots /\ clients[i].wsi = w /\ clients[i].buffer \in Lines
  BY <1>1, <1>2, FoundClient
<1>4. LiveSlots' = LiveSlots
  BY <1>1 DEF LiveSlots
<1>5. clients[i] \in ClientRec
  BY DEF TableInv, TypeOK, ClientRec
<1> DEFINE emptied == [clients[i] EXCEPT !.buffer = <<>>]
<1>6. /\ emptied \in ClientRec /\ emptied.wsi = w /\ emptied.buffer = <<>>
      /\ emptied.auth_user_id = clients[i].auth_user_id
  BY <1>3, <1>5, EmptyBuffer, NewBuffer
<1>7. clients' = [clients EXCEPT ![i] = emptied]
  BY <1>2
<1> HIDE DEF emptied
<1>8. /\ clients' \in [Slots -> ClientRec]
      /\ clients'[i] = emptied
      /\ \A j \in Slots \ {i} : clients'[j] = clients[j]
  BY <1>6, <1>7 DEF TableInv, TypeOK, ClientRec
<1>9. \A j \in LiveSlots : /\ clients'[j].wsi = clients[j].wsi
                           /\ clients'[j].auth_user_id = clients[j].auth_user_id
  BY <1>3, <1>6, <1>8 DEF LiveSlots
<1>10. TypeOK'
  <2>1. written[w] \o clients[i].buffer \in Lines
    BY <1>3 DEF TableInv, TypeOK, Lines
  <2>2. written' \in [Wsis -> Lines]
    BY <2>1, <1>2 DEF TableInv, TypeOK
  <2> QED
    BY <2>2, <1>1, <1>8 DEF TableInv, TypeOK, ClientRec
<1>11. Capacity'
  BY <1>1 DEF TableInv, Capacity
<1>12. OneSlotPerConnection'
  BY <1>1, <1>4, <1>9 DEF TableInv, OneSlotPerConnection
<1>13. NoLostWakeup'
  <2>1. /\ clients'[i].buffer \in Seq(Nat)
        /\ Len(clients'[i].buffer) < BufferCt
        /\ clients'[i].buffer = <<>>
    <3>1. clients'[i].buffer = <<>>
      BY <1>6, <1>8
    <3>2. <<>> \in Seq(Nat) /\ Len(<<>>) = 0
      OBVIOUS
    <3> QED
      BY <3>1, <3>2
  <2>2. \A j \in LiveSlots \ {i} :
          /\ clients'[j] = clients[j]
          /\ clients[j].wsi # w
    BY <1>3, <1>8 DEF TableInv, OneSlotPerConnection, LiveSlots
  <2>3. \A j \in LiveSlots \ {i} :
          /\ clients'[j].buffer \in Seq(Nat)
          /\ Len(clients'[j].buffer) < BufferCt
          /\ clients'[j].buffer # <<>> => clients'[j].wsi \in want'
    BY <2>2, <1>1 DEF TableInv, NoLostWakeup
  <2> QED
    BY <2>1, <2>3, <1>4 DEF NoLostWakeup
<1> QED
  BY <1>10, <1>11, <1>12, <1>13 DEF TableInv

(* Where the clients of the slots in use are after a delete: the ones      *)
(* behind the deleted slot move one down, the others stay.                 *)
Shifted(idx, j) == IF j < idx THEN j ELSE j + 1

LEMMA DeleteShifts ==
  ASSUME TableInv, InBounds, NEW w \in Wsis, NEW idx \in Slots,
         IsClientOf(idx, w), DeleteClient(idx)
  PROVE  /\ clients_sz \in 1 .. InitSlots - 1
         /\ clients_sz' = clients_sz - 1
         /\ LiveSlots' = 0 .. clients_sz - 2
         /\ LiveSlots = 0 .. clients_sz - 1
         /\ \A j \in LiveSlots' : /\ Shifted(idx, j) \in LiveSlots \ {idx}
                                  /\ clients'[j] = clients[Shifted(idx, j)]
         /\ clients' \in [Slots -> ClientRec]
<1> USE ClientTableAssumption DEF ClientTableAssumption
<1>1. /\ clients_sz \in 0 .. InitSlots - 1
      /\ LiveSlots = 0 .. clients_sz - 1
  BY InBoundsStage DEF TableInv
<1>2. idx \in LiveSlots
  BY FoundClient
<1>3. /\ clients_sz \in 1 .. InitSlots - 1
      /\ clients_sz' = clients_sz - 1
      /\ LiveSlots' = 0 .. clients_sz - 2
  BY <1>1, <1>2 DEF DeleteClient, LiveSlots, Slots
<1>4. clients' = [i \in Slots |->
                    IF idx <= i /\ i < clients_sz - 1 THEN clients[i + 1]
                    ELSE IF i = idx THEN Cleared
                    ELSE clients[i]]
  BY DEF DeleteClient
<1>5. Cleared \in ClientRec
  BY DEF Cleared, ClientRec
<1>6. \A i \in Slots : i < clients_sz - 1 => i + 1 \in Slots
  BY <1>3 DEF Slots
<1>7. clients' \in [Slots -> ClientRec]
  BY <1>4, <1>5, <1>6 DEF TableInv, TypeOK, ClientRec
<1>8. \A j \in LiveSlots' : /\ Shifted(idx, j) \in LiveSlots \ {idx}
                            /\ clients'[j] = clients[Shifted(idx, j)]
  BY <1>1, <1>2, <1>3, <1>4 DEF Shifted, Slots
<1> QED
  BY <1>1, <1>3, <1>7, <1>8

LEMMA ClosedStep ==
  ASSUME TableInv, NEW w \in Wsis, Closed(w)
  PROVE  TableInv'
<1> USE ClientTableAssumption DEF ClientTableAssumption
<1>1. /\ InBounds /\ w \in open
      /\ open' = open \ {w}
      /\ want' = want \ {w}
      /\ written' = [written EXCEPT ![w] = <<>>]
      /\ auth' = [auth EXCEPT ![w] = NoUser]
      /\ joined' = [joined EXCEPT ![w] = 0]
      /\ UNCHANGED <<clients_sz_max, clients_bytes, log>>
  BY DEF Closed, DeleteClient
<1>2. PICK idx \in Slots : IsClientOf(idx, w) /\ DeleteClient(idx)
  BY DEF Closed
<1>3. idx \in LiveSlots /\ clients[idx].wsi = w
  BY <1>1, <1>2, FoundClient
<1>4. /\ clients_sz \in 1 .. InitSlots - 1
      /\ clients_sz' = clients_sz - 1
      /\ LiveSlots' = 0 .. clients_sz - 2
      /\ LiveSlots = 0 .. clients_sz - 1
      /\ \A j \in LiveSlots' : /\ Shifted(idx, j) \in LiveSlots \ {idx}
                               /\ clients'[j] = clients[Shifted(idx, j)]
      /\ clients' \in [Slots -> ClientRec]
  BY <1>1, <1>2, DeleteShifts
<1>5. \A i \in LiveSlots \ {idx} : clients[i].wsi # w /\ clients[i].wsi \in open
  BY <1>3 DEF TableInv, OneSlotPerConnection
<1>6. TypeOK'
  <2>1. written' \in [Wsis -> Lines]
    BY <1>1, EmptyBuffer DEF TableInv, TypeOK
  <2>2. clients_sz' \in 0 .. InitSlots
    BY <1>4
  <2>3. /\ open' \subseteq Wsis /\ want' \subseteq open'
        /\ auth' \in [Wsis -> Users \cup {NoUser}]
        /\ joined' \in [Wsis -> 0 .. MaxLines]
    BY <1>1 DEF TableInv, TypeOK
  <2> QED
    BY <2>1, <2>2, <2>3, <1>1, <1>4 DEF TableInv, TypeOK, ClientRec
<1>7. Capacity'
  <2>1. clients_sz_max = InitSlots
    BY <1>1, <1>4, InBoundsStage DEF TableInv, Capacity
  <2>2. clients_bytes = InitSlots * SlotBytes
    BY <2>1 DEF TableInv, Capacity
  <2> QED
    BY <2>1, <2>2, <1>1, <1>4 DEF Capacity
<1>8. OneSlotPerConnection'
  <2>1. \A i, j \in LiveSlots' : clients'[i].wsi = clients'[j].wsi => i = j
    <3> SUFFICES ASSUME NEW i \in LiveSlots', NEW j \in LiveSlots',
                        clients'[i].wsi = clients'[j].wsi
                 PROVE  i = j
      OBVIOUS
    <3>1. clients[Shifted(idx, i)].wsi = clients[Shifted(idx, j)].wsi
      BY <1>4
    <3>2. Shifted(idx, i) = Shifted(idx, j)
      BY <3>1, <1>4 DEF TableInv, OneSlotPerConnection
    <3> QED
      BY <3>2, <1>4 DEF Shifted, Slots
  <2>2. \A v \in open \ {w} : \E j \in LiveSlots' : clients'[j].wsi = v
    <3> SUFFICES ASSUME NEW v \in open \ {w}
                 PROVE  \E j \in LiveSlots' : clients'[j].wsi = v
      OBVIOUS
    <3>1. PICK i \in LiveSlots \ {idx} : clients[i].wsi = v
      BY <1>3 DEF TableInv, OneSlotPerConnection
    <3>2. PICK j \in LiveSlots' : Shifted(idx, j) = i
      <4>1. CASE i < idx
        BY <4>1, <1>3, <1>4 DEF Shifted
      <4>2. CASE i > idx
        <5>1. i - 1 \in LiveSlots' /\ Shifted(idx, i - 1) = i
          BY <4>2, <1>3, <1>4 DEF Shifted
        <5> QED
          BY <5>1
      <4> QED
        BY <4>1, <4>2, <1>3, <1>4
    <3> QED
      BY <3>1, <3>2, <1>4
  <2>3. \A j \in LiveSlots' : /\ clients'[j].wsi \in open \ {w}
                              /\ clients'[j].auth_user_id = auth'[clients'[j].wsi]
    <3> SUFFICES ASSUME NEW j \in LiveSlots'
                 PROVE  /\ clients'[j].wsi \in open \ {w}
                        /\ clients'[j].auth_user_id = auth'[clients'[j].wsi]
      OBVIOUS
    <3> DEFINE i == Shifted(idx, j)
    <3>1. i \in LiveSlots \ {idx} /\ clients'[j] = clients[i]
      BY <1>4
    <3> HIDE DEF i
    <3>2. clients[i].wsi \in open \ {w} /\ clients[i].auth_user_id = auth[clients[i].wsi]
      BY <3>1, <1>5 DEF TableInv, OneSlotPerConnection
    <3>3. auth'[clients[i].wsi] = auth[clients[i].wsi]
      BY <3>2, <1>1 DEF TableInv, TypeOK
    <3> QED
      BY <3>1, <3>2, <3>3
  <2> QED
    BY <2>1, <2>2, <2>3, <1>1 DEF OneSlotPerConnection
<1>9. NoLostWakeup'
  BY <1>1, <1>4, <1>5 DEF TableInv, NoLostWakeup
<1> QED
  BY <1>6, <1>7, <1>8, <1>9 DEF TableInv

THEOREM TableInvariant == Spec => []TableInv
<1>1. Init => TableInv
  BY TableInit
<1>2. TableInv /\ [Next]_vars => TableInv'
  <2> SUFFICES ASSUME TableInv, [Next]_vars PROVE TableInv'
    OBVIOUS
  <2>1. CASE \E w \in Wsis, u \in Users \cup {NoUser} : FilterProtocolConnection(w, u)
    BY <2>1, AddStep
  <2>2. CASE FilterAddFails
    BY <2>2, AddFailsStep
  <2>3. CASE \E w \in Wsis : Receive(w)
    BY <2>3, ReceiveStep
  <2>4. CASE \E w \in Wsis : ServerWriteable(w)
    BY <2>4, WriteableStep
  <2>5. CASE \E w \in Wsis : Closed(w)
    BY <2>5, ClosedStep
  <2>6. CASE UNCHANGED vars
    BY <2>6 DEF vars, tableVars, lwsVars, TableInv, TypeOK, Capacity,
                OneSlotPerConnection, NoLostWakeup, LiveSlots
  <2> QED
    BY <2>1, <2>2, <2>3, <2>4, <2>5, <2>6 DEF Next
<1> QED
  BY <1>1, <1>2, PTL DEF Spec

-----------------------------------------------------------------------------
(* Every variable keeps its type; in particular no buffer is filled past   *)
(* its entries and no writable callback is asked for a closed connection.  *)
THEOREM TypeCorrect == Spec => []TypeOK
BY TableInvariant, PTL DEF TableInv

(* At any time a handle is found in exactly one slot in use, the slot of   *)
(* its connection and user, for any number of joins, leaves and reuses.    *)
THEOREM OneSlot == Spec => []OneSlotPerConnection
BY TableInvariant, PTL DEF TableInv

(* No buffered line is ever left without a writable callback to come.      *)
THEOREM NoLineIsForgotten == Spec => []NoLostWakeup
BY TableInvariant, PTL DEF TableInv

(* The overrun of the growth step is the only one: with fewer than         *)
(* InitSlots - 1 clients connected, the table fits its memory.             *)
THEOREM SoundTable == Spec => []SoundBelowGrowth
<1>1. TableInv => SoundBelowGrowth
  <2> SUFFICES ASSUME TableInv, clients_sz < InitSlots - 1 PROVE InBounds
    BY DEF SoundBelowGrowth
  <2> USE ClientTableAssumption DEF ClientTableAssumption
  <2>1. CASE clients_sz_max = 0
    BY <2>1 DEF TableInv, Capacity, InBounds
  <2>2. CASE clients_sz_max = InitSlots
    <3>1. clients_bytes = InitSlots * SlotBytes /\ clients_sz \in Nat
      BY <2>2 DEF TableInv, TypeOK, Capacity
    <3>2. clients_sz * SlotBytes <= InitSlots * SlotBytes
      BY <3>1, MulMono
    <3> QED
      BY <3>1, <3>2 DEF InBounds
  <2> QED
    BY <2>1, <2>2 DEF TableInv, TypeOK, Capacity
<1> QED
  BY <1>1, TableInvariant, PTL

-----------------------------------------------------------------------------
LEMMA ReceiveLog ==
  ASSUME TableInv, NEW w \in Wsis, Receive(w)
  PROVE  /\ Len(log') = Len(log) + 1
         /\ \A k \in 1 .. Len(log) : log'[k] = log[k]
         /\ log'[Len(log) + 1].author = auth[w]
         /\ log'[Len(log) + 1].from = NameFor(auth[w])
<1>1. PICK i \in Slots :
        /\ IsClientOf(i, w)
        /\ log' = Append(log, [from |-> NameFor(clients[i].auth_user_id),
                               author |-> auth[w]])
  BY DEF Receive
<1>2. InBounds
  BY DEF Receive
<1>3. clients[i].auth_user_id = auth[w]
  BY <1>1, <1>2, FoundClient
<1> QED
  BY <1>1, <1>3 DEF TableInv, TypeOK

(* A line from a connection with a session carries that session's user.    *)
THEOREM Attribution == Spec => []AttributionOfAuthenticated
<1>1. Init => AttributionOfAuthenticated
  BY DEF Init, AttributionOfAuthenticated
<1>2. TableInv /\ AttributionOfAuthenticated /\ [Next]_vars
        => AttributionOfAuthenticated'
  <2> SUFFICES ASSUME TableInv, AttributionOfAuthenticated, [Next]_vars
               PROVE  AttributionOfAuthenticated'
    OBVIOUS
  <2>1. CASE \E w \in Wsis : Receive(w)
    <3>1. PICK w \in Wsis : Receive(w)
      BY <2>1
    <3>2. /\ Len(log') = Len(log) + 1
          /\ \A k \in 1 .. Len(log) : log'[k] = log[k]
          /\ log'[Len(log) + 1].author = auth[w]
          /\ log'[Len(log) + 1].from = NameFor(auth[w])
      BY <3>1, ReceiveLog
    <3>3. auth[w] \in Users => NameFor(auth[w]) = auth[w]
      BY DEF NameFor
    <3>4. Len(log) \in Nat
      BY DEF TableInv, TypeOK
    <3> SUFFICES ASSUME NEW k \in 1 .. Len(log'), log'[k].author \in Users
                 PROVE  log'[k].from = log'[k].author
      BY DEF AttributionOfAuthenticated
    <3>5. CASE k = Len(log) + 1
      BY <3>2, <3>3, <3>5
    <3>6. CASE k \in 1 .. Len(log)
      BY <3>2, <3>6 DEF AttributionOfAuthenticated
    <3> QED
      BY <3>2, <3>4, <3>5, <3>6
  <2>2. CASE UNCHANGED log
    BY <2>2 DEF AttributionOfAuthenticated
  <2> QED
    BY <2>1, <2>2 DEF Next, FilterProtocolConnection, FilterAddFails,
                      ServerWriteable, Closed, vars
<1> QED
  BY <1>1, <1>2, TableInvariant, PTL DEF Spec

-----------------------------------------------------------------------------
(* The order of delivery.  What was written and what waits are each in     *)
(* order, and all that was written came before all that waits.             *)
Within(s, lo, hi) == \A k \in 1 .. Len(s) : s[k] \in lo + 1 .. hi
Increasing(s) == \A k, l \in 1 .. Len(s) : k < l => s[k] < s[l]
Before(s, t) == \A k \in 1 .. Len(s), l \in 1 .. Len(t) : s[k] < t[l]

InOrder(s, t, lo, hi) ==
  /\ Within(s, lo, hi) /\ Within(t, lo, hi)
  /\ Increasing(s) /\ Increasing(t) /\ Before(s, t)

OrderInv ==
  /\ \A w \in Wsis : joined[w] <= Len(log)
  /\ \A w \in Wsis \ open : written[w] = <<>>
  /\ \A i \in LiveSlots :
       InOrder(written[clients[i].wsi], clients[i].buffer,
               joined[clients[i].wsi], Len(log))

LEMMA WidenOrder ==
  ASSUME NEW s \in Seq(Nat), NEW t \in Seq(Nat), NEW lo \in Nat, NEW hi \in Nat,
         InOrder(s, t, lo, hi)
  PROVE  InOrder(s, t, lo, hi + 1)
BY DEF InOrder, Within

LEMMA PostOrder ==
  ASSUME NEW s \in Seq(Nat), NEW t \in Seq(Nat), NEW lo \in Nat, NEW hi \in Nat,
         lo <= hi, InOrder(s, t, lo, hi)
  PROVE  InOrder(s, Append(t, hi + 1), lo, hi + 1)
<1> DEFINE a == Append(t, hi + 1)
<1>1. /\ Len(a) = Len(t) + 1 /\ Len(t) \in Nat /\ Len(s) \in Nat
      /\ a[Len(t) + 1] = hi + 1
      /\ \A k \in 1 .. Len(t) : a[k] = t[k]
  OBVIOUS
<1> HIDE DEF a
<1>2. /\ \A k \in 1 .. Len(s) : s[k] \in Nat /\ lo + 1 <= s[k] /\ s[k] < hi + 1
      /\ \A k \in 1 .. Len(t) : t[k] \in Nat /\ lo + 1 <= t[k] /\ t[k] < hi + 1
  BY DEF InOrder, Within
<1>3. \A k \in 1 .. Len(a) : k \in 1 .. Len(t) \/ k = Len(t) + 1
  BY <1>1
<1>4. Within(s, lo, hi + 1)
  BY <1>2 DEF Within
<1>5. Within(a, lo, hi + 1)
  <2> SUFFICES ASSUME NEW k \in 1 .. Len(a) PROVE a[k] \in lo + 1 .. hi + 1
    BY DEF Within
  <2> QED
    BY <1>1, <1>2, <1>3
<1>6. Increasing(a)
  <2> SUFFICES ASSUME NEW k \in 1 .. Len(a), NEW l \in 1 .. Len(a), k < l
               PROVE  a[k] < a[l]
    BY DEF Increasing
  <2>1. k \in 1 .. Len(t)
    BY <1>1
  <2>2. CASE l \in 1 .. Len(t)
    BY <2>1, <2>2, <1>1 DEF InOrder, Increasing
  <2>3. CASE l = Len(t) + 1
    BY <2>1, <2>3, <1>1, <1>2
  <2> QED
    BY <2>2, <2>3, <1>3
<1>7. Before(s, a)
  <2> SUFFICES ASSUME NEW k \in 1 .. Len(s), NEW l \in 1 .. Len(a)
               PROVE  s[k] < a[l]
    BY DEF Before
  <2>1. CASE l \in 1 .. Len(t)
    BY <2>1, <1>1 DEF InOrder, Before
  <2>2. CASE l = Len(t) + 1
    BY <2>2, <1>1, <1>2
  <2> QED
    BY <2>1, <2>2, <1>3
<1>8. Increasing(s)
  BY DEF InOrder
<1> QED
  BY <1>4, <1>5, <1>6, <1>7, <1>8 DEF InOrder, a

LEMMA FlushOrder ==
  ASSUME NEW s \in Seq(Nat), NEW t \in Seq(Nat), NEW lo \in Nat, NEW hi \in Nat,
         InOrder(s, t, lo, hi)
  PROVE  /\ InOrder(s \o t, <<>>, lo, hi)
         /\ Within(s \o t, lo, hi) /\ Increasing(s \o t)
<1> DEFINE c == s \o t
<1>1. /\ Len(c) = Len(s) + Len(t) /\ Len(t) \in Nat /\ Len(s) \in Nat
      /\ \A k \in 1 .. Len(s) : c[k] = s[k]
      /\ \A k \in Len(s) + 1 .. Len(c) : c[k] = t[k - Len(s)]
  OBVIOUS
<1>2. \A k \in 1 .. Len(s) : s[k] \in Nat
  OBVIOUS
<1>3. \A k \in 1 .. Len(t) : t[k] \in Nat
  OBVIOUS
<1> HIDE DEF c
<1>4. \A k \in Len(s) + 1 .. Len(c) : k - Len(s) \in 1 .. Len(t)
  BY <1>1
<1>5. Within(c, lo, hi)
  <2> SUFFICES ASSUME NEW k \in 1 .. Len(c) PROVE c[k] \in lo + 1 .. hi
    BY DEF Within
  <2>1. CASE k \in 1 .. Len(s)
    BY <2>1, <1>1 DEF InOrder, Within
  <2>2. CASE k \in Len(s) + 1 .. Len(c)
    BY <2>2, <1>1, <1>4 DEF InOrder, Within
  <2> QED
    BY <2>1, <2>2, <1>1
<1>6. Increasing(c)
  <2> SUFFICES ASSUME NEW k \in 1 .. Len(c), NEW l \in 1 .. Len(c), k < l
               PROVE  c[k] < c[l]
    BY DEF Increasing
  <2>1. CASE l <= Len(s)
    <3>1. k \in 1 .. Len(s) /\ l \in 1 .. Len(s)
      BY <2>1, <1>1
    <3>2. s[k] < s[l]
      BY <3>1 DEF InOrder, Increasing
    <3> QED
      BY <3>1, <3>2, <1>1
  <2>2. CASE k > Len(s)
    <3>1. k \in Len(s) + 1 .. Len(c) /\ l \in Len(s) + 1 .. Len(c)
      BY <2>2, <1>1
    <3>2. /\ c[k] = t[k - Len(s)] /\ k - Len(s) \in 1 .. Len(t)
          /\ c[l] = t[l - Len(s)] /\ l - Len(s) \in 1 .. Len(t)
      BY <3>1, <1>1, <1>4
    <3>3. k - Len(s) < l - Len(s)
      BY <1>1
    <3>4. t[k - Len(s)] < t[l - Len(s)]
      BY <3>2, <3>3 DEF InOrder, Increasing
    <3> QED
      BY <3>2, <3>4
  <2>3. CASE k <= Len(s) /\ l > Len(s)
    <3>1. k \in 1 .. Len(s) /\ l \in Len(s) + 1 .. Len(c)
      BY <2>3, <1>1
    <3>2. c[k] = s[k] /\ c[l] = t[l - Len(s)] /\ l - Len(s) \in 1 .. Len(t)
      BY <3>1, <1>1, <1>4
    <3>3. s[k] < t[l - Len(s)]
      BY <3>1, <3>2 DEF InOrder, Before
    <3> QED
      BY <3>2, <3>3
  <2> QED
    BY <2>1, <2>2, <2>3, <1>1
<1>7. Within(<<>>, lo, hi) /\ Increasing(<<>>) /\ Before(c, <<>>)
  BY DEF Within, Increasing, Before
<1> QED
  BY <1>5, <1>6, <1>7 DEF InOrder, c

LEMMA EmptyOrder ==
  ASSUME NEW lo, NEW hi
  PROVE  InOrder(<<>>, <<>>, lo, hi)
BY DEF InOrder, Within, Increasing, Before

(* What TableInv says of one slot in use.                                  *)
LEMMA LiveClient ==
  ASSUME TableInv, NEW i \in LiveSlots
  PROVE  /\ i \in Slots /\ clients[i] \in ClientRec
         /\ clients[i].wsi \in Wsis /\ clients[i].wsi \in open
         /\ clients[i].buffer \in Lines /\ clients[i].buffer \in Seq(Nat)
         /\ written[clients[i].wsi] \in Seq(Nat)
         /\ joined[clients[i].wsi] \in Nat
         /\ Len(log) \in Nat
<1>1. clients[i] \in ClientRec /\ i \in Slots
  BY DEF TableInv, TypeOK, ClientRec, LiveSlots
<1>2. clients[i].wsi \in open /\ clients[i].wsi \in Wsis
  BY DEF TableInv, TypeOK, OneSlotPerConnection
<1>3. clients[i].buffer \in Seq(Nat)
  BY DEF TableInv, NoLostWakeup
<1>4. clients[i].buffer \in Lines
  BY <1>1, <1>3, ClientTableAssumption DEF ClientTableAssumption, ClientRec
<1>5. written[clients[i].wsi] \in Lines /\ joined[clients[i].wsi] \in Nat
  BY <1>2, ClientTableAssumption DEF ClientTableAssumption, TableInv, TypeOK
<1>6. Len(log) \in Nat
  BY DEF TableInv, TypeOK
<1> QED
  BY <1>1, <1>2, <1>3, <1>4, <1>5, <1>6, LinesAreNumbers

LEMMA AddOrder ==
  ASSUME TableInv, TableInv', OrderInv, NEW w \in Wsis, NEW u,
         FilterProtocolConnection(w, u)
  PROVE  OrderInv'
<1>1. /\ InBounds /\ w \notin open
      /\ clients' = [clients EXCEPT ![clients_sz] =
                       [wsi |-> w, buffer |-> <<>>, auth_user_id |-> u]]
      /\ clients_sz' = clients_sz + 1
      /\ open' = open \cup {w}
      /\ joined' = [joined EXCEPT ![w] = Len(log)]
      /\ UNCHANGED <<written, log>>
  BY DEF FilterProtocolConnection, AddClient
<1>2. clients_sz \in Slots /\ LiveSlots = 0 .. clients_sz - 1
  BY <1>1, InBoundsStage DEF TableInv
<1>3. LiveSlots' = LiveSlots \cup {clients_sz} /\ clients_sz \notin LiveSlots
  BY <1>1, <1>2 DEF LiveSlots, Slots
<1>4. \A i \in LiveSlots : /\ clients'[i] = clients[i]
                           /\ joined'[clients[i].wsi] = joined[clients[i].wsi]
  <2> SUFFICES ASSUME NEW i \in LiveSlots
               PROVE  /\ clients'[i] = clients[i]
                      /\ joined'[clients[i].wsi] = joined[clients[i].wsi]
    OBVIOUS
  <2>1. clients[i].wsi \in Wsis /\ clients[i].wsi # w
    BY <1>1, LiveClient
  <2> QED
    BY <2>1, <1>1, <1>3 DEF TableInv, TypeOK, LiveSlots
<1>5. InOrder(written'[clients'[clients_sz].wsi], clients'[clients_sz].buffer,
              joined'[clients'[clients_sz].wsi], Len(log'))
  <2>1. clients'[clients_sz].wsi = w /\ clients'[clients_sz].buffer = <<>>
    BY <1>1, <1>2 DEF TableInv, TypeOK
  <2>2. written'[w] = <<>>
    BY <1>1 DEF OrderInv
  <2> QED
    BY <2>1, <2>2, EmptyOrder
<1>6. \A i \in LiveSlots :
        InOrder(written'[clients'[i].wsi], clients'[i].buffer,
                joined'[clients'[i].wsi], Len(log'))
  BY <1>1, <1>4 DEF OrderInv
<1>7. \A v \in Wsis \ open' : written'[v] = <<>>
  BY <1>1 DEF OrderInv
<1>8. \A v \in Wsis : joined'[v] <= Len(log')
  BY <1>1 DEF TableInv, TypeOK, OrderInv
<1> QED
  BY <1>3, <1>5, <1>6, <1>7, <1>8 DEF OrderInv

LEMMA ReceiveOrder ==
  ASSUME TableInv, OrderInv, NEW w \in Wsis, Receive(w)
  PROVE  OrderInv'
<1>1. UNCHANGED <<clients_sz, open, written, joined>> /\ LiveSlots' = LiveSlots
  BY DEF Receive, LiveSlots
<1>2. PICK reach \in Reaches : WriteAll(Len(log) + 1, reach)
  BY DEF Receive
<1>3. Len(log') = Len(log) + 1
  BY ReceiveLog
<1>4. \A v \in Wsis : joined'[v] <= Len(log')
  BY <1>1, <1>3 DEF TableInv, TypeOK, OrderInv
<1> SUFFICES ASSUME NEW i \in LiveSlots
             PROVE  InOrder(written[clients'[i].wsi], clients'[i].buffer,
                            joined[clients'[i].wsi], Len(log) + 1)
  BY <1>1, <1>3, <1>4 DEF OrderInv
<1> DEFINE v == clients[i].wsi
<1>5. /\ i \in Slots /\ clients[i] \in ClientRec
      /\ v \in Wsis /\ written[v] \in Seq(Nat) /\ joined[v] \in Nat
      /\ clients[i].buffer \in Seq(Nat) /\ Len(log) \in Nat
  BY LiveClient
<1>6. InOrder(written[v], clients[i].buffer, joined[v], Len(log))
  BY DEF OrderInv
<1>7. joined[v] <= Len(log)
  BY <1>5 DEF OrderInv
<1>8. CASE i \in Reached(reach)
  <2>1. clients'[i] = [clients[i] EXCEPT !.buffer = Append(@, Len(log) + 1)]
    BY <1>2, <1>5, <1>8 DEF WriteAll
  <2>2. clients'[i].wsi = v /\ clients'[i].buffer = Append(clients[i].buffer, Len(log) + 1)
    BY <2>1, <1>5 DEF ClientRec
  <2> QED
    BY <2>2, <1>5, <1>6, <1>7, PostOrder
<1>9. CASE i \notin Reached(reach)
  <2>1. clients'[i] = clients[i]
    BY <1>2, <1>5, <1>9 DEF WriteAll
  <2> QED
    BY <2>1, <1>5, <1>6, WidenOrder
<1> QED
  BY <1>8, <1>9

LEMMA WriteableOrder ==
  ASSUME TableInv, OrderInv, NEW w \in Wsis, ServerWriteable(w)
  PROVE  OrderInv'
<1>1. /\ InBounds /\ w \in open
      /\ UNCHANGED <<clients_sz, open, joined, log>> /\ LiveSlots' = LiveSlots
  BY DEF ServerWriteable, LiveSlots
<1>2. PICK i \in Slots :
        /\ IsClientOf(i, w)
        /\ written' = [written EXCEPT ![w] = @ \o clients[i].buffer]
        /\ clients' = [clients EXCEPT ![i].buffer = <<>>]
  BY DEF ServerWriteable
<1>3. i \in LiveSlots /\ clients[i].wsi = w
  BY <1>1, <1>2, FoundClient
<1>4. written'[w] = written[w] \o clients[i].buffer
  BY <1>2 DEF TableInv, TypeOK
<1>5. clients'[i] = [clients[i] EXCEPT !.buffer = <<>>]
  BY <1>2 DEF TableInv, TypeOK
<1>6. clients'[i].wsi = w /\ clients'[i].buffer = <<>>
  BY <1>3, <1>5, LiveClient DEF ClientRec
<1>7. InOrder(written'[w], <<>>, joined[w], Len(log))
  BY <1>3, <1>4, LiveClient, FlushOrder DEF OrderInv
<1>8. \A j \in LiveSlots \ {i} :
        InOrder(written'[clients'[j].wsi], clients'[j].buffer,
                joined[clients'[j].wsi], Len(log))
  <2> SUFFICES ASSUME NEW j \in LiveSlots \ {i}
               PROVE  InOrder(written'[clients'[j].wsi], clients'[j].buffer,
                              joined[clients'[j].wsi], Len(log))
    OBVIOUS
  <2>1. clients[j].wsi # w
    BY <1>3 DEF TableInv, OneSlotPerConnection
  <2>2. j \in Slots /\ clients[j].wsi \in Wsis
    BY LiveClient
  <2>3. clients'[j] = clients[j]
    BY <2>2, <1>2 DEF TableInv, TypeOK
  <2>4. written'[clients[j].wsi] = written[clients[j].wsi]
    BY <2>1, <2>2, <1>2 DEF TableInv, TypeOK
  <2> QED
    BY <2>3, <2>4 DEF OrderInv
<1>9. \A v \in Wsis \ open' : written'[v] = <<>>
  <2> SUFFICES ASSUME NEW v \in Wsis \ open PROVE written'[v] = <<>>
    BY <1>1
  <2>1. v # w /\ written[v] = <<>>
    BY <1>1 DEF OrderInv
  <2> QED
    BY <2>1, <1>2 DEF TableInv, TypeOK
<1>10. \A v \in Wsis : joined'[v] <= Len(log')
  BY <1>1 DEF OrderInv
<1> QED
  BY <1>1, <1>6, <1>7, <1>8, <1>9, <1>10 DEF OrderInv

LEMMA ClosedOrder ==
  ASSUME TableInv, OrderInv, NEW w \in Wsis, Closed(w)
  PROVE  OrderInv'
<1>1. /\ InBounds /\ w \in open
      /\ open' = open \ {w}
      /\ written' = [written EXCEPT ![w] = <<>>]
      /\ joined' = [joined EXCEPT ![w] = 0]
      /\ UNCHANGED log
  BY DEF Closed
<1>2. PICK idx \in Slots : IsClientOf(idx, w) /\ DeleteClient(idx)
  BY DEF Closed
<1>3. idx \in LiveSlots /\ clients[idx].wsi = w
  BY <1>1, <1>2, FoundClient
<1>4. \A j \in LiveSlots' : /\ Shifted(idx, j) \in LiveSlots \ {idx}
                            /\ clients'[j] = clients[Shifted(idx, j)]
  BY <1>1, <1>2, DeleteShifts
<1>5. \A j \in LiveSlots' :
        InOrder(written'[clients'[j].wsi], clients'[j].buffer,
                joined'[clients'[j].wsi], Len(log'))
  <2> SUFFICES ASSUME NEW i \in LiveSlots \ {idx}
               PROVE  InOrder(written'[clients[i].wsi], clients[i].buffer,
                              joined'[clients[i].wsi], Len(log'))
    BY <1>4
  <2>1. clients[i].wsi # w /\ clients[i].wsi \in Wsis
    BY <1>3, LiveClient DEF TableInv, OneSlotPerConnection
  <2>2. /\ written'[clients[i].wsi] = written[clients[i].wsi]
        /\ joined'[clients[i].wsi] = joined[clients[i].wsi]
    BY <2>1, <1>1 DEF TableInv, TypeOK
  <2> QED
    BY <2>2, <1>1 DEF OrderInv
<1>6. \A v \in Wsis \ open' : written'[v] = <<>>
  <2> SUFFICES ASSUME NEW v \in Wsis \ open' PROVE written'[v] = <<>>
    OBVIOUS
  <2>1. CASE v = w
    BY <2>1, <1>1 DEF TableInv, TypeOK
  <2>2. CASE v # w
    BY <2>2, <1>1 DEF TableInv, TypeOK, OrderInv
  <2> QED
    BY <2>1, <2>2
<1>7. \A v \in Wsis : joined'[v] <= Len(log')
  BY <1>1 DEF TableInv, TypeOK, OrderInv
<1> QED
  BY <1>5, <1>6, <1>7 DEF OrderInv

LEMMA AddFailsLeavesClients ==
  ASSUME TableInv, FilterAddFails
  PROVE  /\ LiveSlots' = LiveSlots
         /\ \A i \in LiveSlots : clients'[i] = clients[i]
         /\ UNCHANGED <<clients_sz, open, want, written, auth, joined, log>>
<1>1. /\ InBounds
      /\ UNCHANGED <<clients_sz, open, want, written, auth, joined, log>>
  BY DEF FilterAddFails, lwsVars
<1>2. clients_sz \in Slots /\ LiveSlots = 0 .. clients_sz - 1
  BY <1>1, InBoundsStage DEF TableInv
<1>3. clients_sz \notin LiveSlots
  BY <1>2 DEF LiveSlots, Slots
<1>4. \A i \in Slots \ {clients_sz} : clients'[i] = clients[i]
  BY DEF FilterAddFails, TableInv, TypeOK
<1> QED
  BY <1>1, <1>3, <1>4 DEF LiveSlots

LEMMA OrderStep == TableInv /\ TableInv' /\ OrderInv /\ [Next]_vars => OrderInv'
<1> SUFFICES ASSUME TableInv, TableInv', OrderInv, [Next]_vars PROVE OrderInv'
  OBVIOUS
<1>1. CASE \E w \in Wsis, u \in Users \cup {NoUser} : FilterProtocolConnection(w, u)
  BY <1>1, AddOrder
<1>2. CASE FilterAddFails
  BY <1>2, AddFailsLeavesClients DEF OrderInv
<1>3. CASE \E w \in Wsis : Receive(w)
  BY <1>3, ReceiveOrder
<1>4. CASE \E w \in Wsis : ServerWriteable(w)
  BY <1>4, WriteableOrder
<1>5. CASE \E w \in Wsis : Closed(w)
  BY <1>5, ClosedOrder
<1>6. CASE UNCHANGED vars
  BY <1>6 DEF vars, tableVars, lwsVars, OrderInv, LiveSlots
<1> QED
  BY <1>1, <1>2, <1>3, <1>4, <1>5, <1>6 DEF Next

LEMMA OrderInit == Init => OrderInv
<1> SUFFICES ASSUME Init PROVE OrderInv
  OBVIOUS
<1>1. LiveSlots = {}
  BY DEF Init, LiveSlots, Slots
<1>2. joined = [w \in Wsis |-> 0] /\ written = [w \in Wsis |-> <<>>] /\ log = <<>>
  BY DEF Init
<1>3. Len(log) = 0
  BY <1>2
<1> QED
  BY <1>1, <1>2, <1>3 DEF OrderInv

(* The search by handle finds the one slot there is.                       *)
LEMMA SlotOfOpen ==
  ASSUME TableInv, NEW w \in open
  PROVE  SlotOf(w) \in LiveSlots /\ clients[SlotOf(w)].wsi = w
<1>1. \E i \in LiveSlots : clients[i].wsi = w
  BY DEF TableInv, OneSlotPerConnection
<1> QED
  BY <1>1 DEF SlotOf

(* Every connection gets the lines broadcast since it joined in order and  *)
(* none twice.                                                             *)
THEOREM Order == Spec => []InOrderDelivery
<1>1. TableInv /\ OrderInv => InOrderDelivery
  <2> SUFFICES ASSUME TableInv, OrderInv, NEW w \in open
               PROVE  /\ Within(Feed(w), joined[w], Len(log))
                      /\ Increasing(Feed(w))
    BY DEF InOrderDelivery, Within, Increasing
  <2> DEFINE i == SlotOf(w)
  <2>1. i \in LiveSlots /\ clients[i].wsi = w
    BY SlotOfOpen
  <2>2. Feed(w) = written[w] \o clients[i].buffer
    BY DEF Feed, BufferOf
  <2> HIDE DEF i
  <2>3. InOrder(written[w], clients[i].buffer, joined[w], Len(log))
    BY <2>1 DEF OrderInv
  <2>4. /\ written[w] \in Seq(Nat) /\ clients[i].buffer \in Seq(Nat)
        /\ joined[w] \in Nat /\ Len(log) \in Nat
    BY <2>1, LiveClient
  <2> QED
    BY <2>2, <2>3, <2>4, FlushOrder
<1> QED
  BY <1>1, OrderInit, OrderStep, TableInvariant, PTL DEF Spec
==============================================================================
