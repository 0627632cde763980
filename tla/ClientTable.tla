----------------------------- MODULE ClientTable -----------------------------
(***************************************************************************)
(* The websocket client table of src/rtproto.c and the libwebsockets       *)
(* callback that drives it (main_cb_cchat in src/main.c).                  *)
(*                                                                         *)
(* Every action is one callback, run to its end: all of them run on the    *)
(* one service thread (main_lws_handler), and while the server is up no    *)
(* handler of the FastCGI thread gets as far as the table.                 *)
(*                                                                         *)
(* A chat line is the number of its broadcast.  The array keeps stale      *)
(* copies behind clients_sz, as memcpy() leaves them.  Once a slot lies    *)
(* outside the allocation the program's behaviour is undefined and the     *)
(* model stops (see InBounds).                                             *)
(***************************************************************************)
EXTENDS Integers, Sequences

CONSTANTS
  Wsis,        \* libwebsockets connection handles (struct lws*)
  Users,       \* ids of the rows of the users table
  NoWsi,       \* the NULL wsi of a cleared slot
  NoBuffer,    \* the NULL buffer of a cleared slot
  InitSlots,   \* slots of the first allocation (10)
  SlotBytes,   \* sizeof( struct RTPROTO_CLIENT )
  BufferCt,    \* RTPROTO_BUFFER_CT (10)
  MaxLines,    \* bound of the model: broadcasts per behaviour
  AllocMayFail \* may malloc() fail?

ASSUME ClientTableAssumption ==
  /\ Users # {} /\ Users \subseteq Nat \ {0}
  /\ NoWsi \notin Wsis
  /\ NoBuffer \notin Seq(Nat)
  /\ InitSlots \in Nat /\ InitSlots > 1
  /\ SlotBytes \in Nat /\ SlotBytes > 4
  /\ BufferCt \in Nat /\ BufferCt > 1
  /\ MaxLines \in Nat
  /\ AllocMayFail \in BOOLEAN

(* Rows are finite in number: one of them has the largest id.              *)
ASSUME LastUserAssumption == \E last \in Users : \A u \in Users : u <= last

VARIABLES
  clients,        \* op->clients, indexed from 0
  clients_sz,     \* op->clients_sz, slots in use
  clients_sz_max, \* op->clients_sz_max; 0 while op->clients is NULL
  clients_bytes,  \* bytes behind op->clients
  open,           \* libwebsockets: the established connections
  want,           \* libwebsockets: writable callbacks asked for
  written,        \* lines given to lws_write() on each open connection
  auth,           \* user the session lookup gave each open connection
  joined,         \* broadcasts made before each open connection joined
  log             \* every broadcast: the name it carries and its true author

tableVars == <<clients, clients_sz, clients_sz_max, clients_bytes>>
lwsVars == <<open, want, written, auth, joined>>
vars == <<tableVars, lwsVars, log>>

-----------------------------------------------------------------------------
Slots == 0 .. InitSlots - 1
NoUser == -1                 \* auth_user_id when no session matched
Cleared == [wsi |-> NoWsi, buffer |-> NoBuffer, auth_user_id |-> 0]
LiveSlots == {i \in Slots : i < clients_sz}

(* The slots the program uses lie inside the memory it owns.               *)
InBounds == clients_sz * SlotBytes <= clients_bytes

(* main_lws_client_get, main_lws_client_delete: the first slot that holds  *)
(* the handle.                                                             *)
IsClientOf(i, w) ==
  /\ i \in LiveSlots
  /\ clients[i].wsi = w
  /\ \A j \in Slots : j < i => clients[j].wsi # w

(* Slip: -1 looked up as if it were the id of a row.                       *)
NameForAnyId(u) == u

(* chatdb_iter_users() with the id of a user selects that user; with -1 it *)
(* selects every row and the last one read stays in the result.            *)
NameFor(u) ==
  IF u \in Users THEN u ELSE CHOOSE last \in Users : \A n \in Users : n <= last

-----------------------------------------------------------------------------
(* Slip: the first allocation counts slots where it should count bytes.    *)
ReserveSlotNotBytes ==
  \/ /\ clients_sz_max = 0
     /\ clients_sz_max' = InitSlots
     /\ clients_bytes' = InitSlots
  \/ /\ clients_sz_max > 0
     /\ UNCHANGED <<clients_sz_max, clients_bytes>>

(* rtproto_client_add: make sure there is room for one more slot.  The     *)
(* growth step passes the new slot count to realloc() as a byte count.     *)
ReserveSlot ==
  \/ /\ clients_sz_max = 0
     /\ clients_sz_max' = InitSlots
     /\ clients_bytes' = InitSlots * SlotBytes
  \/ /\ clients_sz_max > 0
     /\ clients_sz + 1 >= clients_sz_max
     /\ clients_sz_max' = 2 * clients_sz_max
     /\ clients_bytes' = 2 * clients_sz_max
  \/ /\ clients_sz_max > 0
     /\ clients_sz + 1 < clients_sz_max
     /\ UNCHANGED <<clients_sz_max, clients_bytes>>

(* Slip: a list left behind in the slot is not made anew.                  *)
AddClientKeepsList(w, u) ==
  /\ ReserveSlot
  /\ LET left == clients[clients_sz].buffer
     IN clients' = [clients EXCEPT ![clients_sz] =
                      [wsi |-> w,
                       buffer |-> IF left = NoBuffer THEN <<>> ELSE left,
                       auth_user_id |-> u]]
  /\ clients_sz' = clients_sz + 1

(* rtproto_client_add and the store of the handle that follows it.         *)
AddClient(w, u) ==
  /\ ReserveSlot
  /\ clients' = [clients EXCEPT ![clients_sz] =
                   [wsi |-> w, buffer |-> <<>>, auth_user_id |-> u]]
  /\ clients_sz' = clients_sz + 1

(* Slip: the later slots stay where they are.                              *)
DeleteClientInPlace(idx) ==
  /\ clients' = [clients EXCEPT ![idx] = Cleared]
  /\ clients_sz' = clients_sz - 1
  /\ UNCHANGED <<clients_sz_max, clients_bytes>>

(* Slip: handle and buffer slide down, the user does not.                  *)
DeleteClientKeepsUser(idx) ==
  /\ clients' = [i \in Slots |->
                   IF idx <= i /\ i < clients_sz - 1
                   THEN [clients[i + 1] EXCEPT
                           !.auth_user_id = clients[i].auth_user_id]
                   ELSE IF i = idx THEN Cleared
                   ELSE clients[i]]
  /\ clients_sz' = clients_sz - 1
  /\ UNCHANGED <<clients_sz_max, clients_bytes>>

(* rtproto_client_delete: clear the slot, slide the later ones down.       *)
DeleteClient(idx) ==
  /\ clients' = [i \in Slots |->
                   IF idx <= i /\ i < clients_sz - 1 THEN clients[i + 1]
                   ELSE IF i = idx THEN Cleared
                   ELSE clients[i]]
  /\ clients_sz' = clients_sz - 1
  /\ UNCHANGED <<clients_sz_max, clients_bytes>>

(* Slip: a buffer is filled to its last entry.                             *)
ReachedPastEnd(reach) ==
  {i \in LiveSlots : i < reach /\ Len(clients[i].buffer) < BufferCt}

(* rtproto_client_write_all: the slots the line is queued on when the loop *)
(* gets past the first "reach" slots; a full buffer is skipped.            *)
Reached(reach) ==
  {i \in LiveSlots : i < reach /\ Len(clients[i].buffer) < BufferCt - 1}

(* Slip: the callbacks are asked for after the loop, not within it.        *)
WriteAllLateWakeup(line, reach) ==
  /\ clients' = [i \in Slots |->
                   IF i \in Reached(reach)
                   THEN [clients[i] EXCEPT !.buffer = Append(@, line)]
                   ELSE clients[i]]
  /\ want' = IF reach = clients_sz
             THEN want \cup {clients[i].wsi : i \in Reached(reach)}
             ELSE want

(* Slip: only the first client is woken up.                                *)
WriteAllWakesFirst(line, reach) ==
  /\ clients' = [i \in Slots |->
                   IF i \in Reached(reach)
                   THEN [clients[i] EXCEPT !.buffer = Append(@, line)]
                   ELSE clients[i]]
  /\ want' = want \cup {clients[i].wsi : i \in Reached(reach) \cap {0}}

(* The line is appended and a writable callback asked for, slot by slot.   *)
WriteAll(line, reach) ==
  /\ clients' = [i \in Slots |->
                   IF i \in Reached(reach)
                   THEN [clients[i] EXCEPT !.buffer = Append(@, line)]
                   ELSE clients[i]]
  /\ want' = want \cup {clients[i].wsi : i \in Reached(reach)}

(* The loop stops early only when copying the line fails.                  *)
Reaches == IF AllocMayFail THEN 0 .. clients_sz ELSE {clients_sz}

-----------------------------------------------------------------------------
Init ==
  /\ clients = [i \in Slots |-> Cleared]
  /\ clients_sz = 0
  /\ clients_sz_max = 0
  /\ clients_bytes = 0
  /\ open = {}
  /\ want = {}
  /\ written = [w \in Wsis |-> <<>>]
  /\ auth = [w \in Wsis |-> NoUser]
  /\ joined = [w \in Wsis |-> 0]
  /\ log = <<>>

(* LWS_CALLBACK_FILTER_PROTOCOL_CONNECTION with a session cookie: u is the *)
(* user of the session, or NoUser when the lookup found none; the error    *)
(* code for that case is overwritten by the result of main_lws_client_add. *)
FilterProtocolConnection(w, u) ==
  /\ InBounds
  /\ w \notin open
  /\ AddClient(w, u)
  /\ open' = open \cup {w}
  /\ auth' = [auth EXCEPT ![w] = u]
  /\ joined' = [joined EXCEPT ![w] = Len(log)]
  /\ UNCHANGED <<want, written, log>>

(* The same callback when bstrListCreate() or bstrListAlloc() fails in     *)
(* rtproto_client_add: the room is reserved, a slot that is not in use is  *)
(* overwritten, and libwebsockets refuses the connection.                  *)
FilterAddFails ==
  /\ InBounds
  /\ AllocMayFail
  /\ ReserveSlot
  /\ \E b \in {NoBuffer, <<>>} :
       clients' = [clients EXCEPT ![clients_sz].buffer = b]
  /\ UNCHANGED <<clients_sz, lwsVars, log>>

(* LWS_CALLBACK_RECEIVE of a PRIVMSG that is not blank.  The insert into   *)
(* messages that follows changes nothing here: its result is dropped.      *)
Receive(w) ==
  /\ InBounds
  /\ Len(log) < MaxLines
  /\ w \in open
  /\ \E i \in Slots, reach \in Reaches :
       /\ IsClientOf(i, w)
       /\ WriteAll(Len(log) + 1, reach)
       /\ log' = Append(log, [from |-> NameFor(clients[i].auth_user_id),
                              author |-> auth[w]])
  /\ UNCHANGED <<clients_sz, clients_sz_max, clients_bytes,
                 open, written, auth, joined>>

(* Slip: the buffer is emptied before it is written.                       *)
ServerWriteableEmptiesFirst(w) ==
  /\ InBounds
  /\ w \in open \cap want
  /\ \E i \in Slots :
       /\ IsClientOf(i, w)
       /\ clients' = [clients EXCEPT ![i].buffer = <<>>]
  /\ want' = want \ {w}
  /\ UNCHANGED <<clients_sz, clients_sz_max, clients_bytes,
                 open, written, auth, joined, log>>

(* Slip: the last line of the buffer is written first.                     *)
ServerWriteableLastFirst(w) ==
  /\ InBounds
  /\ w \in open \cap want
  /\ \E i \in Slots :
       /\ IsClientOf(i, w)
       /\ LET lines == clients[i].buffer
          IN written' = [written EXCEPT ![w] =
               @ \o [k \in 1 .. Len(lines) |-> lines[Len(lines) + 1 - k]]]
       /\ clients' = [clients EXCEPT ![i].buffer = <<>>]
  /\ want' = want \ {w}
  /\ UNCHANGED <<clients_sz, clients_sz_max, clients_bytes,
                 open, auth, joined, log>>

(* LWS_CALLBACK_SERVER_WRITEABLE: write every buffered line.               *)
ServerWriteable(w) ==
  /\ InBounds
  /\ w \in open \cap want
  /\ \E i \in Slots :
       /\ IsClientOf(i, w)
       /\ written' = [written EXCEPT ![w] = @ \o clients[i].buffer]
       /\ clients' = [clients EXCEPT ![i].buffer = <<>>]
  /\ want' = want \ {w}
  /\ UNCHANGED <<clients_sz, clients_sz_max, clients_bytes,
                 open, auth, joined, log>>

(* LWS_CALLBACK_CLOSED: the peer left, the ping went unanswered, or one of *)
(* the callbacks above returned an error.                                  *)
Closed(w) ==
  /\ InBounds
  /\ w \in open
  /\ \E i \in Slots : IsClientOf(i, w) /\ DeleteClient(i)
  /\ open' = open \ {w}
  /\ want' = want \ {w}
  /\ written' = [written EXCEPT ![w] = <<>>]
  /\ auth' = [auth EXCEPT ![w] = NoUser]
  /\ joined' = [joined EXCEPT ![w] = 0]
  /\ UNCHANGED log

Next ==
  \/ \E w \in Wsis, u \in Users \cup {NoUser} : FilterProtocolConnection(w, u)
  \/ FilterAddFails
  \/ \E w \in Wsis : Receive(w) \/ ServerWriteable(w) \/ Closed(w)

Spec == Init /\ [][Next]_vars

(* main_lws_handler calls lws_service() for as long as the server is up: a *)
(* connection that asked for a writable callback gets it, or is closed by  *)
(* the hangup policy when the peer takes nothing any more.                 *)
Serviced(w) == ServerWriteable(w) \/ (w \in want /\ Closed(w))

FairSpec == Spec /\ \A w \in Wsis : WF_vars(Serviced(w))

-----------------------------------------------------------------------------
(* The slot of an open connection, and everything addressed to it so far:  *)
(* what was written to the socket, then what waits in its buffer.          *)
SlotOf(w) == CHOOSE i \in LiveSlots : clients[i].wsi = w
BufferOf(w) == clients[SlotOf(w)].buffer
Feed(w) == written[w] \o BufferOf(w)

Lines == Seq(1 .. MaxLines)

(* Types, and the room of the buffers: bstrListAlloc() made BufferCt + 1   *)
(* entries and rtproto_client_write_all fills at most BufferCt - 1.        *)
TypeOK ==
  /\ clients \in [Slots -> [wsi : Wsis \cup {NoWsi},
                            buffer : Lines \cup {NoBuffer},
                            auth_user_id : Users \cup {NoUser, 0}]]
  /\ clients_sz \in 0 .. InitSlots
  /\ clients_sz_max \in {0, InitSlots, 2 * InitSlots}
  /\ clients_bytes \in Nat
  /\ open \subseteq Wsis
  /\ want \subseteq open
  /\ written \in [Wsis -> Lines]
  /\ auth \in [Wsis -> Users \cup {NoUser}]
  /\ joined \in [Wsis -> 0 .. MaxLines]
  /\ log \in Seq([from : Users, author : Users \cup {NoUser}])
  /\ Len(log) <= MaxLines

(* Every callback finds the client of its connection and finds the right   *)
(* one: open connections and slots in use match one to one, also when a    *)
(* closed handle is used again, and the slot holds the user the            *)
(* connection came with.                                                   *)
OneSlotPerConnection ==
  /\ {clients[i].wsi : i \in LiveSlots} = open
  /\ \A i, j \in LiveSlots : clients[i].wsi = clients[j].wsi => i = j
  /\ \A i \in LiveSlots : clients[i].auth_user_id = auth[clients[i].wsi]

(* A connection gets the lines broadcast after it joined, in order and     *)
(* none twice, whatever slots slide over its own in between.               *)
InOrderDelivery ==
  \A w \in open :
    /\ \A k \in 1 .. Len(Feed(w)) : Feed(w)[k] \in joined[w] + 1 .. Len(log)
    /\ \A k, l \in 1 .. Len(Feed(w)) : k < l => Feed(w)[k] < Feed(w)[l]

(* A line never sits in a buffer, and a buffer never holds a NULL pointer, *)
(* without a writable callback on its way: nothing else empties a buffer.  *)
NoLostWakeup ==
  \A i \in LiveSlots :
    /\ clients[i].buffer \in Seq(Nat)
    /\ Len(clients[i].buffer) < BufferCt
    /\ clients[i].buffer # <<>> => clients[i].wsi \in want

(* A line sent on a connection whose session was found carries the name of *)
(* that session's user, however the table was rearranged meanwhile.        *)
AttributionOfAuthenticated ==
  \A k \in 1 .. Len(log) :
    log[k].author \in Users => log[k].from = log[k].author

(* The table stays inside its memory as long as fewer than InitSlots - 1   *)
(* clients are connected, whatever order they come and go in.              *)
SoundBelowGrowth == clients_sz < InitSlots - 1 => InBounds

(* No callback takes back what was addressed to a connection that stays:   *)
(* lines are only added at the end.                                        *)
KeepsFeeds ==
  \A w \in open \cap open' :
    /\ Len(Feed(w)) <= Len(Feed(w)')
    /\ \A k \in 1 .. Len(Feed(w)) : Feed(w)'[k] = Feed(w)[k]
NothingTakenBack == [][KeepsFeeds]_vars

(* A line that was queued is written to its connection unless that closes. *)
QueuedLineLeaves ==
  \A w \in Wsis, line \in 1 .. MaxLines :
    (w \in open /\ \E k \in 1 .. Len(BufferOf(w)) : BufferOf(w)[k] = line)
      ~> (w \in open => \E k \in 1 .. Len(written[w]) : written[w][k] = line)

(* What the table promises its users, apart from the array: see ChatRoom.  *)
Room == INSTANCE ChatRoom WITH
  Members <- Wsis,
  QueueMax <- BufferCt - 1,
  Lossy <- AllocMayFail,
  room <- open,
  user <- auth,
  queue <- [w \in Wsis |-> IF w \in open THEN BufferOf(w) ELSE <<>>],
  seen <- written,
  names <- [k \in 1 .. Len(log) |-> log[k].from]

RoomSpec == Room!Spec
RoomFairSpec == Room!FairSpec

-----------------------------------------------------------------------------
(* rtproto.c:111 "Make sure there's room for the new client."              *)
RoomForEveryClient == InBounds

(* rtproto.c:23 "Figure out the sending user.": the name a line carries is *)
(* the name of the user who sent it.                                       *)
SenderIsTheConnectionsUser ==
  \A k \in 1 .. Len(log) : log[k].from = log[k].author
=============================================================================
