------------------------------- MODULE ChatRoom -------------------------------
(***************************************************************************)
(* What the websocket side of the program promises: a room whose members   *)
(* join under a user, post lines and get the lines of everybody in the     *)
(* order they were posted, through a queue of bounded length.              *)
(*                                                                         *)
(* ClientTable implements it with an array that is grown, shifted and      *)
(* searched by handle, and with writable callbacks.                        *)
(***************************************************************************)
EXTENDS Integers, Sequences

CONSTANTS
  Members,  \* who may join
  Users,    \* the users a member may join as
  QueueMax, \* lines a queue holds
  Lossy     \* may a post miss a member whose queue has room?

VARIABLES
  room,  \* the members that are in
  user,  \* whom each member joined as, or a value outside Users
  queue, \* lines on their way to each member
  seen,  \* lines each member got since it joined
  names  \* the name each line was posted under

vars == <<room, user, queue, seen, names>>

NoUser == -1

Init ==
  /\ room = {}
  /\ user = [m \in Members |-> NoUser]
  /\ queue = [m \in Members |-> <<>>]
  /\ seen = [m \in Members |-> <<>>]
  /\ names = <<>>

Join(m, u) ==
  /\ m \notin room
  /\ room' = room \cup {m}
  /\ user' = [user EXCEPT ![m] = u]
  /\ UNCHANGED <<queue, seen, names>>

HasSpace(m) == m \in room /\ Len(queue[m]) < QueueMax

(* A line reaches everybody who has space for it; it carries the name of   *)
(* the member's user, if the member has one.                               *)
Post(m) ==
  /\ m \in room
  /\ \E name \in Users :
       /\ user[m] \in Users => name = user[m]
       /\ names' = Append(names, name)
  /\ \E to \in SUBSET {n \in Members : HasSpace(n)} :
       /\ Lossy \/ \A n \in Members : HasSpace(n) => n \in to
       /\ queue' = [n \in Members |->
                      IF n \in to THEN Append(queue[n], Len(names) + 1)
                      ELSE queue[n]]
  /\ UNCHANGED <<room, user, seen>>

Deliver(m) ==
  /\ m \in room
  /\ queue[m] # <<>>
  /\ seen' = [seen EXCEPT ![m] = @ \o queue[m]]
  /\ queue' = [queue EXCEPT ![m] = <<>>]
  /\ UNCHANGED <<room, user, names>>

Leave(m) ==
  /\ m \in room
  /\ room' = room \ {m}
  /\ user' = [user EXCEPT ![m] = NoUser]
  /\ queue' = [queue EXCEPT ![m] = <<>>]
  /\ seen' = [seen EXCEPT ![m] = <<>>]
  /\ UNCHANGED names

Next ==
  \/ \E m \in Members, u \in Users \cup {NoUser} : Join(m, u)
  \/ \E m \in Members : Post(m) \/ Deliver(m) \/ Leave(m)

Spec == Init /\ [][Next]_vars

(* A member does not wait for ever: its lines come or it leaves.           *)
Served(m) == Deliver(m) \/ (queue[m] # <<>> /\ Leave(m))

FairSpec == Spec /\ \A m \in Members : WF_vars(Served(m))
=============================================================================
