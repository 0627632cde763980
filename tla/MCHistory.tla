------------------------------ MODULE MCHistory ------------------------------
(* Small instances for TLC of History, and of Text: the way of one text is *)
(* looked at while the room is still empty.                                *)
EXTENDS History, Text

CONSTANT b1

MCBrowsers == {b1}
MCUsers == {1}

(* blank % & + 4 : ; < = > A a, and a byte of a letter outside of ASCII.   *)
MCTypeable == {32, 37, 38, 43, 52, 58, 59, 60, 61, 62, 65, 97, 195}

RoomIsEmpty ==
  /\ now = 0
  /\ log = <<>>
  /\ reply = [b \in Browsers |-> NoPage]
  /\ page = [b \in Browsers |-> NoPage]

MCNext ==
  \/ typed = <<>> /\ Next /\ UNCHANGED typed
  \/ RoomIsEmpty /\ TextNext /\ UNCHANGED vars

MCInit == Init /\ TextInit

MCSpec == MCInit /\ [][MCNext]_<<vars, typed>>
=============================================================================
