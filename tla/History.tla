------------------------------- MODULE History -------------------------------
(***************************************************************************)
(* How a chat line reaches a browser: as a row of the page that the main   *)
(* thread renders (cchat_route_chat, chatdb_iter_messages) or live, from   *)
(* the service thread that is handling the PRIVMSG meanwhile               *)
(* (rtproto_cmd_privmsg), through the socket that chat.js opens once the   *)
(* page is loaded.                                                         *)
(*                                                                         *)
(* The two threads interleave at the grain of their statements: db_mutex   *)
(* and clients_mutex make each of them one step.  The send buffer of a     *)
(* connection (ClientTable) and the socket behind it are one queue here.   *)
(*                                                                         *)
(* The file is one whose messages table has its own columns (SchemaInit).  *)
(* A line is the number of its PRIVMSG; times are seconds of the server's  *)
(* clock, by which the page is sorted.  The clock readings that page and   *)
(* script print for them, each in a time zone of its own, are left out.    *)
(***************************************************************************)
EXTENDS Integers, Sequences, FiniteSets

CONSTANTS
  Browsers,
  Users,    \* ids of the rows of the users table
  PageRows, \* rows on a page (10)
  MaxLines, \* bound of the model: lines sent
  MaxTime   \* bound of the model: seconds that pass

ASSUME HistoryAssumption ==
  /\ Users \subseteq Nat \ {0}
  /\ PageRows \in Nat
  /\ MaxLines \in Nat
  /\ MaxTime \in Nat

VARIABLES
  now,      \* the clock of the server
  log,      \* history: sender of every line, its time, and whether the
            \* regular expression of onmessage matches it: not when the
            \* sender's name then has a blank in it
  svc,      \* service thread: what it does next with the last line
  messages, \* table messages
  reply,    \* the page on its way to each browser, or NoPage
  page,     \* the page each browser shows, or NoPage
  live,     \* the lines each browser put above its page, oldest first
  sock,     \* whether the server has a client for each browser's socket
  queue,    \* lines in that client's buffer, or under way to the browser
  opened,   \* history: lines broadcast when that socket was opened, or 0
  dropped   \* history: lines broadcast past that socket since, or {}

serverVars == <<now, log, svc, messages>>
shownVars == <<reply, page, live>>
sockVars == <<sock, queue, opened, dropped>>
browserVars == <<shownVars, sockVars>>
vars == <<serverVars, browserVars>>

NoUser == -1
Lines == 1 .. Len(log)
Rows == [line : 1 .. MaxLines, time : 0 .. MaxTime]
LinesOf(rows) == {rows[i].line : i \in 1 .. Len(rows)}
Elements(lines) == {lines[i] : i \in 1 .. Len(lines)}

(* What a page was rendered from: its rows from bottom to top, the number  *)
(* of lines broadcast by then, and the one broadcast but not yet stored.   *)
NoPage == [rows |-> <<>>, upto |-> -1, caught |-> {}]
Broadcasts == IF svc = "write_all" THEN Len(log) - 1 ELSE Len(log)
Caught == IF svc = "send_message" THEN {Len(log)} ELSE {}

-----------------------------------------------------------------------------
(* chatdb_iter_messages: the inner join leaves out lines of nobody.        *)
Joined == {r \in messages : log[r.line].from \in Users}

(* Slip: "order by msg_time limit 10".                                     *)
IsOldestPage(rows) ==
  /\ \A i, j \in 1 .. Len(rows) :
       i < j => rows[i].line # rows[j].line /\ rows[i].time <= rows[j].time
  /\ \A r \in Joined :
       r.line \notin LinesOf(rows) =>
         /\ Len(rows) = PageRows
         /\ \A i \in 1 .. Len(rows) : rows[i].time <= r.time

(* Slip: not ordered at all.                                               *)
IsUnorderedPage(rows) ==
  /\ \A i, j \in 1 .. Len(rows) : i < j => rows[i].line # rows[j].line
  /\ \A r \in Joined :
       r.line \notin LinesOf(rows) => Len(rows) = PageRows

(* "order by msg_time desc limit 10": rows of the same second come in any  *)
(* order, and any of them is left out for another.                         *)
IsPage(rows) ==
  /\ \A i, j \in 1 .. Len(rows) :
       i < j => rows[i].line # rows[j].line /\ rows[i].time <= rows[j].time
  /\ \A r \in Joined :
       r.line \notin LinesOf(rows) =>
         /\ Len(rows) = PageRows
         /\ \A i \in 1 .. Len(rows) : r.time <= rows[i].time

(* Slip: no limit.                                                         *)
PagesWithoutLimit ==
  {rows \in [1 .. Cardinality(Joined) -> Joined] :
     \A i, j \in 1 .. Len(rows) :
       i < j => rows[i].line # rows[j].line /\ rows[i].time <= rows[j].time}

Pages ==
  {rows \in UNION {[1 .. n -> Joined] : n \in 0 .. PageRows} : IsPage(rows)}

-----------------------------------------------------------------------------
(* An earlier run of the server left no message.                           *)
Init ==
  /\ now = 0
  /\ log = <<>>
  /\ svc = "poll"
  /\ messages = {}
  /\ reply = [b \in Browsers |-> NoPage]
  /\ page = [b \in Browsers |-> NoPage]
  /\ live = [b \in Browsers |-> <<>>]
  /\ sock = [b \in Browsers |-> FALSE]
  /\ queue = [b \in Browsers |-> <<>>]
  /\ opened = [b \in Browsers |-> 0]
  /\ dropped = [b \in Browsers |-> {}]

(* rtproto_cmd_privmsg until the line is formatted with time().            *)
Privmsg(u) ==
  /\ svc = "poll"
  /\ Len(log) < MaxLines
  /\ \E matched \in BOOLEAN :
       log' = Append(log, [from |-> u, time |-> now, matched |-> matched])
  /\ svc' = "write_all"
  /\ UNCHANGED <<now, messages, browserVars>>

(* rtproto_client_write_all: past a client whose buffer is full, and past  *)
(* those that are left when a copy of the line cannot be allocated.        *)
Broadcast(next) ==
  \E missed \in SUBSET {b \in Browsers : sock[b]} :
    /\ queue' = [b \in Browsers |->
                   IF sock[b] /\ b \notin missed
                   THEN Append(queue[b], Len(log))
                   ELSE queue[b]]
    /\ dropped' = [b \in Browsers |->
                     IF b \in missed THEN dropped[b] \cup {Len(log)}
                     ELSE dropped[b]]
    /\ svc' = next
    /\ UNCHANGED <<now, log, messages, shownVars, sock, opened>>

(* chatdb_send_message: the time is that of the insert.  An insert that    *)
(* fails is not reported.                                                  *)
Store(next) ==
  /\ \/ messages' = messages \cup {[line |-> Len(log), time |-> now]}
     \/ UNCHANGED messages
  /\ svc' = next
  /\ UNCHANGED <<now, log, browserVars>>

(* Slip: stored first, so that only what is stored is broadcast.           *)
HandleStoresFirst ==
  \/ svc = "write_all" /\ Store("send_message")
  \/ svc = "send_message" /\ Broadcast("poll")

(* The order of the two in rtproto_cmd_privmsg.                            *)
Handle ==
  \/ svc = "write_all" /\ Broadcast("send_message")
  \/ svc = "send_message" /\ Store("poll")

(* GET /chat: the page is rendered, and the reply sent.                    *)
Chat(b) ==
  /\ \E rows \in Pages :
       reply' = [reply EXCEPT ![b] = [rows |-> rows, upto |-> Broadcasts,
                                      caught |-> Caught]]
  /\ UNCHANGED <<serverVars, page, live, sockVars>>

(* The browser shows the reply in place of its old page, whose script and  *)
(* socket go with it.                                                      *)
Load(b) ==
  /\ reply[b] # NoPage
  /\ page' = [page EXCEPT ![b] = reply[b]]
  /\ reply' = [reply EXCEPT ![b] = NoPage]
  /\ live' = [live EXCEPT ![b] = <<>>]
  /\ sock' = [sock EXCEPT ![b] = FALSE]
  /\ queue' = [queue EXCEPT ![b] = <<>>]
  /\ opened' = [opened EXCEPT ![b] = 0]
  /\ dropped' = [dropped EXCEPT ![b] = {}]
  /\ UNCHANGED serverVars

(* chatCreateSock: at document.ready, and five seconds after each onclose, *)
(* which comes behind what was under way.  onopen fetches nothing.         *)
CreateSock(b) ==
  /\ page[b] # NoPage
  /\ ~sock[b]
  /\ queue[b] = <<>>
  /\ sock' = [sock EXCEPT ![b] = TRUE]
  /\ opened' = [opened EXCEPT ![b] = Broadcasts]
  /\ UNCHANGED <<serverVars, shownVars, queue, dropped>>

(* rtproto_client_delete destroys the buffer; lines that have left it may  *)
(* still arrive.                                                           *)
CloseSock(b) ==
  /\ sock[b]
  /\ sock' = [sock EXCEPT ![b] = FALSE]
  /\ \E n \in 0 .. Len(queue[b]) :
       queue' = [queue EXCEPT ![b] = SubSeq(queue[b], 1, n)]
  /\ opened' = [opened EXCEPT ![b] = 0]
  /\ dropped' = [dropped EXCEPT ![b] = {}]
  /\ UNCHANGED <<serverVars, shownVars>>

(* Slip: of several lines that wait, only the last is shown.               *)
OnMessageLastOnly(b) ==
  /\ queue[b] # <<>>
  /\ queue' = [queue EXCEPT ![b] = <<>>]
  /\ live' = IF log[queue[b][Len(queue[b])]].matched
             THEN [live EXCEPT ![b] = Append(live[b], queue[b][Len(queue[b])])]
             ELSE live
  /\ UNCHANGED <<serverVars, reply, page, sock, opened, dropped>>

(* onmessage: a line that does not match makes the handler fail.           *)
OnMessage(b) ==
  /\ queue[b] # <<>>
  /\ queue' = [queue EXCEPT ![b] = Tail(queue[b])]
  /\ live' = IF log[Head(queue[b])].matched
             THEN [live EXCEPT ![b] = Append(live[b], Head(queue[b]))]
             ELSE live
  /\ UNCHANGED <<serverVars, reply, page, sock, opened, dropped>>

Tick ==
  /\ now < MaxTime
  /\ now' = now + 1
  /\ UNCHANGED <<log, svc, messages, browserVars>>

Next ==
  \/ \E u \in Users \cup {NoUser} : Privmsg(u)
  \/ Handle
  \/ \E b \in Browsers :
       Chat(b) \/ Load(b) \/ CreateSock(b) \/ CloseSock(b) \/ OnMessage(b)
  \/ Tick

Spec == Init /\ [][Next]_vars

-----------------------------------------------------------------------------
(* Types of the table, of the pages and of what the browsers show.         *)
PageType == [rows : {s \in Seq(Rows) : Len(s) <= PageRows},
             upto : -1 .. MaxLines,
             caught : SUBSET (1 .. MaxLines)]

TypeOK ==
  /\ now \in 0 .. MaxTime
  /\ log \in Seq([from : Users \cup {NoUser}, time : 0 .. MaxTime,
                  matched : BOOLEAN])
  /\ Len(log) <= MaxLines
  /\ svc \in {"poll", "write_all", "send_message"}
  /\ svc # "poll" => log # <<>>
  /\ messages \subseteq Rows
  /\ \A r \in messages : r.line \in Lines
  /\ reply \in [Browsers -> PageType]
  /\ page \in [Browsers -> PageType]
  /\ live \in [Browsers -> Seq(1 .. MaxLines)]
  /\ sock \in [Browsers -> BOOLEAN]
  /\ queue \in [Browsers -> Seq(1 .. MaxLines)]
  /\ opened \in [Browsers -> 0 .. MaxLines]
  /\ dropped \in [Browsers -> SUBSET (1 .. MaxLines)]

(* A browser never shows a line twice, although it may come by the page    *)
(* and by the socket: rtproto_cmd_privmsg broadcasts before it stores, and *)
(* the socket is opened after the page was rendered.                       *)
NothingTwice ==
  \A b \in Browsers :
    /\ \A i, j \in 1 .. Len(page[b].rows) :
         i < j => page[b].rows[i].line # page[b].rows[j].line
    /\ \A i, j \in 1 .. Len(live[b]) : i < j => live[b][i] # live[b][j]
    /\ LinesOf(page[b].rows) \cap Elements(live[b]) = {}

(* What a browser shows, live lines above the page, is in the order in     *)
(* which it was sent, although the page is sorted by the time of the       *)
(* insert, in seconds, and the socket opened and reopened behind it: only  *)
(* rows whose inserts fell into one second may have changed places.        *)
ShownInOrder ==
  \A b \in Browsers :
    LET rows == page[b].rows IN
    /\ \A i, j \in 1 .. Len(rows) :
         i < j => \/ rows[i].line < rows[j].line
                  \/ rows[i].time = rows[j].time
    /\ \A i, j \in 1 .. Len(live[b]) : i < j => live[b][i] < live[b][j]
    /\ \A i \in 1 .. Len(rows), j \in 1 .. Len(live[b]) :
         rows[i].line < live[b][j]

(* Every line broadcast so far is shown by a browser that loaded a page,   *)
(* unless                                                                  *)
(*   - it was broadcast after the page was rendered and before the socket  *)
(*     was opened that is open now, if any is: what an earlier socket of   *)
(*     the page missed or lost when it closed is never made up for,        *)
(*   - it waits in the queue of this socket, or was broadcast past it, its *)
(*     buffer full or the copy refused,                                    *)
(*   - onmessage could not read it,                                        *)
(*   - the page was rendered between its broadcast and its insert,         *)
(*   - its insert failed, or it came from a connection without a user,     *)
(*   - or the page is full of lines that are not older.                    *)
CrowdedOut(b, k) ==
  /\ Len(page[b].rows) = PageRows
  /\ \A r \in messages :
       r.line = k =>
         \A i \in 1 .. Len(page[b].rows) : r.time <= page[b].rows[i].time

EveryLineAccounted ==
  \A b \in Browsers, k \in 1 .. Broadcasts :
    \/ page[b] = NoPage
    \/ k \in LinesOf(page[b].rows) \cup Elements(live[b])
    \/ /\ k > page[b].upto
       /\ \/ ~sock[b]
          \/ k <= opened[b]
          \/ k \in Elements(queue[b]) \cup dropped[b]
          \/ ~log[k].matched
    \/ /\ k <= page[b].upto
       /\ \/ k \in page[b].caught
          \/ \A r \in messages : r.line # k
          \/ log[k].from = NoUser
          \/ CrowdedOut(b, k)
=============================================================================
