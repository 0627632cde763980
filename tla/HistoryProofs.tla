---------------------------- MODULE HistoryProofs ----------------------------
(* Proofs about History, for any browsers, users, page length, number of   *)
(* lines and time.                                                         *)
EXTENDS History, TLAPS

Entries ==
  [from : Users \cup {NoUser}, time : 0 .. MaxTime, matched : BOOLEAN]

(* The lines whose insert was tried.                                       *)
Settled == IF svc = "poll" THEN Len(log) ELSE Len(log) - 1

(* The clock of the server does not go back.                               *)
LogOK(lg, t) ==
  /\ lg \in Seq(Entries)
  /\ \A k \in 1 .. Len(lg) : lg[k].time <= t
  /\ \A j, k \in 1 .. Len(lg) : j < k => lg[j].time <= lg[k].time

(* A line has one row, whose time lies between its own and the next one's. *)
TableOK(ms, lg, t, settled) ==
  /\ ms \subseteq Rows
  /\ \A r \in ms : r.line \in 1 .. settled /\ r.time <= t
  /\ \A r, s \in ms : r.line = s.line => r = s
  /\ \A r \in ms : lg[r.line].time <= r.time
  /\ \A r \in ms, k \in 1 .. Len(lg) : r.line < k => r.time <= lg[k].time

ServerOK ==
  /\ now \in 0 .. MaxTime
  /\ Len(log) <= MaxLines
  /\ svc \in {"poll", "write_all", "send_message"}
  /\ svc # "poll" => Len(log) > 0
  /\ LogOK(log, now)
  /\ TableOK(messages, log, now, Settled)

(* The rows of a page are in the table and were when it was rendered.      *)
PageOK(p, ms, broadcasts) ==
  /\ p \in PageType
  /\ p = NoPage \/ p.upto >= 0
  /\ p.upto <= broadcasts
  /\ \A i \in 1 .. Len(p.rows) : p.rows[i] \in ms /\ p.rows[i].line <= p.upto
  /\ \A i, j \in 1 .. Len(p.rows) :
       i < j => p.rows[i].line # p.rows[j].line /\ p.rows[i].time <= p.rows[j].time

(* Why line k, whose insert was tried, is not on page p.                   *)
Explained(p, k, lg, ms) ==
  \/ \A r \in ms : r.line # k
  \/ lg[k].from = NoUser
  \/ /\ Len(p.rows) = PageRows
     /\ \A r \in ms :
          r.line = k => \A i \in 1 .. Len(p.rows) : r.time <= p.rows[i].time

PageComplete(p, lg, ms, settled) ==
  \A k \in 1 .. p.upto :
    \/ k \in LinesOf(p.rows)
    \/ k \in p.caught
    \/ k <= settled /\ Explained(p, k, lg, ms)

(* What came by the socket is newer than the page, and what waits is newer *)
(* than what came.                                                         *)
WayOK(lines, q, upto, broadcasts) ==
  /\ lines \in Seq(1 .. MaxLines)
  /\ q \in Seq(1 .. MaxLines)
  /\ \A j \in 1 .. Len(lines) : upto < lines[j] /\ lines[j] <= broadcasts
  /\ \A j \in 1 .. Len(q) : upto < q[j] /\ q[j] <= broadcasts
  /\ \A i, j \in 1 .. Len(lines) : i < j => lines[i] < lines[j]
  /\ \A i, j \in 1 .. Len(q) : i < j => q[i] < q[j]
  /\ \A i \in 1 .. Len(lines), j \in 1 .. Len(q) : lines[i] < q[j]

(* Where line k is that was broadcast while a socket was open.             *)
Heard(k, missed, lines, q, lg) ==
  \/ k \in Elements(lines)
  \/ k \in Elements(q)
  \/ k \in missed
  \/ ~lg[k].matched

HeardOK(since, missed, lines, q, lg, broadcasts) ==
  \A k \in 1 .. broadcasts : k <= since \/ Heard(k, missed, lines, q, lg)

BrowserOK(b) ==
  /\ PageOK(reply[b], messages, Broadcasts)
  /\ PageOK(page[b], messages, Broadcasts)
  /\ PageComplete(reply[b], log, messages, Settled)
  /\ PageComplete(page[b], log, messages, Settled)
  /\ WayOK(live[b], queue[b], page[b].upto, Broadcasts)
  /\ sock[b] => HeardOK(opened[b], dropped[b], live[b], queue[b], log, Broadcasts)

BrowserFunctions ==
  /\ reply \in [Browsers -> PageType]
  /\ page \in [Browsers -> PageType]
  /\ live \in [Browsers -> Seq(1 .. MaxLines)]
  /\ sock \in [Browsers -> BOOLEAN]
  /\ queue \in [Browsers -> Seq(1 .. MaxLines)]
  /\ opened \in [Browsers -> 0 .. MaxLines]
  /\ dropped \in [Browsers -> SUBSET (1 .. MaxLines)]

HistoryInv ==
  /\ ServerOK
  /\ BrowserFunctions
  /\ \A b \in Browsers : BrowserOK(b)

-----------------------------------------------------------------------------
LEMMA AppendFacts ==
  ASSUME NEW S, NEW s \in Seq(S), NEW e \in S
  PROVE  /\ Append(s, e) \in Seq(S)
         /\ Len(s) \in Nat
         /\ Len(Append(s, e)) = Len(s) + 1
         /\ \A i \in 1 .. Len(s) : Append(s, e)[i] = s[i]
         /\ Append(s, e)[Len(s) + 1] = e
  OBVIOUS

LEMMA NoPageFacts ==
  /\ NoPage \in PageType
  /\ NoPage.upto = -1
  /\ Len(NoPage.rows) = 0
  BY HistoryAssumption DEF NoPage, PageType

(* A page stays right when the table and the log grow.                     *)
LEMMA PageKept ==
  ASSUME NEW p, NEW ms, NEW bc, NEW ms2, NEW bc2,
         PageOK(p, ms, bc), ms \subseteq ms2,
         bc \in Int, bc2 \in Int, bc <= bc2
  PROVE  PageOK(p, ms2, bc2)
  <1>1. p.upto \in Int
    BY HistoryAssumption DEF PageOK, PageType
  <1>2. p.upto <= bc2
    BY <1>1 DEF PageOK
  <1>3. QED
    BY <1>2 DEF PageOK

LEMMA CompleteKept ==
  ASSUME NEW p, NEW lg, NEW ms, NEW st, NEW lg2, NEW ms2, NEW st2, NEW n \in Int,
         p.upto \in Int, p.upto <= n,
         \A k \in 1 .. n : lg2[k] = lg[k],
         \A r \in ms2 : r \in ms \/ r.line > st,
         st \in Int, st2 \in Int, st <= st2,
         PageComplete(p, lg, ms, st)
  PROVE  PageComplete(p, lg2, ms2, st2)
  <1> SUFFICES ASSUME NEW k \in 1 .. p.upto,
                      k \notin LinesOf(p.rows), k \notin p.caught
               PROVE  k <= st2 /\ Explained(p, k, lg2, ms2)
    BY DEF PageComplete
  <1>1. k <= st /\ Explained(p, k, lg, ms)
    BY DEF PageComplete
  <1>2. k <= st2 /\ lg2[k] = lg[k]
    BY <1>1
  <1>3. \A r \in ms2 : r.line = k => r \in ms
    BY <1>1
  <1>4. QED
    BY <1>1, <1>2, <1>3 DEF Explained

LEMMA ElementOf ==
  ASSUME NEW S, NEW s \in Seq(S)
  PROVE  Len(s) \in Nat /\ \A j \in 1 .. Len(s) : s[j] \in S
  OBVIOUS

LEMMA WayLines ==
  ASSUME NEW lines, NEW q, NEW upto, NEW bc, WayOK(lines, q, upto, bc)
  PROVE  /\ Len(lines) \in Nat /\ Len(q) \in Nat
         /\ \A j \in 1 .. Len(lines) : lines[j] \in 1 .. MaxLines
         /\ \A j \in 1 .. Len(q) : q[j] \in 1 .. MaxLines
  <1>1. lines \in Seq(1 .. MaxLines) /\ q \in Seq(1 .. MaxLines)
    BY DEF WayOK
  <1>2. QED
    BY <1>1, ElementOf

LEMMA WayKept ==
  ASSUME NEW lines, NEW q, NEW upto \in Int, NEW bc \in Int, NEW bc2 \in Int,
         bc <= bc2, WayOK(lines, q, upto, bc)
  PROVE  WayOK(lines, q, upto, bc2)
  <1>1. \A j \in 1 .. Len(lines) : lines[j] \in 1 .. MaxLines
    BY WayLines
  <1>2. \A j \in 1 .. Len(q) : q[j] \in 1 .. MaxLines
    BY WayLines
  <1>3. \A j \in 1 .. Len(lines) : lines[j] <= bc2
    BY <1>1, HistoryAssumption DEF WayOK
  <1>4. \A j \in 1 .. Len(q) : q[j] <= bc2
    BY <1>2, HistoryAssumption DEF WayOK
  <1>5. QED
    BY <1>3, <1>4 DEF WayOK

LEMMA HeardKept ==
  ASSUME NEW since, NEW missed, NEW lines, NEW q, NEW lg, NEW lg2, NEW bc,
         \A k \in 1 .. bc : lg2[k] = lg[k],
         HeardOK(since, missed, lines, q, lg, bc)
  PROVE  HeardOK(since, missed, lines, q, lg2, bc)
  BY DEF HeardOK, Heard

(* A line is queued behind all others.                                     *)
LEMMA WayAppend ==
  ASSUME NEW lines, NEW q, NEW upto \in Int, NEW n \in 1 .. MaxLines,
         upto <= n - 1, WayOK(lines, q, upto, n - 1)
  PROVE  WayOK(lines, Append(q, n), upto, n)
  <1>1. n \in Int /\ n - 1 \in Int
    BY HistoryAssumption
  <1>2. WayOK(lines, q, upto, n)
    BY <1>1, WayKept
  <1>3. q \in Seq(1 .. MaxLines)
    BY DEF WayOK
  <1> DEFINE r == Append(q, n)
  <1>4. /\ r \in Seq(1 .. MaxLines) /\ Len(q) \in Nat /\ Len(r) = Len(q) + 1
        /\ \A i \in 1 .. Len(q) : r[i] = q[i]
        /\ r[Len(q) + 1] = n
    BY <1>3, AppendFacts
  <1> HIDE DEF r
  <1>5. \A j \in 1 .. Len(r) : j \in 1 .. Len(q) \/ j = Len(q) + 1
    BY <1>4
  <1>6. \A j \in 1 .. Len(q) : q[j] \in Int /\ q[j] < n
    <2>1. \A j \in 1 .. Len(q) : q[j] \in 1 .. MaxLines /\ q[j] <= n - 1
      BY WayLines DEF WayOK
    <2>2. QED
      BY <1>1, <2>1
  <1>7. \A j \in 1 .. Len(lines) : lines[j] \in Int /\ lines[j] < n
    <2>1. \A j \in 1 .. Len(lines) : lines[j] \in 1 .. MaxLines /\ lines[j] <= n - 1
      BY WayLines DEF WayOK
    <2>2. QED
      BY <1>1, <2>1
  <1>8. \A j \in 1 .. Len(r) : upto < r[j] /\ r[j] <= n
    BY <1>1, <1>2, <1>4, <1>5 DEF WayOK
  <1>9. \A i, j \in 1 .. Len(r) : i < j => r[i] < r[j]
    <2>1. TAKE i, j \in 1 .. Len(r)
    <2>2. HAVE i < j
    <2>3. i \in 1 .. Len(q)
      BY <1>4, <2>2
    <2>4. CASE j \in 1 .. Len(q)
      BY <1>4, <2>2, <2>3, <2>4 DEF WayOK
    <2>5. CASE j = Len(q) + 1
      BY <1>4, <1>6, <2>3, <2>5
    <2>6. QED
      BY <1>5, <2>4, <2>5
  <1>10. \A i \in 1 .. Len(lines), j \in 1 .. Len(r) : lines[i] < r[j]
    BY <1>4, <1>5, <1>7 DEF WayOK
  <1>11. QED
    BY <1>2, <1>4, <1>8, <1>9, <1>10 DEF WayOK, r

LEMMA SubSeqFacts ==
  ASSUME NEW S, NEW s \in Seq(S), NEW n \in 0 .. Len(s)
  PROVE  /\ SubSeq(s, 1, n) \in Seq(S)
         /\ Len(SubSeq(s, 1, n)) = n
         /\ \A j \in 1 .. n : SubSeq(s, 1, n)[j] = s[j] /\ j \in 1 .. Len(s)
  <1>1. Len(s) \in Nat /\ n \in Nat /\ n <= Len(s)
    OBVIOUS
  <1>2. \A j \in 1 .. n : j \in 1 .. Len(s)
    BY <1>1
  <1>3. Len(SubSeq(s, 1, n)) = n
    BY <1>1
  <1>4. \A j \in 1 .. n : SubSeq(s, 1, n)[j] = s[j]
    BY <1>1, <1>2
  <1>5. SubSeq(s, 1, n) \in Seq(S)
    BY <1>1, <1>2
  <1>6. QED
    BY <1>2, <1>3, <1>4, <1>5

(* A socket that closes keeps what was queued first.                       *)
LEMMA WayCut ==
  ASSUME NEW lines, NEW q, NEW upto, NEW bc, NEW n \in 0 .. Len(q),
         WayOK(lines, q, upto, bc)
  PROVE  WayOK(lines, SubSeq(q, 1, n), upto, bc)
  <1>1. q \in Seq(1 .. MaxLines)
    BY DEF WayOK
  <1>0. /\ SubSeq(q, 1, n) \in Seq(1 .. MaxLines)
        /\ Len(SubSeq(q, 1, n)) = n
        /\ \A j \in 1 .. n : SubSeq(q, 1, n)[j] = q[j] /\ j \in 1 .. Len(q)
    BY <1>1, SubSeqFacts
  <1>2. PICK r : r = SubSeq(q, 1, n)
    OBVIOUS
  <1>3. /\ r \in Seq(1 .. MaxLines) /\ Len(r) = n
        /\ \A j \in 1 .. n : r[j] = q[j] /\ j \in 1 .. Len(q)
    BY <1>0, <1>2, Zenon
  <1>4. \A j \in 1 .. Len(r) : r[j] = q[j] /\ j \in 1 .. Len(q)
    BY <1>3, Zenon
  <1>5. lines \in Seq(1 .. MaxLines)
    BY DEF WayOK
  <1>6. WayOK(lines, r, upto, bc)
    <2>1. \A j \in 1 .. Len(r) : upto < r[j] /\ r[j] <= bc
      <3>1. \A j \in 1 .. Len(q) : upto < q[j] /\ q[j] <= bc
        BY DEF WayOK
      <3>2. QED
        BY <1>4, <3>1
    <2>2. \A i, j \in 1 .. Len(r) : i < j => r[i] < r[j]
      BY <1>4 DEF WayOK
    <2>3. \A i \in 1 .. Len(lines), j \in 1 .. Len(r) : lines[i] < r[j]
      BY <1>4 DEF WayOK
    <2>4. QED
      BY <1>3, <1>5, <2>1, <2>2, <2>3 DEF WayOK
  <1>7. QED
    BY <1>2, <1>6

LEMMA TailFacts ==
  ASSUME NEW S, NEW s \in Seq(S), s # <<>>
  PROVE  /\ Tail(s) \in Seq(S) /\ Len(s) \in Nat /\ Len(s) > 0
         /\ Len(Tail(s)) = Len(s) - 1
         /\ \A i \in 1 .. Len(s) - 1 : Tail(s)[i] = s[i + 1]
         /\ Head(s) = s[1] /\ Head(s) \in S
  OBVIOUS

(* onmessage takes what was queued first.                                  *)
LEMMA WayMove ==
  ASSUME NEW lines, NEW q, NEW upto, NEW bc,
         q # <<>>, WayOK(lines, q, upto, bc)
  PROVE  /\ WayOK(lines, Tail(q), upto, bc)
         /\ WayOK(Append(lines, Head(q)), Tail(q), upto, bc)
  <1>1. q \in Seq(1 .. MaxLines) /\ lines \in Seq(1 .. MaxLines)
    BY DEF WayOK
  <1>2. PICK t, h : t = Tail(q) /\ h = Head(q)
    OBVIOUS
  <1>3. /\ t \in Seq(1 .. MaxLines) /\ Len(q) \in Nat /\ Len(q) > 0
        /\ Len(t) = Len(q) - 1
        /\ \A i \in 1 .. Len(q) - 1 : t[i] = q[i + 1]
        /\ h = q[1] /\ h \in 1 .. MaxLines
    BY <1>1, <1>2, TailFacts
  <1>4. \A i \in 1 .. Len(t) : i + 1 \in 1 .. Len(q) /\ t[i] = q[i + 1]
    BY <1>3
  <1>5. 1 \in 1 .. Len(q)
    BY <1>3
  <1>6. \A i, j \in 1 .. Len(t) : i < j => t[i] < t[j]
    <2>1. TAKE i, j \in 1 .. Len(t)
    <2>2. HAVE i < j
    <2>3. i + 1 < j + 1
      BY <1>3, <2>2
    <2>4. QED
      BY <1>4, <2>3 DEF WayOK
  <1>7. WayOK(lines, t, upto, bc)
    BY <1>1, <1>3, <1>4, <1>6 DEF WayOK
  <1>8. PICK m : m = Append(lines, h)
    OBVIOUS
  <1>9. /\ m \in Seq(1 .. MaxLines) /\ Len(lines) \in Nat
        /\ Len(m) = Len(lines) + 1
        /\ \A i \in 1 .. Len(lines) : m[i] = lines[i]
        /\ m[Len(lines) + 1] = h
    BY <1>1, <1>3, <1>8, AppendFacts
  <1>10. \A i \in 1 .. Len(m) : i \in 1 .. Len(lines) \/ i = Len(lines) + 1
    BY <1>9
  <1>11. \A j \in 1 .. Len(m) : upto < m[j] /\ m[j] <= bc
    BY <1>3, <1>5, <1>9, <1>10 DEF WayOK
  <1>12. \A i \in 1 .. Len(lines) : lines[i] < h
    BY <1>3, <1>5 DEF WayOK
  <1>13. \A i, j \in 1 .. Len(m) : i < j => m[i] < m[j]
    <2>1. TAKE i, j \in 1 .. Len(m)
    <2>2. HAVE i < j
    <2>3. i \in 1 .. Len(lines)
      BY <1>9, <2>2
    <2>4. CASE j \in 1 .. Len(lines)
      BY <1>9, <2>2, <2>3, <2>4 DEF WayOK
    <2>5. CASE j = Len(lines) + 1
      BY <1>9, <1>12, <2>3, <2>5
    <2>6. QED
      BY <1>10, <2>4, <2>5
  <1>14. \A j \in 1 .. Len(t) : h < t[j]
    <2>1. TAKE j \in 1 .. Len(t)
    <2>2. 1 < j + 1
      BY <1>3
    <2>3. QED
      BY <1>3, <1>4, <1>5, <2>2 DEF WayOK
  <1>15. \A i \in 1 .. Len(m), j \in 1 .. Len(t) : m[i] < t[j]
    BY <1>7, <1>9, <1>10, <1>14 DEF WayOK
  <1>16. WayOK(m, t, upto, bc)
    BY <1>3, <1>7, <1>9, <1>11, <1>13, <1>15 DEF WayOK
  <1>17. QED
    BY <1>2, <1>7, <1>8, <1>16

LEMMA ElementsAppend ==
  ASSUME NEW S, NEW s \in Seq(S), NEW e \in S
  PROVE  Elements(s) \cup {e} \subseteq Elements(Append(s, e))
  <1>1. PICK t : t = Append(s, e)
    OBVIOUS
  <1>2. /\ Len(s) \in Nat /\ Len(t) = Len(s) + 1
        /\ \A i \in 1 .. Len(s) : t[i] = s[i]
        /\ t[Len(s) + 1] = e
    BY <1>1, AppendFacts
  <1>3. e \in Elements(t)
    BY <1>2 DEF Elements
  <1>4. Elements(s) \subseteq Elements(t)
    BY <1>2 DEF Elements
  <1>5. QED
    BY <1>1, <1>3, <1>4

LEMMA ElementsTail ==
  ASSUME NEW S, NEW s \in Seq(S), s # <<>>, NEW k \in Elements(s)
  PROVE  k = Head(s) \/ k \in Elements(Tail(s))
  <1>1. PICK i \in 1 .. Len(s) : k = s[i]
    BY DEF Elements
  <1>2. PICK t : t = Tail(s)
    OBVIOUS
  <1>3. /\ Len(s) \in Nat /\ Len(t) = Len(s) - 1 /\ Head(s) = s[1]
        /\ \A j \in 1 .. Len(s) - 1 : t[j] = s[j + 1]
    BY <1>2, TailFacts
  <1>4. CASE i = 1
    BY <1>1, <1>3, <1>4
  <1>5. CASE i # 1
    <2>1. i - 1 \in 1 .. Len(t) /\ t[i - 1] = s[i]
      BY <1>3, <1>5
    <2>2. QED
      BY <1>1, <1>2, <2>1 DEF Elements
  <1>6. QED
    BY <1>4, <1>5

-----------------------------------------------------------------------------
LEMMA HistoryInit == Init => HistoryInv
  <1> SUFFICES ASSUME Init
               PROVE  HistoryInv
    OBVIOUS
  <1> USE HistoryAssumption DEF Init
  <1>1. Len(log) = 0 /\ Settled = 0 /\ Broadcasts = 0
    BY DEF Settled, Broadcasts
  <1>2. ServerOK
    BY <1>1 DEF ServerOK, LogOK, TableOK
  <1>3. BrowserFunctions
    BY NoPageFacts DEF BrowserFunctions
  <1>4. ASSUME NEW b \in Browsers
        PROVE  BrowserOK(b)
    <2>1. /\ reply[b] = NoPage /\ page[b] = NoPage
          /\ live[b] = <<>> /\ queue[b] = <<>> /\ ~sock[b]
      OBVIOUS
    <2>2. PageOK(NoPage, messages, Broadcasts)
      BY <1>1, NoPageFacts DEF PageOK
    <2>3. PageComplete(NoPage, log, messages, Settled)
      BY NoPageFacts DEF PageComplete
    <2>4. WayOK(<<>>, <<>>, NoPage.upto, Broadcasts)
      BY DEF WayOK
    <2>5. QED
      BY <2>1, <2>2, <2>3, <2>4 DEF BrowserOK
  <1>5. QED
    BY <1>2, <1>3, <1>4 DEF HistoryInv

-----------------------------------------------------------------------------
LEMMA ServerFacts ==
  ASSUME ServerOK
  PROVE  /\ Len(log) \in Nat /\ Len(log) <= MaxLines
         /\ Settled \in Nat /\ Settled <= Len(log)
         /\ Broadcasts \in Nat /\ Broadcasts <= Len(log)
         /\ svc \in {"poll", "send_message"} => Broadcasts = Len(log)
         /\ svc = "write_all" => Broadcasts = Len(log) - 1
         /\ svc = "poll" => Settled = Len(log)
         /\ svc # "poll" => Settled = Len(log) - 1 /\ Len(log) > 0
         /\ log \in Seq(Entries)
  <1>1. log \in Seq(Entries)
    BY DEF ServerOK, LogOK
  <1>2. Len(log) \in Nat
    BY <1>1
  <1>3. Len(log) <= MaxLines
    BY DEF ServerOK
  <1> HIDE DEF Entries
  <1>4. QED
    BY <1>1, <1>2, <1>3 DEF ServerOK, Settled, Broadcasts

(* How the server changes: lines are appended, and rows of lines whose     *)
(* insert was not tried before are added.                                  *)
Grows ==
  /\ \A k \in 1 .. Len(log) : log'[k] = log[k]
  /\ messages \subseteq messages'
  /\ \A r \in messages' : r \in messages \/ r.line > Settled
  /\ Broadcasts' \in Nat /\ Broadcasts <= Broadcasts'
  /\ Settled' \in Nat /\ Settled <= Settled'

LEMMA PagesGrow ==
  ASSUME ServerOK, Grows, NEW p,
         PageOK(p, messages, Broadcasts), PageComplete(p, log, messages, Settled)
  PROVE  /\ PageOK(p, messages', Broadcasts')
         /\ PageComplete(p, log', messages', Settled')
  <1>1. /\ Broadcasts \in Int /\ Settled \in Int
        /\ Broadcasts' \in Int /\ Settled' \in Int
        /\ Broadcasts <= Len(log) /\ Len(log) \in Int
    BY ServerFacts DEF Grows
  <1>2. p.upto \in Int
    BY HistoryAssumption DEF PageOK, PageType
  <1>3. p.upto <= Len(log)
    BY <1>1, <1>2 DEF PageOK
  <1>4. PageOK(p, messages', Broadcasts')
    BY <1>1, PageKept DEF Grows
  <1>5. PageComplete(p, log', messages', Settled')
    BY <1>1, <1>2, <1>3, CompleteKept DEF Grows
  <1>6. QED
    BY <1>4, <1>5

LEMMA WaysGrow ==
  ASSUME ServerOK, Grows, NEW lines, NEW q, NEW p, NEW missed, NEW since,
         PageOK(p, messages, Broadcasts),
         WayOK(lines, q, p.upto, Broadcasts)
  PROVE  /\ WayOK(lines, q, p.upto, Broadcasts')
         /\ HeardOK(since, missed, lines, q, log, Broadcasts)
               => HeardOK(since, missed, lines, q, log', Broadcasts)
  <1>1. /\ Broadcasts \in Int /\ Broadcasts' \in Int /\ Len(log) \in Int
        /\ Broadcasts <= Broadcasts' /\ Broadcasts <= Len(log)
    BY ServerFacts DEF Grows
  <1>2. \A k \in 1 .. Broadcasts : log'[k] = log[k]
    BY <1>1 DEF Grows
  <1>3. p.upto \in Int
    BY HistoryAssumption DEF PageOK, PageType
  <1>4. QED
    BY <1>1, <1>2, <1>3, WayKept, HeardKept

(* The browsers of a step of the server that reaches none of them.         *)
LEMMA BrowsersGrow ==
  ASSUME HistoryInv, Grows, Broadcasts' = Broadcasts,
         UNCHANGED browserVars, NEW b \in Browsers
  PROVE  BrowserOK(b)'
  <1>1. BrowserOK(b) /\ ServerOK
    BY DEF HistoryInv
  <1>2. UNCHANGED <<reply, page, live, sock, queue, opened, dropped>>
    BY DEF browserVars, shownVars, sockVars
  <1>3. /\ PageOK(reply'[b], messages', Broadcasts')
        /\ PageComplete(reply'[b], log', messages', Settled')
    BY <1>1, <1>2, PagesGrow DEF BrowserOK
  <1>4. /\ PageOK(page'[b], messages', Broadcasts')
        /\ PageComplete(page'[b], log', messages', Settled')
    BY <1>1, <1>2, PagesGrow DEF BrowserOK
  <1>5. /\ WayOK(live'[b], queue'[b], page'[b].upto, Broadcasts')
        /\ sock'[b] => HeardOK(opened'[b], dropped'[b], live'[b], queue'[b],
                               log', Broadcasts')
    BY <1>1, <1>2, WaysGrow DEF BrowserOK
  <1>6. QED
    BY <1>3, <1>4, <1>5 DEF BrowserOK

LEMMA PrivmsgStep ==
  ASSUME HistoryInv, NEW u \in Users \cup {NoUser}, Privmsg(u)
  PROVE  HistoryInv'
  <1>0. PICK matched \in BOOLEAN :
          log' = Append(log, [from |-> u, time |-> now, matched |-> matched])
    BY DEF Privmsg
  <1> DEFINE e == [from |-> u, time |-> now, matched |-> matched]
  <1>1. ServerOK
    BY DEF HistoryInv
  <1>2. /\ svc = "poll" /\ svc' = "write_all" /\ Len(log) < MaxLines
        /\ log' = Append(log, e)
        /\ UNCHANGED <<now, messages, browserVars>>
    BY <1>0 DEF Privmsg
  <1>3. e \in Entries /\ e.time = now
    <2>1. now \in 0 .. MaxTime
      BY <1>1 DEF ServerOK
    <2>2. QED
      BY <2>1, Zenon DEF Entries
  <1> HIDE DEF e
  <1>4. /\ log' \in Seq(Entries)
        /\ Len(log) \in Nat
        /\ Len(log') = Len(log) + 1
        /\ \A i \in 1 .. Len(log) : log'[i] = log[i]
        /\ log'[Len(log) + 1] = e
    BY <1>1, <1>2, <1>3, ServerFacts, AppendFacts
  <1>5. /\ Settled' = Settled /\ Settled = Len(log)
        /\ Broadcasts' = Broadcasts /\ Broadcasts = Len(log)
    BY <1>2, <1>4 DEF Settled, Broadcasts
  <1>6. LogOK(log', now')
    <2>1. now \in Nat
      BY <1>1, HistoryAssumption DEF ServerOK
    <2>2. \A k \in 1 .. Len(log') : k \in 1 .. Len(log) \/ log'[k].time = now
      BY <1>3, <1>4
    <2>3. \A k \in 1 .. Len(log') : log'[k].time <= now
      BY <1>1, <1>4, <2>1, <2>2 DEF ServerOK, LogOK
    <2>4. \A j, k \in 1 .. Len(log') : j < k => log'[j].time <= log'[k].time
      <3>1. TAKE j, k \in 1 .. Len(log')
      <3>2. HAVE j < k
      <3>3. j \in 1 .. Len(log)
        BY <1>4, <3>2
      <3>4. CASE k \in 1 .. Len(log)
        BY <1>1, <1>4, <3>2, <3>3, <3>4 DEF ServerOK, LogOK
      <3>5. CASE log'[k].time = now
        BY <2>3, <3>5
      <3>6. QED
        BY <2>2, <3>4, <3>5
    <2>5. QED
      BY <1>2, <1>4, <2>3, <2>4 DEF LogOK
  <1>7. TableOK(messages', log', now', Settled')
    <2>1. TableOK(messages, log, now, Settled)
      BY <1>1 DEF ServerOK
    <2>2. \A r \in messages, k \in 1 .. Len(log') :
            r.line < k => r.time <= log'[k].time
      BY <1>3, <1>4, <2>1 DEF TableOK
    <2>3. \A r \in messages : log'[r.line].time <= r.time
      BY <1>4, <1>5, <2>1 DEF TableOK
    <2>4. QED
      BY <1>2, <1>5, <2>1, <2>2, <2>3 DEF TableOK
  <1>8. ServerOK'
    BY <1>1, <1>2, <1>4, <1>6, <1>7, HistoryAssumption DEF ServerOK
  <1>9. Grows
    BY <1>2, <1>4, <1>5 DEF Grows
  <1>10. \A b \in Browsers : BrowserOK(b)'
    BY <1>2, <1>5, <1>9, BrowsersGrow
  <1>11. BrowserFunctions'
    BY <1>2 DEF HistoryInv, BrowserFunctions, browserVars, shownVars, sockVars
  <1>12. QED
    BY <1>8, <1>10, <1>11 DEF HistoryInv

LEMMA StoreStep ==
  ASSUME HistoryInv, svc = "send_message", Store("poll")
  PROVE  HistoryInv'
  <1> DEFINE e == [line |-> Len(log), time |-> now]
  <1>1. ServerOK
    BY DEF HistoryInv
  <1>2. /\ messages' = messages \cup {e} \/ messages' = messages
        /\ svc' = "poll"
        /\ UNCHANGED <<now, log, browserVars>>
    BY DEF Store
  <1>3. /\ Settled = Len(log) - 1 /\ Settled' = Len(log)
        /\ Broadcasts = Len(log) /\ Broadcasts' = Len(log)
        /\ Len(log) \in Nat /\ Len(log) > 0 /\ Len(log) <= MaxLines
    BY <1>1, <1>2, ServerFacts DEF Settled, Broadcasts
  <1>4. e.line = Len(log) /\ e.time = now /\ e \in Rows
    BY <1>1, <1>3, HistoryAssumption DEF ServerOK, Rows
  <1> HIDE DEF e
  <1>5. TableOK(messages, log, now, Settled)
    BY <1>1 DEF ServerOK
  <1>6. TableOK(messages', log', now', Settled')
    <2>1. messages' \subseteq Rows
      BY <1>2, <1>4, <1>5 DEF TableOK
    <2>2. \A r \in messages : r.line \in 1 .. Len(log) - 1 /\ r.time <= now
      BY <1>3, <1>5 DEF TableOK
    <2>3. now \in Nat
      BY <1>1, HistoryAssumption DEF ServerOK
    <2>4. \A r \in messages' : r.line \in 1 .. Len(log) /\ r.time <= now
      BY <1>2, <1>3, <1>4, <2>2, <2>3
    <2>5. \A r, s \in messages' : r.line = s.line => r = s
      BY <1>2, <1>3, <1>4, <1>5, <2>2 DEF TableOK
    <2>6. \A r \in messages', k \in 1 .. Len(log) :
            r.line < k => r.time <= log[k].time
      BY <1>2, <1>3, <1>4, <1>5 DEF TableOK
    <2>7. \A r \in messages' : log[r.line].time <= r.time
      <3>1. log[Len(log)].time <= now
        BY <1>1, <1>3 DEF ServerOK, LogOK
      <3>2. QED
        BY <1>2, <1>4, <1>5, <3>1 DEF TableOK
    <2>8. QED
      BY <1>2, <1>3, <2>1, <2>4, <2>5, <2>6, <2>7 DEF TableOK
  <1>7. ServerOK'
    BY <1>1, <1>2, <1>6 DEF ServerOK
  <1>8. Grows
    BY <1>2, <1>3, <1>4 DEF Grows
  <1>9. \A b \in Browsers : BrowserOK(b)'
    BY <1>2, <1>3, <1>8, BrowsersGrow
  <1>10. BrowserFunctions'
    BY <1>2 DEF HistoryInv, BrowserFunctions, browserVars, shownVars, sockVars
  <1>11. QED
    BY <1>7, <1>9, <1>10 DEF HistoryInv

LEMMA BroadcastStep ==
  ASSUME HistoryInv, svc = "write_all", Broadcast("send_message")
  PROVE  HistoryInv'
  <1> DEFINE n == Len(log)
  <1>1. ServerOK /\ BrowserFunctions
    BY DEF HistoryInv
  <1>2. PICK missed \in SUBSET {b \in Browsers : sock[b]} :
          /\ queue' = [b \in Browsers |->
                         IF sock[b] /\ b \notin missed
                         THEN Append(queue[b], n)
                         ELSE queue[b]]
          /\ dropped' = [b \in Browsers |->
                           IF b \in missed THEN dropped[b] \cup {n}
                           ELSE dropped[b]]
          /\ svc' = "send_message"
          /\ UNCHANGED <<now, log, messages, reply, page, live, sock, opened>>
    BY DEF Broadcast, shownVars
  <1>3. /\ n \in Nat /\ n > 0 /\ n <= MaxLines
        /\ Settled = n - 1 /\ Settled' = n - 1
        /\ Broadcasts = n - 1 /\ Broadcasts' = n
    BY <1>1, <1>2, ServerFacts DEF Settled, Broadcasts
  <1>4. n \in 1 .. MaxLines
    BY <1>3, HistoryAssumption
  <1> HIDE DEF n
  <1>5. ServerOK'
    BY <1>1, <1>2, <1>3 DEF ServerOK
  <1>6. Grows
    BY <1>2, <1>3 DEF Grows
  <1>7. ASSUME NEW b \in Browsers
        PROVE  /\ BrowserOK(b)'
               /\ queue'[b] \in Seq(1 .. MaxLines)
               /\ dropped'[b] \subseteq 1 .. MaxLines
    <2>1. BrowserOK(b)
      BY DEF HistoryInv
    <2>2. /\ reply'[b] = reply[b] /\ page'[b] = page[b] /\ live'[b] = live[b]
          /\ sock'[b] = sock[b] /\ opened'[b] = opened[b]
      BY <1>2
    <2>3. /\ PageOK(reply[b], messages', Broadcasts')
          /\ PageComplete(reply[b], log', messages', Settled')
      BY <1>1, <1>6, <2>1, PagesGrow DEF BrowserOK
    <2>4. /\ PageOK(page[b], messages', Broadcasts')
          /\ PageComplete(page[b], log', messages', Settled')
      BY <1>1, <1>6, <2>1, PagesGrow DEF BrowserOK
    <2>5. /\ WayOK(live[b], queue[b], page[b].upto, n - 1)
          /\ sock[b] => HeardOK(opened[b], dropped[b], live[b], queue[b], log, n - 1)
          /\ page[b].upto <= n - 1
      BY <1>3, <2>1 DEF BrowserOK, PageOK
    <2>6. /\ page[b].upto \in Int /\ n \in Int /\ n - 1 \in Int /\ n - 1 <= n
      BY <1>3, <2>1, HistoryAssumption DEF BrowserOK, PageOK, PageType
    <2>7. /\ queue[b] \in Seq(1 .. MaxLines)
          /\ dropped[b] \subseteq 1 .. MaxLines
      BY <1>1 DEF BrowserFunctions
    <2>8. \A k \in 1 .. n : k \in 1 .. n - 1 \/ k = n
      BY <1>3
    <2>9. CASE sock[b] /\ b \notin missed
      <3>1. queue'[b] = Append(queue[b], n) /\ dropped'[b] = dropped[b]
        BY <1>2, <2>9
      <3>2. queue'[b] \in Seq(1 .. MaxLines)
        BY <1>4, <2>7, <3>1, AppendFacts
      <3>3. WayOK(live[b], queue'[b], page[b].upto, n)
        BY <1>4, <2>5, <2>6, <3>1, WayAppend
      <3>4. Elements(queue[b]) \cup {n} \subseteq Elements(queue'[b])
        BY <1>4, <2>7, <3>1, ElementsAppend
      <3>5. HeardOK(opened[b], dropped'[b], live[b], queue'[b], log, n)
        BY <2>5, <2>8, <2>9, <3>1, <3>4 DEF HeardOK, Heard
      <3>6. QED
        BY <1>2, <1>3, <2>2, <2>3, <2>4, <2>7, <3>1, <3>2, <3>3, <3>5 DEF BrowserOK
    <2>10. CASE b \in missed
      <3>1. queue'[b] = queue[b] /\ dropped'[b] = dropped[b] \cup {n} /\ sock[b]
        BY <1>2, <2>10
      <3>2. WayOK(live[b], queue'[b], page[b].upto, n)
        BY <2>5, <2>6, <3>1, WayKept
      <3>3. HeardOK(opened[b], dropped'[b], live[b], queue'[b], log, n)
        BY <2>5, <2>8, <3>1 DEF HeardOK, Heard
      <3>4. QED
        BY <1>2, <1>3, <1>4, <2>2, <2>3, <2>4, <2>7, <3>1, <3>2, <3>3 DEF BrowserOK
    <2>11. CASE ~sock[b]
      <3>1. queue'[b] = queue[b] /\ dropped'[b] = dropped[b]
        BY <1>2, <2>11
      <3>2. WayOK(live[b], queue'[b], page[b].upto, n)
        BY <2>5, <2>6, <3>1, WayKept
      <3>3. QED
        BY <1>2, <1>3, <2>2, <2>3, <2>4, <2>7, <2>11, <3>1, <3>2 DEF BrowserOK
    <2>12. QED
      BY <2>9, <2>10, <2>11
  <1>8. BrowserFunctions'
    BY <1>1, <1>2, <1>7 DEF BrowserFunctions
  <1>9. QED
    BY <1>5, <1>7, <1>8 DEF HistoryInv

-----------------------------------------------------------------------------
LEMMA NewPage ==
  ASSUME HistoryInv, NEW rows \in Pages
  PROVE  LET p == [rows |-> rows, upto |-> Broadcasts, caught |-> Caught]
         IN PageOK(p, messages, Broadcasts) /\ PageComplete(p, log, messages, Settled)
  <1> DEFINE p == [rows |-> rows, upto |-> Broadcasts, caught |-> Caught]
  <1>1. ServerOK
    BY DEF HistoryInv
  <1>2. PICK n \in 0 .. PageRows : rows \in [1 .. n -> Joined] /\ IsPage(rows)
    BY DEF Pages
  <1>3. n \in Nat /\ n <= PageRows
    BY HistoryAssumption
  <1>4. Joined \subseteq messages /\ messages \subseteq Rows
    BY <1>1 DEF Joined, ServerOK, TableOK
  <1>5. rows \in [1 .. n -> Rows]
    BY <1>2, <1>4
  <1>6. rows \in Seq(Rows) /\ Len(rows) = n
    BY <1>3, <1>5
  <1>7. \A i \in 1 .. n : rows[i] \in messages
    BY <1>2, <1>4
  <1>8. \A i \in 1 .. n : rows[i].line <= Broadcasts
    <2>1. \A r \in messages : r.line \in 1 .. Settled
      BY <1>1 DEF ServerOK, TableOK
    <2>2. Settled <= Broadcasts
      BY <1>1, ServerFacts DEF ServerOK
    <2>3. Settled \in Int /\ Broadcasts \in Int
      BY <1>1, ServerFacts
    <2>4. QED
      BY <1>7, <2>1, <2>2, <2>3
  <1>9. p \in PageType
    <2>1. Broadcasts \in -1 .. MaxLines
      BY <1>1, ServerFacts, HistoryAssumption
    <2>2. Caught \subseteq 1 .. MaxLines
      BY <1>1, ServerFacts, HistoryAssumption DEF Caught
    <2>3. QED
      BY <1>3, <1>6, <2>1, <2>2 DEF PageType
  <1>10. /\ p.rows = rows /\ p.upto = Broadcasts /\ p.caught = Caught
    OBVIOUS
  <1> HIDE DEF p
  <1>11. PageOK(p, messages, Broadcasts)
    <2>1. Broadcasts <= Broadcasts /\ Broadcasts >= 0
      BY <1>1, ServerFacts
    <2>2. QED
      BY <1>2, <1>6, <1>7, <1>8, <1>9, <1>10, <2>1 DEF PageOK, IsPage
  <1>12. PageComplete(p, log, messages, Settled)
    <2>1. SUFFICES ASSUME NEW k \in 1 .. Broadcasts,
                          k \notin LinesOf(rows), k \notin Caught
                   PROVE  k <= Settled /\ Explained(p, k, log, messages)
      BY <1>10 DEF PageComplete
    <2>2. k <= Settled /\ k \in 1 .. Len(log)
      <3>1. k \in 1 .. Len(log)
        BY <1>1, ServerFacts
      <3>2. CASE svc = "send_message"
        <4>1. k # Len(log)
          BY <2>1, <3>2 DEF Caught
        <4>2. QED
          BY <1>1, <3>1, <3>2, <4>1, ServerFacts
      <3>3. CASE svc \in {"poll", "write_all"}
        BY <1>1, <3>1, <3>3, ServerFacts
      <3>4. QED
        BY <1>1, <3>2, <3>3 DEF ServerOK
    <2>3. log[k].from \in Users \cup {NoUser}
      <3>1. log[k] \in Entries
        BY <1>1, <2>2 DEF ServerOK, LogOK
      <3>2. QED
        BY <3>1 DEF Entries
    <2>4. CASE log[k].from = NoUser
      BY <2>2, <2>4 DEF Explained
    <2>5. CASE log[k].from \in Users
      <3>1. \A r \in messages :
              r.line = k => /\ Len(rows) = PageRows
                            /\ \A i \in 1 .. Len(rows) : r.time <= rows[i].time
        BY <1>2, <2>1, <2>5 DEF Joined, IsPage
      <3>2. QED
        BY <1>10, <2>2, <3>1 DEF Explained
    <2>6. QED
      BY <2>3, <2>4, <2>5
  <1>13. QED
    BY <1>11, <1>12 DEF p

LEMMA ServerStays ==
  ASSUME HistoryInv, UNCHANGED serverVars
  PROVE  /\ ServerOK'
         /\ UNCHANGED <<now, log, svc, messages, Broadcasts, Settled>>
  BY DEF HistoryInv, serverVars, ServerOK, Broadcasts, Settled

LEMMA ChatStep ==
  ASSUME HistoryInv, NEW b \in Browsers, Chat(b)
  PROVE  HistoryInv'
  <1>1. PICK rows \in Pages :
          reply' = [reply EXCEPT ![b] = [rows |-> rows, upto |-> Broadcasts,
                                         caught |-> Caught]]
    BY DEF Chat
  <1> DEFINE p == [rows |-> rows, upto |-> Broadcasts, caught |-> Caught]
  <1>2. PageOK(p, messages, Broadcasts) /\ PageComplete(p, log, messages, Settled)
    BY NewPage
  <1>3. p \in PageType
    BY <1>2 DEF PageOK
  <1>4. reply' = [reply EXCEPT ![b] = p]
    BY <1>1
  <1> HIDE DEF p
  <1>5. UNCHANGED <<serverVars, page, live, sock, queue, opened, dropped>>
    BY DEF Chat, sockVars
  <1>6. ServerOK' /\ UNCHANGED <<now, log, svc, messages, Broadcasts, Settled>>
    BY <1>5, ServerStays
  <1>7. BrowserFunctions'
    BY <1>3, <1>4, <1>5 DEF HistoryInv, BrowserFunctions
  <1>8. ASSUME NEW c \in Browsers
        PROVE  BrowserOK(c)'
    <2>1. BrowserOK(c)
      BY DEF HistoryInv
    <2>2. reply'[c] = reply[c] \/ reply'[c] = p
      BY <1>4 DEF HistoryInv, BrowserFunctions
    <2>3. /\ PageOK(reply'[c], messages, Broadcasts)
          /\ PageComplete(reply'[c], log, messages, Settled)
      BY <1>2, <2>1, <2>2 DEF BrowserOK
    <2>4. QED
      BY <1>5, <1>6, <2>1, <2>3 DEF BrowserOK
  <1>9. QED
    BY <1>6, <1>7, <1>8 DEF HistoryInv

LEMMA LoadStep ==
  ASSUME HistoryInv, NEW b \in Browsers, Load(b)
  PROVE  HistoryInv'
  <1>1. /\ page' = [page EXCEPT ![b] = reply[b]]
        /\ reply' = [reply EXCEPT ![b] = NoPage]
        /\ live' = [live EXCEPT ![b] = <<>>]
        /\ sock' = [sock EXCEPT ![b] = FALSE]
        /\ queue' = [queue EXCEPT ![b] = <<>>]
        /\ opened' = [opened EXCEPT ![b] = 0]
        /\ dropped' = [dropped EXCEPT ![b] = {}]
        /\ UNCHANGED serverVars
    BY DEF Load
  <1>2. ServerOK' /\ UNCHANGED <<now, log, svc, messages, Broadcasts, Settled>>
    BY <1>1, ServerStays
  <1>3. ServerOK /\ BrowserFunctions /\ BrowserOK(b)
    BY DEF HistoryInv
  <1>4. reply[b] \in PageType /\ NoPage \in PageType
    BY <1>3, NoPageFacts DEF BrowserFunctions
  <1>5. Broadcasts \in Nat /\ Broadcasts <= MaxLines
    BY <1>3, ServerFacts, HistoryAssumption
  <1>9. /\ page'[b] = reply[b] /\ reply'[b] = NoPage /\ live'[b] = <<>>
        /\ ~sock'[b] /\ queue'[b] = <<>>
    BY <1>1, <1>3 DEF BrowserFunctions
  <1>10. BrowserFunctions'
    BY <1>1, <1>3, <1>4, HistoryAssumption DEF BrowserFunctions
  <1>11. BrowserOK(b)'
    <2>1. /\ PageOK(page'[b], messages, Broadcasts)
          /\ PageComplete(page'[b], log, messages, Settled)
      BY <1>3, <1>9 DEF BrowserOK
    <2>2. /\ PageOK(reply'[b], messages, Broadcasts)
          /\ PageComplete(reply'[b], log, messages, Settled)
      BY <1>5, <1>9, NoPageFacts DEF PageOK, PageComplete
    <2>3. WayOK(live'[b], queue'[b], page'[b].upto, Broadcasts)
      BY <1>9 DEF WayOK
    <2>4. QED
      BY <1>2, <1>9, <2>1, <2>2, <2>3 DEF BrowserOK
  <1>12. ASSUME NEW c \in Browsers, c # b
         PROVE  BrowserOK(c)'
    <2>1. BrowserOK(c)
      BY DEF HistoryInv
    <2>2. /\ page'[c] = page[c] /\ reply'[c] = reply[c] /\ live'[c] = live[c]
          /\ sock'[c] = sock[c] /\ queue'[c] = queue[c]
          /\ opened'[c] = opened[c] /\ dropped'[c] = dropped[c]
      BY <1>1, <1>3, <1>12 DEF BrowserFunctions
    <2>3. QED
      BY <1>2, <2>1, <2>2 DEF BrowserOK
  <1>13. QED
    BY <1>2, <1>10, <1>11, <1>12 DEF HistoryInv

(* A step of one browser on its socket.                                    *)
LEMMA SocketStays ==
  ASSUME HistoryInv, UNCHANGED <<log, svc, messages, reply, page>>, ServerOK',
         NEW b \in Browsers,
         \A c \in Browsers \ {b} :
           /\ live'[c] = live[c] /\ sock'[c] = sock[c] /\ queue'[c] = queue[c]
           /\ opened'[c] = opened[c] /\ dropped'[c] = dropped[c],
         live' \in [Browsers -> Seq(1 .. MaxLines)],
         sock' \in [Browsers -> BOOLEAN],
         queue' \in [Browsers -> Seq(1 .. MaxLines)],
         opened' \in [Browsers -> 0 .. MaxLines],
         dropped' \in [Browsers -> SUBSET (1 .. MaxLines)],
         WayOK(live'[b], queue'[b], page[b].upto, Broadcasts),
         sock'[b] => HeardOK(opened'[b], dropped'[b], live'[b], queue'[b],
                             log, Broadcasts)
  PROVE  HistoryInv'
  <1>1. UNCHANGED <<Broadcasts, Settled>>
    BY DEF Broadcasts, Settled
  <1>2. BrowserFunctions'
    BY DEF HistoryInv, BrowserFunctions
  <1>3. ASSUME NEW c \in Browsers
        PROVE  BrowserOK(c)'
    <2>1. BrowserOK(c)
      BY DEF HistoryInv
    <2>2. CASE c = b
      BY <1>1, <2>1, <2>2 DEF BrowserOK
    <2>3. CASE c # b
      BY <1>1, <2>1, <2>3 DEF BrowserOK
    <2>4. QED
      BY <2>2, <2>3
  <1>4. QED
    BY <1>2, <1>3 DEF HistoryInv

LEMMA CreateSockStep ==
  ASSUME HistoryInv, NEW b \in Browsers, CreateSock(b)
  PROVE  HistoryInv'
  <1>1. /\ sock' = [sock EXCEPT ![b] = TRUE]
        /\ opened' = [opened EXCEPT ![b] = Broadcasts]
        /\ UNCHANGED <<serverVars, reply, page, live, queue, dropped>>
    BY DEF CreateSock, shownVars
  <1>2. ServerOK' /\ UNCHANGED <<log, svc, messages>>
    BY <1>1, ServerStays
  <1>3. ServerOK /\ BrowserFunctions /\ BrowserOK(b)
    BY DEF HistoryInv
  <1>4. Broadcasts \in 0 .. MaxLines /\ Broadcasts \in Int
    BY <1>3, ServerFacts, HistoryAssumption
  <1>5. opened'[b] = Broadcasts
    BY <1>1, <1>3 DEF BrowserFunctions
  <1>6. HeardOK(opened'[b], dropped'[b], live'[b], queue'[b], log, Broadcasts)
    BY <1>4, <1>5 DEF HeardOK
  <1>7. WayOK(live'[b], queue'[b], page[b].upto, Broadcasts)
    BY <1>1, <1>3 DEF BrowserOK
  <1>8. /\ sock' \in [Browsers -> BOOLEAN]
        /\ opened' \in [Browsers -> 0 .. MaxLines]
        /\ \A c \in Browsers \ {b} : sock'[c] = sock[c] /\ opened'[c] = opened[c]
    BY <1>1, <1>3, <1>4 DEF BrowserFunctions
  <1>9. QED
    BY <1>1, <1>2, <1>3, <1>6, <1>7, <1>8, SocketStays DEF BrowserFunctions

LEMMA CloseSockStep ==
  ASSUME HistoryInv, NEW b \in Browsers, CloseSock(b)
  PROVE  HistoryInv'
  <1>1. PICK n \in 0 .. Len(queue[b]) :
          queue' = [queue EXCEPT ![b] = SubSeq(queue[b], 1, n)]
    BY DEF CloseSock
  <1>2. /\ sock' = [sock EXCEPT ![b] = FALSE]
        /\ opened' = [opened EXCEPT ![b] = 0]
        /\ dropped' = [dropped EXCEPT ![b] = {}]
        /\ UNCHANGED <<serverVars, reply, page, live>>
    BY DEF CloseSock, shownVars
  <1>3. ServerOK' /\ UNCHANGED <<log, svc, messages>>
    BY <1>2, ServerStays
  <1>4. ServerOK /\ BrowserFunctions /\ BrowserOK(b)
    BY DEF HistoryInv
  <1>5. queue'[b] = SubSeq(queue[b], 1, n) /\ ~sock'[b]
    BY <1>1, <1>2, <1>4 DEF BrowserFunctions
  <1>6. WayOK(live'[b], queue'[b], page[b].upto, Broadcasts)
    BY <1>2, <1>4, <1>5, WayCut DEF BrowserOK
  <1>7. queue'[b] \in Seq(1 .. MaxLines)
    BY <1>6 DEF WayOK
  <1>8. queue' \in [Browsers -> Seq(1 .. MaxLines)]
    BY <1>1, <1>4, <1>5, <1>7 DEF BrowserFunctions
  <1>9. /\ sock' \in [Browsers -> BOOLEAN]
        /\ opened' \in [Browsers -> 0 .. MaxLines]
        /\ dropped' \in [Browsers -> SUBSET (1 .. MaxLines)]
    BY <1>2, <1>4, HistoryAssumption DEF BrowserFunctions
  <1>10. \A c \in Browsers \ {b} :
           /\ sock'[c] = sock[c] /\ queue'[c] = queue[c]
           /\ opened'[c] = opened[c] /\ dropped'[c] = dropped[c]
    BY <1>1, <1>2, <1>4 DEF BrowserFunctions
  <1>11. QED
    BY <1>2, <1>3, <1>4, <1>5, <1>6, <1>8, <1>9, <1>10, SocketStays DEF BrowserFunctions

LEMMA OnMessageStep ==
  ASSUME HistoryInv, NEW b \in Browsers, OnMessage(b)
  PROVE  HistoryInv'
  <1>1. PICK q, h : q = queue[b] /\ h = Head(q)
    OBVIOUS
  <1>2. /\ q # <<>>
        /\ queue' = [queue EXCEPT ![b] = Tail(q)]
        /\ live' = IF log[h].matched
                   THEN [live EXCEPT ![b] = Append(live[b], h)]
                   ELSE live
        /\ UNCHANGED <<serverVars, reply, page, sock, opened, dropped>>
    BY <1>1 DEF OnMessage
  <1>3. ServerOK' /\ UNCHANGED <<log, svc, messages>>
    BY <1>2, ServerStays
  <1>4. ServerOK /\ BrowserFunctions /\ BrowserOK(b)
    BY DEF HistoryInv
  <1>5. q \in Seq(1 .. MaxLines) /\ live[b] \in Seq(1 .. MaxLines)
    BY <1>1, <1>4 DEF BrowserFunctions
  <1>6. h \in 1 .. MaxLines /\ Tail(q) \in Seq(1 .. MaxLines)
    BY <1>1, <1>2, <1>5, TailFacts
  <1>7. /\ WayOK(live[b], Tail(q), page[b].upto, Broadcasts)
        /\ WayOK(Append(live[b], h), Tail(q), page[b].upto, Broadcasts)
    BY <1>1, <1>2, <1>4, WayMove DEF BrowserOK
  <1>8. /\ Append(live[b], h) \in Seq(1 .. MaxLines)
        /\ Elements(live[b]) \cup {h} \subseteq Elements(Append(live[b], h))
    BY <1>5, <1>6, AppendFacts, ElementsAppend
  <1>9. \A k \in Elements(q) : k = h \/ k \in Elements(Tail(q))
    BY <1>1, <1>2, <1>5, ElementsTail
  <1>10. PICK t, a : t = Tail(q) /\ a = Append(live[b], h)
    OBVIOUS
  <1>11. /\ queue'[b] = t
         /\ queue' \in [Browsers -> Seq(1 .. MaxLines)]
         /\ \A c \in Browsers \ {b} : queue'[c] = queue[c]
    BY <1>2, <1>4, <1>6, <1>10 DEF BrowserFunctions
  <1>12. CASE log[h].matched
    <2>1. live' = [live EXCEPT ![b] = a]
      BY <1>2, <1>10, <1>12
    <2>2. /\ live'[b] = a
          /\ live' \in [Browsers -> Seq(1 .. MaxLines)]
          /\ \A c \in Browsers \ {b} : live'[c] = live[c]
      BY <1>4, <1>8, <1>10, <2>1 DEF BrowserFunctions
    <2>3. WayOK(live'[b], queue'[b], page[b].upto, Broadcasts)
      BY <1>7, <1>10, <1>11, <2>2
    <2>4. sock[b] => HeardOK(opened[b], dropped[b], a, t, log, Broadcasts)
      BY <1>1, <1>4, <1>8, <1>9, <1>10 DEF BrowserOK, HeardOK, Heard
    <2>5. QED
      BY <1>2, <1>3, <1>4, <1>11, <2>2, <2>3, <2>4, SocketStays DEF BrowserFunctions
  <1>13. CASE ~log[h].matched
    <2>1. live' = live
      BY <1>2, <1>13
    <2>2. WayOK(live'[b], queue'[b], page[b].upto, Broadcasts)
      BY <1>7, <1>10, <1>11, <2>1
    <2>3. sock[b] => HeardOK(opened[b], dropped[b], live[b], t, log, Broadcasts)
      BY <1>1, <1>4, <1>9, <1>10, <1>13 DEF BrowserOK, HeardOK, Heard
    <2>4. QED
      BY <1>2, <1>3, <1>4, <1>11, <2>1, <2>2, <2>3, SocketStays DEF BrowserFunctions
  <1>14. QED
    BY <1>12, <1>13

(* Steps that change neither the tables nor the browsers.                  *)
LEMMA BrowsersStay ==
  ASSUME HistoryInv, UNCHANGED <<log, svc, messages, browserVars>>, ServerOK'
  PROVE  HistoryInv'
  <1>1. UNCHANGED <<Broadcasts, Settled>>
    BY DEF Broadcasts, Settled
  <1>2. UNCHANGED <<reply, page, live, sock, queue, opened, dropped>>
    BY DEF browserVars, shownVars, sockVars
  <1>3. BrowserFunctions'
    BY <1>2 DEF HistoryInv, BrowserFunctions
  <1>4. ASSUME NEW b \in Browsers
        PROVE  BrowserOK(b)'
    BY <1>1, <1>2 DEF HistoryInv, BrowserOK
  <1>5. QED
    BY <1>3, <1>4 DEF HistoryInv

LEMMA TickStep ==
  ASSUME HistoryInv, Tick
  PROVE  HistoryInv'
  <1>1. /\ now < MaxTime /\ now' = now + 1
        /\ UNCHANGED <<log, svc, messages, browserVars>>
    BY DEF Tick
  <1>2. ServerOK
    BY DEF HistoryInv
  <1>3. now \in Nat /\ now' \in 0 .. MaxTime /\ now <= now'
    BY <1>1, <1>2, HistoryAssumption DEF ServerOK
  <1>4. LogOK(log, now')
    <2>1. ASSUME NEW k \in 1 .. Len(log)
          PROVE  log[k].time <= now'
      <3>1. log[k] \in Entries /\ log[k].time <= now
        BY <1>2 DEF ServerOK, LogOK
      <3>2. log[k].time \in Int
        BY <3>1, HistoryAssumption DEF Entries
      <3>3. QED
        BY <1>3, <3>1, <3>2
    <2>2. QED
      BY <1>2, <2>1 DEF ServerOK, LogOK
  <1>5. TableOK(messages, log, now', Settled)
    <2>1. ASSUME NEW r \in messages
          PROVE  r.time <= now'
      <3>1. r \in Rows /\ r.time <= now
        BY <1>2 DEF ServerOK, TableOK
      <3>2. r.time \in Int
        BY <3>1, HistoryAssumption DEF Rows
      <3>3. QED
        BY <1>3, <3>1, <3>2
    <2>2. QED
      BY <1>2, <2>1 DEF ServerOK, TableOK
  <1>6. ServerOK'
    BY <1>1, <1>2, <1>3, <1>4, <1>5 DEF ServerOK, Settled
  <1>7. QED
    BY <1>1, <1>6, BrowsersStay

LEMMA HistoryNext == HistoryInv /\ [Next]_vars => HistoryInv'
  <1> SUFFICES ASSUME HistoryInv, [Next]_vars
               PROVE  HistoryInv'
    OBVIOUS
  <1>1. ASSUME NEW u \in Users \cup {NoUser}, Privmsg(u)
        PROVE  HistoryInv'
    BY <1>1, PrivmsgStep
  <1>2. CASE Handle
    BY <1>2, BroadcastStep, StoreStep DEF Handle
  <1>3. ASSUME NEW b \in Browsers,
               \/ Chat(b) \/ Load(b)
               \/ CreateSock(b) \/ CloseSock(b) \/ OnMessage(b)
        PROVE  HistoryInv'
    BY <1>3, ChatStep, LoadStep, CreateSockStep, CloseSockStep, OnMessageStep
  <1>4. CASE Tick
    BY <1>4, TickStep
  <1>5. CASE UNCHANGED vars
    <2>1. ServerOK'
      BY <1>5, ServerStays DEF vars
    <2>2. QED
      BY <1>5, <2>1, BrowsersStay DEF vars, serverVars
  <1>6. QED
    BY <1>1, <1>2, <1>3, <1>4, <1>5 DEF Next

(* The table, the pages and what browsers show always fit together.        *)
THEOREM HistoryAlwaysInv == Spec => []HistoryInv
  <1>1. Init => HistoryInv
    BY HistoryInit
  <1>2. HistoryInv /\ [Next]_vars => HistoryInv'
    BY HistoryNext
  <1>3. QED
    BY <1>1, <1>2, PTL DEF Spec

-----------------------------------------------------------------------------
(* Types of the table, of the pages and of what the browsers show.         *)
THEOREM HistoryWellTyped == Spec => []TypeOK
  <1>1. HistoryInv => TypeOK
    <2> SUFFICES ASSUME HistoryInv
                 PROVE  TypeOK
      OBVIOUS
    <2>1. ServerOK /\ BrowserFunctions
      BY DEF HistoryInv
    <2>2. \A r \in messages : r.line \in Lines
      <3>1. \A r \in messages : r.line \in 1 .. Settled
        BY <2>1 DEF ServerOK, TableOK
      <3>2. Settled \in Nat /\ Len(log) \in Nat /\ Settled <= Len(log)
        BY <2>1, ServerFacts
      <3>3. QED
        BY <3>1, <3>2 DEF Lines
    <2>3. svc # "poll" => log # <<>>
      BY <2>1 DEF ServerOK
    <2>4. QED
      BY <2>1, <2>2, <2>3
         DEF TypeOK, ServerOK, LogOK, TableOK, Entries, BrowserFunctions
  <1>2. QED
    BY <1>1, HistoryAlwaysInv, PTL

(* No browser ever shows a line twice.                                     *)
THEOREM NothingShownTwice == Spec => []NothingTwice
  <1>1. HistoryInv => NothingTwice
    <2> SUFFICES ASSUME HistoryInv, NEW b \in Browsers
                 PROVE  /\ \A i, j \in 1 .. Len(page[b].rows) :
                             i < j => page[b].rows[i].line # page[b].rows[j].line
                        /\ \A i, j \in 1 .. Len(live[b]) :
                             i < j => live[b][i] # live[b][j]
                        /\ LinesOf(page[b].rows) \cap Elements(live[b]) = {}
      BY DEF NothingTwice
    <2>1. /\ PageOK(page[b], messages, Broadcasts)
          /\ WayOK(live[b], queue[b], page[b].upto, Broadcasts)
      BY DEF HistoryInv, BrowserOK
    <2>2. \A i \in 1 .. Len(page[b].rows) :
            page[b].rows[i].line \in Int /\ page[b].rows[i].line <= page[b].upto
      <3>1. \A i \in 1 .. Len(page[b].rows) : page[b].rows[i] \in messages
        BY <2>1 DEF PageOK
      <3>2. messages \subseteq Rows
        BY DEF HistoryInv, ServerOK, TableOK
      <3>3. \A r \in Rows : r.line \in Int
        BY DEF Rows
      <3>4. QED
        BY <2>1, <3>1, <3>2, <3>3 DEF PageOK
    <2>3. \A i \in 1 .. Len(live[b]) :
            live[b][i] \in Int /\ page[b].upto < live[b][i]
      <3>1. \A i \in 1 .. Len(live[b]) : live[b][i] \in 1 .. MaxLines
        BY <2>1, WayLines
      <3>2. QED
        BY <2>1, <3>1 DEF WayOK
    <2>4. page[b].upto \in Int
      BY <2>1, HistoryAssumption DEF PageOK, PageType
    <2>5. \A i \in 1 .. Len(page[b].rows), j \in 1 .. Len(live[b]) :
            page[b].rows[i].line # live[b][j]
      BY <2>2, <2>3, <2>4
    <2>6. LinesOf(page[b].rows) \cap Elements(live[b]) = {}
      BY <2>5 DEF LinesOf, Elements
    <2>7. \A i, j \in 1 .. Len(live[b]) : i < j => live[b][i] # live[b][j]
      BY <2>1, <2>3 DEF WayOK
    <2>8. QED
      BY <2>1, <2>6, <2>7 DEF PageOK
  <1>2. QED
    BY <1>1, HistoryAlwaysInv, PTL

(* What a browser shows is in the order it was sent, but for rows of one   *)
(* second.                                                                 *)
THEOREM InOrderSent == Spec => []ShownInOrder
  <1>1. HistoryInv => ShownInOrder
    <2> SUFFICES ASSUME HistoryInv, NEW b \in Browsers
                 PROVE  LET rows == page[b].rows IN
                        /\ \A i, j \in 1 .. Len(rows) :
                             i < j => \/ rows[i].line < rows[j].line
                                      \/ rows[i].time = rows[j].time
                        /\ \A i, j \in 1 .. Len(live[b]) :
                             i < j => live[b][i] < live[b][j]
                        /\ \A i \in 1 .. Len(rows), j \in 1 .. Len(live[b]) :
                             rows[i].line < live[b][j]
      BY DEF ShownInOrder
    <2>1. PICK rows, lines : rows = page[b].rows /\ lines = live[b]
      OBVIOUS
    <2>2. /\ ServerOK
          /\ PageOK(page[b], messages, Broadcasts)
          /\ WayOK(lines, queue[b], page[b].upto, Broadcasts)
      BY <2>1 DEF HistoryInv, BrowserOK
    <2>3. TableOK(messages, log, now, Settled)
      BY <2>2 DEF ServerOK
    <2>4. \A i \in 1 .. Len(rows) :
            rows[i] \in messages /\ rows[i].line <= page[b].upto
      BY <2>1, <2>2 DEF PageOK
    <2>5. \A r \in messages :
            /\ r.line \in 1 .. Len(log) /\ r.line \in Int /\ r.time \in Int
            /\ log[r.line].time <= r.time /\ log[r.line].time \in Int
      <3>1. TAKE r \in messages
      <3>2. r \in Rows /\ r.line \in 1 .. Settled /\ log[r.line].time <= r.time
        BY <2>3 DEF TableOK
      <3>3. Settled \in Nat /\ Settled <= Len(log) /\ Len(log) \in Nat
        BY <2>2, ServerFacts
      <3>4. r.line \in 1 .. Len(log) /\ r.line \in Int
        BY <3>2, <3>3
      <3>5. r.time \in Int
        BY <3>2, HistoryAssumption DEF Rows
      <3>6. log[r.line] \in Entries
        BY <2>2, <3>4 DEF ServerOK, LogOK
      <3>7. log[r.line].time \in 0 .. MaxTime
        BY <3>6 DEF Entries
      <3>8. QED
        BY <3>2, <3>4, <3>5, <3>7, HistoryAssumption
    <2>6. \A i, j \in 1 .. Len(rows) :
            i < j => rows[i].line < rows[j].line \/ rows[i].time = rows[j].time
      <3>1. TAKE i, j \in 1 .. Len(rows)
      <3>2. HAVE i < j
      <3>3. rows[i].line # rows[j].line /\ rows[i].time <= rows[j].time
        BY <2>1, <2>2, <3>2 DEF PageOK
      <3>4. PICK r, q : r = rows[i] /\ q = rows[j]
        OBVIOUS
      <3>5. r \in messages /\ q \in messages
        BY <2>4, <3>4
      <3>6. CASE q.line < r.line
        <4>1. q.time <= log[r.line].time
          BY <2>3, <2>5, <3>5, <3>6 DEF TableOK
        <4>2. log[r.line].time <= r.time /\ r.time <= q.time
          BY <2>5, <3>3, <3>4, <3>5
        <4>3. r.time = q.time
          BY <2>5, <3>5, <4>1, <4>2
        <4>4. QED
          BY <3>4, <4>3
      <3>7. r.line \in Int /\ q.line \in Int /\ r.line # q.line
        BY <2>5, <3>3, <3>4, <3>5
      <3>8. QED
        BY <3>4, <3>6, <3>7
    <2>7. page[b].upto \in Int
      BY <2>2, HistoryAssumption DEF PageOK, PageType
    <2>8. \A i \in 1 .. Len(rows), j \in 1 .. Len(lines) : rows[i].line < lines[j]
      <3>1. \A j \in 1 .. Len(lines) : lines[j] \in 1 .. MaxLines
        BY <2>2, WayLines
      <3>2. \A j \in 1 .. Len(lines) : page[b].upto < lines[j]
        BY <2>2 DEF WayOK
      <3>3. QED
        BY <2>4, <2>5, <2>7, <3>1, <3>2
    <2>9. \A i, j \in 1 .. Len(lines) : i < j => lines[i] < lines[j]
      BY <2>2 DEF WayOK
    <2>10. QED
      BY <2>1, <2>6, <2>8, <2>9
  <1>2. QED
    BY <1>1, HistoryAlwaysInv, PTL

(* A line a browser does not show is missing for one of the known reasons. *)
THEOREM LinesAccounted == Spec => []EveryLineAccounted
  <1>1. HistoryInv => EveryLineAccounted
    <2> SUFFICES ASSUME HistoryInv, NEW b \in Browsers, NEW k \in 1 .. Broadcasts
                 PROVE  \/ k \in LinesOf(page[b].rows) \cup Elements(live[b])
                        \/ /\ k > page[b].upto
                           /\ \/ ~sock[b]
                              \/ k <= opened[b]
                              \/ k \in Elements(queue[b]) \cup dropped[b]
                              \/ ~log[k].matched
                        \/ /\ k <= page[b].upto
                           /\ \/ k \in page[b].caught
                              \/ \A r \in messages : r.line # k
                              \/ log[k].from = NoUser
                              \/ CrowdedOut(b, k)
      BY DEF EveryLineAccounted
    <2>1. /\ PageOK(page[b], messages, Broadcasts)
          /\ PageComplete(page[b], log, messages, Settled)
          /\ sock[b] => HeardOK(opened[b], dropped[b], live[b], queue[b],
                                log, Broadcasts)
      BY DEF HistoryInv, BrowserOK
    <2>2. page[b].upto \in Int
      BY <2>1, HistoryAssumption DEF PageOK, PageType
    <2>3. CASE k <= page[b].upto
      <3>1. k \in 1 .. page[b].upto
        BY <2>2, <2>3
      <3>2. \/ k \in LinesOf(page[b].rows)
            \/ k \in page[b].caught
            \/ Explained(page[b], k, log, messages)
        BY <2>1, <3>1 DEF PageComplete
      <3>3. QED
        BY <2>3, <3>2 DEF Explained, CrowdedOut
    <2>4. CASE ~(k <= page[b].upto)
      BY <2>1, <2>2, <2>4 DEF HeardOK, Heard
    <2>5. QED
      BY <2>3, <2>4
  <1>2. QED
    BY <1>1, HistoryAlwaysInv, PTL
=============================================================================
