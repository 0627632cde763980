--------------------------- MODULE SchemaInitProofs ---------------------------
(***************************************************************************)
(* Proofs about SchemaInit, for any latest version and any number of       *)
(* stops.                                                                  *)
(***************************************************************************)
EXTENDS SchemaInit, TLAPS

(* What each statement of chatdb_init finds on disk.                       *)
Progress ==
  /\ "users" \notin tables => cols = <<>> /\ version = NoVersion
  /\ version # NoVersion => tables = AllTables
  /\ pc \notin {"down", "messages"} => "messages" \in tables
  /\ pc \notin {"down", "messages", "users"} => "users" \in tables
  /\ pc \notin {"down", "messages", "users", "sessions"} => "sessions" \in tables
  /\ pc \in {"version", "stamp", "alter", "set", "up"} => tables = AllTables
  /\ pc = "stamp" => version = NoVersion
  /\ pc \in {"alter", "set"} => version = ver /\ ver \in 0 .. Latest - 1
  /\ pc = "set" => Len(cols) = ver + 1
  /\ pc = "up" => version = Latest

(* A file without a version has the latest users table, if any, unless it  *)
(* came with an older one; that one is then never upgraded.                *)
UnversionedIsLatest ==
  /\ version = NoVersion /\ "users" \in tables /\ ~stale => cols = UpTo(Latest)
  /\ stale => "users" \in tables /\ version \in {NoVersion, Latest}

(* UpIsCurrent is not inductive: a start relies on what earlier, stopped   *)
(* starts have left.                                                       *)
SchemaInv == TypeOK /\ VersionMatchesColumns /\ UnversionedIsLatest /\ Progress

LEMMA ColumnsAreUpTo ==
  ASSUME TypeOK, VersionMatchesColumns, Len(cols) >= Latest
  PROVE  cols = UpTo(Latest)
<1> USE SchemaInitAssumption DEF SchemaInitAssumption
<1>1. cols \in Seq(1 .. Latest) /\ Len(cols) \in Nat
  BY DEF TypeOK
<1>2. cols[Len(cols)] \in 1 .. Latest /\ cols[Len(cols)] = Len(cols)
  BY <1>1 DEF VersionMatchesColumns
<1>3. Len(cols) = Latest
  BY <1>1, <1>2
<1>4. cols = [k \in 1 .. Latest |-> cols[k]]
  BY <1>1, <1>3
<1> QED
  BY <1>3, <1>4 DEF VersionMatchesColumns, UpTo

LEMMA UpToIsSeq ==
  ASSUME NEW n \in 0 .. Latest
  PROVE  /\ UpTo(n) \in Seq(1 .. Latest) /\ Len(UpTo(n)) = n
         /\ \A k \in 1 .. n : UpTo(n)[k] = k
<1> USE SchemaInitAssumption DEF SchemaInitAssumption
<1>1. UpTo(n) \in [1 .. n -> 1 .. Latest]
  BY DEF UpTo
<1> QED
  BY <1>1 DEF UpTo

LEMMA TypedAtStart ==
  ASSUME pc = "down", ver = NoVersion, stops = 0, tables \subseteq AllTables,
         messages \in {"none", "messages", "users"}, cols \in Seq(1 .. Latest),
         version \in {NoVersion} \cup 0 .. Latest, stale \in BOOLEAN
  PROVE  TypeOK
<1>1. stops \in 0 .. MaxStops /\ ver \in {NoVersion} \cup 0 .. Latest
  BY SchemaInitAssumption DEF SchemaInitAssumption
<1>2. pc \in {"down", "messages", "users", "sessions", "options", "version",
              "stamp", "alter", "set", "up"}
  OBVIOUS
<1> QED
  BY <1>1, <1>2, Zenon DEF TypeOK

LEMMA SchemaInitially == Init => SchemaInv
<1> USE SchemaInitAssumption DEF SchemaInitAssumption
<1> SUFFICES ASSUME Init PROVE SchemaInv
  OBVIOUS
<1>1. pc = "down" /\ ver = NoVersion /\ stops = 0
  BY DEF Init
<1>2. CASE /\ \/ tables = {} /\ messages = "none"
              \/ tables = {"messages"} /\ messages = "messages"
           /\ cols = <<>> /\ version = NoVersion
           /\ stale = FALSE
  <2>1. tables \subseteq AllTables /\ "users" \notin tables
    BY <1>2 DEF AllTables
  <2>5. messages \in {"none", "messages", "users"} /\ cols \in Seq(1 .. Latest)
    BY <1>2
  <2>6. stale \in BOOLEAN
    BY <1>2, Zenon
  <2>2. TypeOK
    BY <1>1, <1>2, <2>1, <2>5, <2>6, TypedAtStart
  <2>3. VersionMatchesColumns
    BY <1>2 DEF VersionMatchesColumns
  <2>4. UnversionedIsLatest /\ Progress
    BY <1>1, <1>2, <2>1 DEF UnversionedIsLatest, Progress
  <2> QED
    BY <2>2, <2>3, <2>4 DEF SchemaInv
<1>3. CASE /\ tables = AllTables /\ messages = "messages"
           /\ \E v \in 0 .. Latest : cols = UpTo(v) /\ version = v
           /\ stale = FALSE
  <2>1. PICK v \in 0 .. Latest : cols = UpTo(v) /\ version = v
    BY <1>3
  <2>2. /\ cols \in Seq(1 .. Latest) /\ Len(cols) = v
        /\ \A k \in 1 .. Len(cols) : cols[k] = k
    BY <2>1, UpToIsSeq
  <2>6. messages \in {"none", "messages", "users"} /\ tables \subseteq AllTables
    BY <1>3
  <2>7. stale \in BOOLEAN
    BY <1>3, Zenon
  <2>3. TypeOK
    BY <1>1, <2>1, <2>2, <2>6, <2>7, TypedAtStart
  <2>4. VersionMatchesColumns
    BY <2>1, <2>2 DEF VersionMatchesColumns
  <2>5. UnversionedIsLatest /\ Progress
    BY <1>1, <1>3, <2>1, <2>2 DEF UnversionedIsLatest, Progress, NoVersion, AllTables
  <2> QED
    BY <2>3, <2>4, <2>5 DEF SchemaInv
<1>4. CASE /\ tables \in {{"messages", "users"},
                          {"messages", "users", "sessions"}, AllTables}
           /\ messages = "messages"
           /\ stale \in BOOLEAN
           /\ \E v \in 0 .. Latest : cols = UpTo(v) /\ (stale <=> v < Latest)
           /\ version = NoVersion
  <2>1. PICK v \in 0 .. Latest : cols = UpTo(v) /\ (stale <=> v < Latest)
    BY <1>4
  <2>2. /\ cols \in Seq(1 .. Latest) /\ Len(cols) = v
        /\ \A k \in 1 .. Len(cols) : cols[k] = k
    BY <2>1, UpToIsSeq
  <2>3. ~stale => cols = UpTo(Latest)
    BY <2>1
  <2>4. tables \subseteq AllTables /\ "users" \in tables
    BY <1>4 DEF AllTables
  <2>10. stale \in BOOLEAN
    BY <1>4, Zenon
  <2>9. messages \in {"none", "messages", "users"}
    BY <1>4
  <2>5. TypeOK
    BY <1>1, <1>4, <2>2, <2>10, <2>4, <2>9, TypedAtStart
  <2>6. VersionMatchesColumns
    BY <1>4, <2>2 DEF VersionMatchesColumns
  <2>7. "messages" \in tables
    BY <1>4 DEF AllTables
  <2>8. UnversionedIsLatest /\ Progress
    BY <1>1, <1>4, <2>3, <2>4, <2>7 DEF UnversionedIsLatest, Progress
  <2> QED
    BY <2>5, <2>6, <2>8 DEF SchemaInv
<1> QED
  BY <1>2, <1>3, <1>4 DEF Init

LEMMA SchemaStep == SchemaInv /\ [Next]_vars => SchemaInv'
<1> USE SchemaInitAssumption DEF SchemaInitAssumption
<1> SUFFICES ASSUME SchemaInv, [Next]_vars PROVE SchemaInv'
  OBVIOUS
<1> USE DEF SchemaInv, TypeOK, NoVersion
<1>1. CASE Start
  BY <1>1 DEF Start, disk, Progress, VersionMatchesColumns, UnversionedIsLatest
<1>2. CASE CreateMessages
  BY <1>2 DEF CreateMessages, AllTables, Progress, VersionMatchesColumns,
              UnversionedIsLatest
<1>3. CASE CreateUsers
  <2>1. CASE "users" \in tables
    BY <1>3, <2>1 DEF CreateUsers, AllTables, Progress, VersionMatchesColumns,
                      UnversionedIsLatest
  <2>2. CASE "users" \notin tables
    <3>1. /\ cols' = UpTo(Latest) /\ version' = NoVersion
          /\ tables' = tables \cup {"users"} /\ pc' = "sessions"
          /\ UNCHANGED <<messages, ver, stops, stale>> /\ "messages" \in tables
      BY <1>3, <2>2 DEF CreateUsers, Progress
    <3>2. /\ UpTo(Latest) \in Seq(1 .. Latest) /\ Len(UpTo(Latest)) = Latest
          /\ \A k \in 1 .. Latest : UpTo(Latest)[k] = k
      BY UpToIsSeq
    <3> QED
      BY <3>1, <3>2 DEF AllTables, Progress, VersionMatchesColumns, UnversionedIsLatest
  <2> QED
    BY <2>1, <2>2
<1>4. CASE CreateSessions
  BY <1>4 DEF CreateSessions, AllTables, Progress, VersionMatchesColumns,
              UnversionedIsLatest
<1>5. CASE CreateOptions
  BY <1>5 DEF CreateOptions, AllTables, Progress, VersionMatchesColumns,
              UnversionedIsLatest
<1>6. CASE GetVersion
  BY <1>6 DEF GetVersion, disk, Progress, VersionMatchesColumns, UnversionedIsLatest
<1>7. CASE StampLatest
  <2>1. (~stale => cols = UpTo(Latest)) /\ tables = AllTables
    BY <1>7 DEF StampLatest, Progress, UnversionedIsLatest, AllTables
  <2>2. ~stale => Len(cols) = Latest
    BY <2>1, UpToIsSeq
  <2> QED
    BY <1>7, <2>1, <2>2 DEF StampLatest, AllTables, Progress, VersionMatchesColumns,
                            UnversionedIsLatest
<1>8. CASE AlterTable
  <2>1. /\ pc = "alter" /\ version = ver /\ ver \in 0 .. Latest - 1
        /\ tables = AllTables
        /\ cols' = Append(cols, ver + 1) /\ pc' = "set"
        /\ UNCHANGED <<tables, messages, version, ver, stops, stale>>
    BY <1>8 DEF AlterTable, Progress
  <2>0. ~stale
    BY <2>1 DEF UnversionedIsLatest
  <2>2. Len(cols) = ver
    <3>1. Len(cols) \in {ver, ver + 1}
      BY <2>0, <2>1 DEF VersionMatchesColumns
    <3>2. Len(cols) # ver + 1
      BY <1>8, <2>1 DEF AlterTable, HasColumn, VersionMatchesColumns
    <3> QED
      BY <3>1, <3>2
  <2>3. /\ cols' \in Seq(1 .. Latest) /\ Len(cols') = ver + 1
        /\ \A k \in 1 .. Len(cols') : cols'[k] = k
    BY <2>1, <2>2 DEF VersionMatchesColumns
  <2> QED
    BY <2>1, <2>3 DEF AllTables, Progress, VersionMatchesColumns, UnversionedIsLatest
<1>9. CASE AlterRefused
  BY <1>9 DEF AlterRefused, disk, Progress, VersionMatchesColumns, UnversionedIsLatest
<1>10. CASE SetVersion
  BY <1>10 DEF SetVersion, AllTables, Progress, VersionMatchesColumns,
               UnversionedIsLatest
<1>11. CASE Stop
  BY <1>11 DEF Stop, disk, Progress, VersionMatchesColumns, UnversionedIsLatest
<1>12. CASE UNCHANGED vars
  BY <1>12 DEF vars, disk, Progress, VersionMatchesColumns, UnversionedIsLatest
<1> QED
  BY <1>1, <1>2, <1>3, <1>4, <1>5, <1>6, <1>7, <1>8, <1>9, <1>10, <1>11, <1>12
     DEF Next, Statement

THEOREM SchemaInvariant == Spec => []SchemaInv
BY SchemaInitially, SchemaStep, PTL DEF Spec

(* The server only ever serves on a database of the latest schema, with    *)
(* every column where the code reads it, after any stops and restarts;     *)
(* only the columns of an older users table that had no version may be     *)
(* missing.                                                                *)
THEOREM ServesCurrentSchema == Spec => []UpIsCurrent
<1>1. SchemaInv => UpIsCurrent
  <2> SUFFICES ASSUME SchemaInv, pc = "up" PROVE UpIsCurrent
    BY DEF UpIsCurrent
  <2>1. version = Latest /\ tables = AllTables
    BY DEF SchemaInv, Progress
  <2>2. ~stale => Len(cols) >= Latest
    BY <2>1, SchemaInitAssumption
       DEF SchemaInitAssumption, SchemaInv, TypeOK, VersionMatchesColumns, NoVersion
  <2> QED
    BY <2>1, <2>2, ColumnsAreUpTo DEF SchemaInv, UpIsCurrent
<1> QED
  BY <1>1, SchemaInvariant, PTL

(* An upgrade never skips a column and never counts one that is not there, *)
(* and with the same exception a version on disk tells the columns.        *)
THEOREM UpgradeKeepsStep == Spec => []VersionMatchesColumns
BY SchemaInvariant, PTL DEF SchemaInv

(* The columns of users are columns of the schema, in a sequence.          *)
THEOREM SchemaWellTyped == Spec => []TypeOK
BY SchemaInvariant, PTL DEF SchemaInv
=============================================================================
