--------------------------- MODULE ShutdownProofs ---------------------------
(* Proofs about Shutdown, for any number of clients, callbacks and         *)
(* signals.                                                                *)
EXTENDS Shutdown, TLAPS

(* Sections of a thread that runs main_shutdown.                           *)
Gone == Down \cup {"closed", "remove"}

(* A mutex is held inside its section, or by a thread that was interrupted *)
(* there and runs main_shutdown now.                                       *)
OwnerInv ==
  /\ at \in [Threads -> Sections]
  /\ inside \in [Threads -> BOOLEAN]
  /\ owner \in [Mutexes -> Threads \cup {Nobody}]
  /\ owner["no_mutex"] = Nobody
  /\ \A t \in Threads : inside[t] => owner[MutexOf(at[t])] = t
  /\ \A t \in Threads, m \in Mutexes :
       owner[m] = t => \/ inside[t] /\ MutexOf(at[t]) = m
                       \/ at[t] \in Gone

LEMMA MutexOfSection == \A s : MutexOf(s) \in Mutexes
  BY DEF MutexOf, Mutexes

LEMMA SectionFacts ==
  /\ \A s \in {"check", "auth", "drain", "slide", "find", "accept", "poll",
              "close", "null", "destroy", "clear", "free", "free_op", "exit"} :
       s \in Sections /\ MutexOf(s) = "no_mutex"
  /\ \A s \in {"sql", "sessions", "users", "insert"} :
       s \in Sections /\ MutexOf(s) = "db_mutex"
  /\ \A s \in {"add", "get", "write", "look", "delete", "closed",
              "remove"} :
       s \in Sections /\ MutexOf(s) = "clients_mutex"
  /\ \A s \in {"check", "auth", "drain", "slide", "find", "accept", "poll",
              "sql", "sessions", "users", "insert",
              "add", "get", "write", "look", "delete"} : s \notin Gone
  /\ \A s \in {"close", "null", "destroy", "clear", "free", "free_op", "exit",
              "closed", "remove"} : s \in Gone
  BY DEF Sections, Sql, Table, Unlocked, Down, Gone, MutexOf

GuardedMove(t) ==
  \E s, n \in Sections : Guarded(t, s, n) /\ (s \in Gone <=> n \in Gone)

UnguardedMove(t) ==
  \E s, n \in Sections :
    /\ Unguarded(t, s, n)
    /\ s \in Gone <=> n \in Gone
    /\ MutexOf(s) = "no_mutex"

LEMMA ShutdownStepMoves ==
  ASSUME NEW t \in Threads, ShutdownStep(t)
  PROVE  GuardedMove(t) \/ UnguardedMove(t) \/ UNCHANGED <<at, inside, owner>>
  <1>1. CASE \/ Unguarded(t, "close", "destroy")
             \/ Unguarded(t, "close", "null")
             \/ Unguarded(t, "null", "destroy")
             \/ Unguarded(t, "destroy", "closed")
             \/ Unguarded(t, "destroy", "clear")
             \/ Unguarded(t, "clear", "remove")
             \/ Unguarded(t, "clear", "free")
             \/ Unguarded(t, "free", "free_op")
             \/ Unguarded(t, "free_op", "exit")
    BY <1>1, SectionFacts DEF UnguardedMove
  <1>2. CASE Guarded(t, "closed", "destroy") \/ Guarded(t, "remove", "clear")
    BY <1>2, SectionFacts DEF GuardedMove
  <1>3. CASE Exit(t)
    BY <1>3 DEF Exit
  <1>4. QED
    BY <1>1, <1>2, <1>3
       DEF ShutdownStep, Close, Null, DestroyConnection, ClosedByDestroy,
           Destroy, Clear, Remove, Free, FreeOp

LEMMA ServiceStepMoves ==
  ASSUME Check \/ Sessions \/ Add \/ Receive \/ Write \/ Writeable
         \/ Closed("service")
  PROVE  GuardedMove("service") \/ UnguardedMove("service")
  <1> DEFINE U(s, n) == Unguarded("service", s, n)
             G(s, n) == Guarded("service", s, n)
  <1>1. CASE \/ U("check", "sessions")
             \/ U("auth", "users")
             \/ U("auth", "poll")
             \/ U("drain", "slide")
             \/ U("slide", "drain")
             \/ U("drain", "poll")
             \/ U("find", "poll")
             \/ U("find", "delete")
    BY <1>1, SectionFacts DEF UnguardedMove
  <1>2. CASE \/ G("sessions", "add")
             \/ G("add", "poll")
             \/ G("get", "poll")
             \/ G("get", "auth")
             \/ G("users", "write")
             \/ G("users", "poll")
             \/ G("insert", "poll")
             \/ G("write", "insert")
             \/ G("look", "poll")
             \/ G("look", "drain")
             \/ G("delete", "poll")
    BY <1>2, SectionFacts DEF GuardedMove
  <1>3. CASE Check
    BY <1>1, <1>3 DEF Check
  <1>4. CASE Sessions
    BY <1>2, <1>4 DEF Sessions, RunStatement
  <1>5. CASE Add
    BY <1>2, <1>5 DEF Add, AddTo
  <1>6. CASE Receive
    BY <1>1, <1>2, <1>6 DEF Receive, Get, Use, RunStatement
  <1>7. CASE Write
    BY <1>2, <1>7 DEF Write
  <1>8. CASE Writeable
    BY <1>1, <1>2, <1>8 DEF Writeable, Get, Use
  <1>9. CASE Closed("service")
    BY <1>1, <1>2, <1>9 DEF Closed, Find, Delete
  <1>10. QED
    BY <1>3, <1>4, <1>5, <1>6, <1>7, <1>8, <1>9

LEMMA NextMoves ==
  ASSUME Next
  PROVE  \/ \E t \in Threads :
               GuardedMove(t) \/ UnguardedMove(t) \/ Lock(t) \/ Begin(t)
         \/ UNCHANGED <<at, inside, owner>>
  <1> USE DEF Threads
  <1>1. CASE Accept
    BY <1>1, SectionFacts DEF Accept, UnguardedMove
  <1>2. CASE LeaveLoop
    BY <1>2 DEF LeaveLoop
  <1>3. CASE Callback
    <2>1. PICK n \in {"check", "get", "look", "find"} :
            Unguarded("service", "poll", n)
      BY <1>3 DEF Callback
    <2>2. QED
      BY <2>1, SectionFacts DEF UnguardedMove
  <1>4. CASE Request
    BY <1>4, SectionFacts DEF Request, RunStatement, GuardedMove
  <1>5. CASE \E t \in Threads : ShutdownStep(t)
    BY <1>5, ShutdownStepMoves
  <1>6. CASE Check \/ Sessions \/ Add \/ Receive \/ Write \/ Writeable
             \/ Closed("service")
    BY <1>6, ServiceStepMoves
  <1>7. CASE \E t \in Threads : Lock(t)
    BY <1>7
  <1>8. CASE \E t \in Threads : Interrupt(t)
    BY <1>8 DEF Interrupt
  <1>9. CASE Crash
    BY <1>9 DEF Crash
  <1>10. CASE Wake
    BY <1>10, SectionFacts DEF Wake, UnguardedMove
  <1>11. QED
    BY <1>1, <1>2, <1>3, <1>4, <1>5, <1>6, <1>7, <1>8, <1>9, <1>10
       DEF Next, MainStep, ServiceStep

-----------------------------------------------------------------------------
LEMMA OwnerInit == Init => OwnerInv
  BY SectionFacts DEF Init, OwnerInv, Threads, Mutexes, Nobody

LEMMA OwnerNext == OwnerInv /\ [Next]_vars => OwnerInv'
  <1> SUFFICES ASSUME OwnerInv, [Next]_vars
               PROVE  OwnerInv'
    OBVIOUS
  <1> USE DEF OwnerInv
  <1>1. CASE UNCHANGED <<at, inside, owner>>
    BY <1>1
  <1>2. ASSUME NEW t \in Threads, GuardedMove(t)
        PROVE  OwnerInv'
    <2>1. PICK s \in Sections, n \in Sections :
            Guarded(t, s, n) /\ (s \in Gone <=> n \in Gone)
      BY <1>2 DEF GuardedMove
    <2>2. /\ at[t] = s /\ inside[t] /\ owner[MutexOf(s)] = t
          /\ at' = [at EXCEPT ![t] = n]
          /\ inside' = [inside EXCEPT ![t] = FALSE]
          /\ owner' = [owner EXCEPT ![MutexOf(s)] = Nobody]
      BY <2>1 DEF Guarded
    <2>3. \A u \in Threads \ {t} : inside[u] => MutexOf(at[u]) # MutexOf(s)
      BY <2>2
    <2>4. Nobody \notin Threads
      BY DEF Nobody, Threads
    <2>5. MutexOf(s) \in Mutexes
      BY MutexOfSection
    <2>6. \A u \in Threads : inside'[u] => owner'[MutexOf(at'[u])] = u
      <3>1. TAKE u \in Threads
      <3>2. CASE u = t
        BY <2>2, <3>2
      <3>3. CASE u # t
        BY <2>2, <2>3, <3>3, MutexOfSection
      <3>4. QED
        BY <3>2, <3>3
    <2>7. \A u \in Threads, m \in Mutexes :
            owner'[m] = u => \/ inside'[u] /\ MutexOf(at'[u]) = m
                             \/ at'[u] \in Gone
      <3>1. TAKE u \in Threads, m \in Mutexes
      <3>2. CASE m = MutexOf(s)
        BY <2>2, <2>4, <3>2
      <3>3. CASE m # MutexOf(s) /\ u = t
        BY <2>1, <2>2, <3>3
      <3>4. CASE m # MutexOf(s) /\ u # t
        BY <2>2, <3>4
      <3>5. QED
        BY <3>2, <3>3, <3>4
    <2>8. QED
      BY <2>2, <2>5, <2>6, <2>7
  <1>3. ASSUME NEW t \in Threads, UnguardedMove(t)
        PROVE  OwnerInv'
    <2>1. PICK s \in Sections, n \in Sections :
            /\ Unguarded(t, s, n)
            /\ s \in Gone <=> n \in Gone
            /\ MutexOf(s) = "no_mutex"
      BY <1>3 DEF UnguardedMove
    <2>2. /\ at[t] = s /\ at' = [at EXCEPT ![t] = n]
          /\ UNCHANGED <<inside, owner>>
      BY <2>1 DEF Unguarded
    <2>3. ~inside[t]
      BY <2>1, <2>2 DEF Nobody, Threads
    <2>4. QED
      BY <2>1, <2>2, <2>3
  <1>4. ASSUME NEW t \in Threads, Lock(t)
        PROVE  OwnerInv'
    <2>1. /\ MutexOf(at[t]) # "no_mutex" /\ ~inside[t]
          /\ owner[MutexOf(at[t])] = Nobody
          /\ owner' = [owner EXCEPT ![MutexOf(at[t])] = t]
          /\ inside' = [inside EXCEPT ![t] = TRUE]
          /\ at' = at
      BY <1>4 DEF Lock
    <2>2. \A u \in Threads : inside[u] => MutexOf(at[u]) # MutexOf(at[t])
      BY <2>1 DEF Nobody, Threads
    <2>3. QED
      BY <2>1, <2>2, MutexOfSection
  <1>5. ASSUME NEW t \in Threads, Begin(t)
        PROVE  OwnerInv'
    <2>1. /\ at' = [at EXCEPT ![t] = "close"]
          /\ inside' = [inside EXCEPT ![t] = FALSE]
          /\ owner' = owner
      BY <1>5 DEF Begin
    <2>2. "close" \in Sections /\ "close" \in Gone
      BY SectionFacts
    <2>3. QED
      BY <2>1, <2>2
  <1>6. QED
    BY <1>1, <1>2, <1>3, <1>4, <1>5, NextMoves DEF vars

(* Threads hold mutexes where the code locks them, and nowhere else unless *)
(* a handler caught them.                                                  *)
THEOREM ShutdownOwnerInv == Spec => []OwnerInv
  <1>1. Init => OwnerInv
    BY OwnerInit
  <1>2. OwnerInv /\ [Next]_vars => OwnerInv'
    BY OwnerNext
  <1>3. QED
    BY <1>1, <1>2, PTL DEF Spec

LEMMA OwnerInvNoCircularWait == OwnerInv => NoCircularWait
  <1> SUFFICES ASSUME OwnerInv,
                      WaitsFor("main", "service"), WaitsFor("service", "main")
               PROVE  FALSE
    BY DEF NoCircularWait
  <1> DEFINE m == MutexOf(at["main"])
             n == MutexOf(at["service"])
  <1>1. /\ ~inside["main"] /\ ~inside["service"]
        /\ owner[m] = "service" /\ owner[n] = "main"
        /\ m \in Mutexes /\ n \in Mutexes
        /\ m # "no_mutex" /\ n # "no_mutex"
    BY MutexOfSection DEF WaitsFor, Waits
  <1>2. at["main"] \in Gone /\ at["service"] \in Gone
    BY <1>1 DEF OwnerInv, Threads
  <1>3. m = "clients_mutex" /\ n = "clients_mutex"
    BY <1>1, <1>2, SectionFacts DEF Gone, Down
  <1>4. QED
    BY <1>1, <1>3

(* The two threads never wait for each other.                              *)
THEOREM NeverCircularWait == Spec => []NoCircularWait
  <1>1. Spec => []OwnerInv
    BY ShutdownOwnerInv
  <1>2. OwnerInv => NoCircularWait
    BY OwnerInvNoCircularWait
  <1>3. QED
    BY <1>1, <1>2, PTL

-----------------------------------------------------------------------------
(* Types of what the positions and mutexes do not cover.                   *)
DataTypes ==
  /\ db \in {"open", "closed", "null"}
  /\ context \in BOOLEAN
  /\ op \in BOOLEAN
  /\ clients \in Nat
  /\ pointer \in [Threads -> {"none", "valid", "stale"}]
  /\ torn \in BOOLEAN
  /\ callbacks \in 0 .. MaxCallbacks
  /\ signals \in 0 .. MaxSignals
  /\ handler \subseteq Threads
  /\ ended \in BOOLEAN
  /\ harm \subseteq Harms
  /\ most \in Nat
  /\ downs \in Nat
  /\ quiet \in BOOLEAN
  /\ caught \in BOOLEAN

LEMMA HarmTypes ==
  /\ Freed \subseteq Harms
  /\ Lost \subseteq Harms
  /\ \A t : Stale(t) \subseteq Harms
  /\ {"op", "database", "context", "client", "table", "assertion"} = Harms
  BY DEF Freed, Lost, Stale, Harms

LEMMA GuardedEnded ==
  \A t, s, n : Guarded(t, s, n) \/ Unguarded(t, s, n) => UNCHANGED ended
  BY DEF Guarded, Unguarded

LEMMA ShutdownStepTypes ==
  ASSUME DataTypes, NEW t \in Threads, ShutdownStep(t)
  PROVE  DataTypes'
  <1> USE HarmTypes, GuardedEnded, ShutdownAssumption
      DEF DataTypes, resources, history
  <1>1. CASE Close(t)
    BY <1>1 DEF Close
  <1>2. CASE Null(t)
    BY <1>2 DEF Null
  <1>3. CASE Destroy(t)
    BY <1>3 DEF Destroy
  <1>4. CASE Clear(t)
    BY <1>4 DEF Clear
  <1>5. CASE Remove(t)
    BY <1>5 DEF Remove, DeleteClient, Other, Threads
  <1>6. CASE Free(t)
    BY <1>6 DEF Free, Other, Threads
  <1>7. CASE FreeOp(t)
    BY <1>7 DEF FreeOp
  <1>8. CASE Exit(t)
    BY <1>8 DEF Exit
  <1>9. CASE DestroyConnection(t)
    BY <1>9 DEF DestroyConnection, Found
  <1>10. CASE ClosedByDestroy(t)
    BY <1>10 DEF ClosedByDestroy, DeleteClient, Other, Threads
  <1>11. QED
    BY <1>1, <1>2, <1>3, <1>4, <1>5, <1>6, <1>7, <1>8, <1>9, <1>10
       DEF ShutdownStep

LEMMA ServingStepTypes ==
  ASSUME DataTypes,
         \/ Accept \/ Callback \/ Wake \/ Request
         \/ Check \/ Sessions \/ Add \/ Receive \/ Write \/ Writeable
         \/ Closed("service")
  PROVE  DataTypes'
  <1> USE HarmTypes, GuardedEnded, ShutdownAssumption
      DEF DataTypes, resources, history
  <1>1. ASSUME NEW t, NEW s, NEW n, RunStatement(t, s, n)
        PROVE  DataTypes'
    BY <1>1 DEF RunStatement
  <1>2. CASE Accept
    BY <1>2 DEF Accept
  <1>3. CASE Callback
    BY <1>3 DEF Callback
  <1>4. CASE Request \/ Sessions
    BY <1>1, <1>4 DEF Request, Sessions
  <1>5. CASE Check
    BY <1>5 DEF Check
  <1>6. CASE Add
    BY <1>6 DEF Add, AddTo
  <1>7. CASE Receive
    BY <1>1, <1>7 DEF Receive, Get, Found, Use, Threads
  <1>8. CASE Write
    BY <1>8 DEF Write
  <1>9. CASE Writeable
    BY <1>9 DEF Writeable, Get, Found, Use, Threads
  <1>10. CASE Closed("service")
    <2>1. ASSUME Find("service", "poll")
          PROVE  DataTypes'
      BY <2>1 DEF Find, Found, Threads
    <2>2. ASSUME Delete("service", "poll")
          PROVE  DataTypes'
      <3>1. UNCHANGED <<db, context, op, torn, ended, history>>
        BY <2>2 DEF Delete
      <3>2. clients' \in Nat
        BY <2>2 DEF Delete, DeleteClient
      <3>3. pointer' \in [Threads -> {"none", "valid", "stale"}]
        BY <2>2 DEF Delete, DeleteClient
      <3>4. harm' \subseteq Harms
        BY <2>2 DEF Delete
      <3>5. QED
        BY <3>1, <3>2, <3>3, <3>4
    <2>3. QED
      BY <1>10, <2>1, <2>2 DEF Closed
  <1>11. CASE Wake
    BY <1>11 DEF Wake
  <1>12. QED
    BY <1>2, <1>3, <1>4, <1>5, <1>6, <1>7, <1>8, <1>9, <1>10, <1>11

LEMMA DataInit == Init => DataTypes
  <1>1. Init => /\ clients \in Nat /\ most \in Nat
                /\ callbacks \in 0 .. MaxCallbacks
                /\ signals \in 0 .. MaxSignals
                /\ downs \in Nat
    BY ShutdownAssumption DEF Init
  <1>2. QED
    BY <1>1 DEF Init, DataTypes

LEMMA DataNext == DataTypes /\ [Next]_vars => DataTypes'
  <1> SUFFICES ASSUME DataTypes, [Next]_vars
               PROVE  DataTypes'
    OBVIOUS
  <1>1. CASE UNCHANGED vars
    BY <1>1 DEF DataTypes, vars, resources, history
  <1>2. ASSUME NEW t \in Threads, Lock(t)
        PROVE  DataTypes'
    BY <1>2, HarmTypes DEF Lock, DataTypes, resources, history
  <1>3. CASE LeaveLoop
    BY <1>3 DEF LeaveLoop, Begin, DataTypes
  <1>4. ASSUME NEW t \in Threads, Interrupt(t)
        PROVE  DataTypes'
    BY <1>4, ShutdownAssumption DEF Interrupt, Begin, DataTypes
  <1>5. CASE Crash
    BY <1>5 DEF Crash, DataTypes, resources, history
  <1>6. QED
    BY <1>1, <1>2, <1>3, <1>4, <1>5, ShutdownStepTypes, ServingStepTypes
       DEF Next, MainStep, ServiceStep, Threads

(* Types, and a thread inside a section holds the mutex of that section.   *)
THEOREM ShutdownWellTyped == Spec => []TypeOK
  <1>1. Init => DataTypes
    BY DataInit
  <1>2. DataTypes /\ [Next]_vars => DataTypes'
    BY DataNext
  <1>3. Spec => []OwnerInv
    BY ShutdownOwnerInv
  <1>4. OwnerInv /\ DataTypes => TypeOK
    BY DEF OwnerInv, DataTypes, TypeOK
  <1>5. QED
    BY <1>1, <1>2, <1>3, <1>4, PTL DEF Spec

-----------------------------------------------------------------------------
(* Until a shutdown begins everything is there, and what the service       *)
(* thread found under a mutex stays valid: nobody else removes a client.   *)
ServeState ==
  /\ harm = {}
  /\ op /\ context /\ db = "open"
  /\ at["main"] \notin Gone
  /\ at["service"] \notin Gone
  /\ at["service"] = "delete" => clients > 0
  /\ pointer["service"] # "stale"
  /\ torn = FALSE
  /\ ended = FALSE

ServeInv == downs = 0 /\ most < InitSlots => ServeState

ServingStep ==
  \/ Accept \/ Callback \/ Wake \/ Request
  \/ Check \/ Sessions \/ Add \/ Receive \/ Write \/ Writeable
  \/ Closed("service")

LEMMA StepSections ==
  /\ \A t : ShutdownStep(t) => at[t] \in Gone
  /\ Request => at["main"] = "sql"
  /\ Check \/ Sessions \/ Add \/ Receive \/ Write \/ Writeable
     \/ Closed("service") => at["service"] \notin Gone \cup {"poll"}
  <1>1. ASSUME NEW t, ShutdownStep(t)
        PROVE  at[t] \in Gone
    BY <1>1, SectionFacts
       DEF ShutdownStep, Close, Null, DestroyConnection, ClosedByDestroy,
           Destroy, Clear, Remove, Free, FreeOp, Exit, Guarded, Unguarded
  <1>2. Request => at["main"] = "sql"
    BY DEF Request, RunStatement, Guarded
  <1>3. Check \/ Sessions \/ Add => at["service"] \notin Gone \cup {"poll"}
    BY SectionFacts
       DEF Check, Sessions, Add, AddTo, RunStatement, Guarded, Unguarded
  <1>4. Receive => at["service"] \notin Gone \cup {"poll"}
    BY SectionFacts DEF Receive, Get, Use, RunStatement, Guarded, Unguarded
  <1>5. Write \/ Writeable => at["service"] \notin Gone \cup {"poll"}
    BY SectionFacts DEF Write, Writeable, Get, Use, Guarded, Unguarded
  <1>6. Closed("service") => at["service"] \notin Gone \cup {"poll"}
    BY SectionFacts DEF Closed, Find, Delete, Guarded, Unguarded
  <1>7. QED
    BY <1>1, <1>2, <1>3, <1>4, <1>5, <1>6

LEMMA ServingStepSafe ==
  ASSUME OwnerInv, DataTypes, ServeState, ServingStep, most' < InitSlots
  PROVE  ServeState'
  <1> USE SectionFacts DEF ServeState, resources, history
  <1> DEFINE Kept == UNCHANGED <<op, context, db, torn>>
  <1>1. Freed = {} /\ Lost = {} /\ Stale("service") = {}
    BY DEF Freed, Lost, Stale
  <1>2. at \in [Threads -> Sections] /\ "main" \in Threads /\ "service" \in Threads
    BY DEF OwnerInv, Threads
  <1>3. ASSUME NEW s, NEW n, n \notin Gone \cup {"delete"},
               \/ Unguarded("service", s, n)
               \/ Guarded("service", s, n),
               Kept, harm' = {}, pointer'["service"] # "stale"
        PROVE  ServeState'
    BY <1>2, <1>3 DEF Unguarded, Guarded
  <1>4. ASSUME NEW nexts, \A n \in nexts : n \notin Gone \cup {"delete"},
               NEW s, RunStatement("service", s, nexts)
        PROVE  ServeState'
    BY <1>1, <1>3, <1>4 DEF RunStatement
  <1>5. CASE Accept
    BY <1>1, <1>2, <1>5 DEF Accept, Unguarded
  <1>6. CASE Callback
    BY <1>1, <1>3, <1>6 DEF Callback
  <1>7. CASE Request
    BY <1>1, <1>2, <1>7 DEF Request, RunStatement, Guarded
  <1>8. CASE Check
    BY <1>1, <1>3, <1>8 DEF Check
  <1>9. CASE Sessions
    BY <1>4, <1>9 DEF Sessions
  <1>10. CASE Add
    <2>1. clients + 1 < InitSlots
      BY <1>10, ShutdownAssumption DEF Add, AddTo, DataTypes
    <2>2. QED
      BY <1>1, <1>3, <1>10, <2>1 DEF Add, AddTo
  <1>11. ASSUME NEW s, NEW n, n \notin Gone \cup {"delete"}, Get(s, n)
         PROVE  ServeState'
    <2>1. pointer'["service"] # "stale"
      BY <1>2, <1>11 DEF Get, Found, DataTypes
    <2>2. QED
      BY <1>1, <1>3, <1>11, <2>1 DEF Get
  <1>12. ASSUME NEW s, NEW n, n \notin Gone \cup {"delete"}, Use(s, n)
         PROVE  ServeState'
    BY <1>1, <1>3, <1>12 DEF Use
  <1>13. CASE Receive
    BY <1>4, <1>11, <1>12, <1>13 DEF Receive
  <1>14. CASE Write
    BY <1>1, <1>3, <1>14 DEF Write
  <1>15. CASE Writeable
    BY <1>11, <1>12, <1>15 DEF Writeable
  <1>16. CASE Find("service", "poll")
    <2>1. pointer'["service"] # "stale"
      BY <1>2, <1>16 DEF Find, Found, DataTypes
    <2>2. CASE Unguarded("service", "find", "poll")
      BY <1>1, <1>3, <1>16, <2>1, <2>2 DEF Find
    <2>3. CASE clients > 0 /\ Unguarded("service", "find", "delete")
      BY <1>1, <1>2, <1>16, <2>1, <2>3 DEF Find, Unguarded
    <2>4. QED
      BY <1>16, <2>2, <2>3 DEF Find
  <1>17. CASE Delete("service", "poll")
    <2>1. at["service"] = "delete" /\ clients > 0
      BY <1>17 DEF Delete, Guarded
    <2>2. pointer'["service"] = pointer["service"]
      BY <1>2, <1>17 DEF Delete, DeleteClient, Other, DataTypes
    <2>3. clients # 0
      BY <2>1
    <2>4. QED
      BY <1>1, <1>3, <1>17, <2>2, <2>3 DEF Delete
  <1>18. CASE Wake
    BY <1>1, <1>3, <1>18 DEF Wake
  <1>19. QED
    BY <1>5, <1>6, <1>7, <1>8, <1>9, <1>10, <1>13, <1>14, <1>15, <1>16, <1>17,
       <1>18
       DEF ServingStep, Closed

(* The number of shutdowns is not touched, and the highest number of       *)
(* clients only grows.                                                     *)
LEMMA ServingStepDowns ==
  ASSUME DataTypes, ServingStep
  PROVE  downs' = downs /\ (most' < InitSlots => most < InitSlots)
  <1>1. Accept \/ Callback \/ Wake \/ Request \/ Check \/ Sessions \/ Write
        => UNCHANGED <<downs, most>>
    BY DEF Accept, Callback, Wake, Request, Check, Sessions, Write,
           RunStatement, history
  <1>2. Receive \/ Writeable \/ Closed("service")
        => UNCHANGED <<downs, most>>
    BY DEF Receive, Writeable, Closed, Get, Use, Find, Delete, RunStatement,
           history
  <1>3. CASE Add
    BY <1>3, ShutdownAssumption DEF Add, AddTo, DataTypes
  <1>4. QED
    BY <1>1, <1>2, <1>3 DEF ServingStep

LEMMA ShutdownStepDowns ==
  ASSUME NEW t, ShutdownStep(t)
  PROVE  UNCHANGED <<downs, quiet, most>>
  BY DEF ShutdownStep, Close, Null, DestroyConnection, ClosedByDestroy,
         Destroy, Clear, Remove, Free, FreeOp, Exit, history

LEMMA ServeNext == OwnerInv /\ DataTypes /\ ServeInv /\ [Next]_vars => ServeInv'
  <1> SUFFICES ASSUME OwnerInv, DataTypes, ServeInv, [Next]_vars, downs' = 0,
                      most' < InitSlots
               PROVE  ServeState'
    BY DEF ServeInv
  <1>1. ASSUME NEW t, Begin(t)
        PROVE  FALSE
    BY <1>1 DEF Begin, DataTypes
  <1>2. downs = 0 /\ most < InitSlots => ServeState
    BY DEF ServeInv
  <1>3. CASE ServingStep
    BY <1>2, <1>3, ServingStepDowns, ServingStepSafe
  <1>4. ASSUME NEW t \in Threads, ShutdownStep(t)
        PROVE  FALSE
    BY <1>2, <1>4, ShutdownStepDowns, StepSections DEF ServeState, Threads
  <1>5. ASSUME NEW t \in Threads, Lock(t)
        PROVE  ServeState'
    BY <1>2, <1>5 DEF Lock, Freed, ServeState, resources, history
  <1>6. CASE LeaveLoop \/ \E t \in Threads : Interrupt(t)
    BY <1>1, <1>6 DEF LeaveLoop, Interrupt
  <1>7. CASE Crash
    BY <1>2, <1>7 DEF Crash, ServeState, history
  <1>8. CASE UNCHANGED vars
    BY <1>2, <1>8 DEF vars, resources, history, ServeState
  <1>9. QED
    BY <1>3, <1>4, <1>5, <1>6, <1>7, <1>8
       DEF Next, MainStep, ServiceStep, ServingStep, Threads

LEMMA ServeInit == Init => ServeInv
  BY SectionFacts DEF Init, ServeInv, ServeState, Threads

(* Nothing is misused before a shutdown begins, for every size of the      *)
(* first table, as long as there were fewer clients than its slots.        *)
THEOREM ServingSafe == Spec => []ServingIsSafe
  <1>1. Init => DataTypes /\ OwnerInv /\ ServeInv
    BY DataInit, OwnerInit, ServeInit
  <1>2. /\ DataTypes /\ OwnerInv /\ ServeInv
        /\ [Next]_vars
        => (DataTypes /\ OwnerInv /\ ServeInv)'
    BY DataNext, OwnerNext, ServeNext
  <1>3. ServeInv => ServingIsSafe
    BY DEF ServeInv, ServeState, ServingIsSafe
  <1>4. QED
    BY <1>1, <1>2, <1>3, PTL DEF Spec

-----------------------------------------------------------------------------
(* What main_shutdown has done when it is at section s.                    *)
Stage(s) ==
  /\ s = "close" => db = "open"
  /\ s = "null" => db = "closed"
  /\ s \notin {"close", "null"} => db = "null"
  /\ context <=> s \in {"close", "null", "destroy", "closed"}
  /\ s = "closed" => clients > 0
  /\ s = "remove" => clients > 0
  /\ s \in {"free", "free_op", "exit"} => clients = 0
  /\ op <=> s # "exit"

Rest(t) == IF t = "main" THEN "accept" ELSE "poll"

(* Thread t runs main_shutdown, and the other one sleeps outside of all    *)
(* sections.                                                               *)
Alone(t) ==
  /\ harm = {}
  /\ torn = FALSE
  /\ at[t] \in Gone
  /\ at[Other(t)] = Rest(Other(t))
  /\ owner["db_mutex"] = Nobody
  /\ Stage(at[t])
  /\ at[t] = "closed" => pointer[t] = "valid"
  /\ ended => at[t] = "exit"

QuietInv ==
  quiet /\ most < InitSlots =>
    downs \in {0, 1} /\ (downs = 1 => \E t \in Threads : Alone(t))

LEMMA AloneShutdownStep ==
  ASSUME OwnerInv, DataTypes, NEW t \in Threads, Alone(t), ShutdownStep(t)
  PROVE  Alone(t)'
  <1> USE SectionFacts DEF Alone, resources, history
  <1>1. /\ Other(t) \in Threads /\ Other(t) # t
        /\ at \in [Threads -> Sections]
    BY DEF Other, Threads, OwnerInv
  <1>2. at[t] # "exit" => Freed = {}
    BY DEF Stage, Freed
  <1>3. ASSUME NEW s \in Gone \ {"exit"}, NEW n \in Gone,
               \/ Unguarded(t, s, n)
               \/ Guarded(t, s, n),
               UNCHANGED torn, harm' = {}, Stage(n)',
               n = "closed" => pointer'[t] = "valid"
        PROVE  Alone(t)'
    <2>1. at[t] = s /\ at' = [at EXCEPT ![t] = n] /\ ended' = ended
      BY <1>3 DEF Unguarded, Guarded
    <2>2. at'[t] = n /\ at'[Other(t)] = at[Other(t)]
      BY <1>1, <2>1
    <2>3. owner'["db_mutex"] = Nobody
      BY <1>3 DEF Unguarded, Guarded, OwnerInv, Mutexes
    <2>4. ended' = FALSE
      BY <1>3, <2>1 DEF DataTypes
    <2>5. QED
      BY <1>3, <2>2, <2>3, <2>4
  <1>4. CASE Close(t)
    <2>1. at[t] = "close"
      BY <1>4 DEF Close, Unguarded
    <2>2. db = "open"
      BY <2>1 DEF Stage
    <2>3. /\ Unguarded(t, "close", "null") /\ db' = "closed"
          /\ harm' = {} /\ UNCHANGED <<context, op, clients, torn>>
      BY <1>2, <1>4, <2>1, <2>2 DEF Close
    <2>4. Stage("null")'
      BY <2>1, <2>3 DEF Stage
    <2>5. QED
      BY <1>3, <2>3, <2>4
  <1>5. CASE Null(t)
    <2>1. at[t] = "null"
      BY <1>5 DEF Null, Unguarded
    <2>2. Stage("destroy")'
      BY <1>5, <2>1 DEF Stage, Null
    <2>3. QED
      BY <1>2, <1>3, <1>5, <2>1, <2>2 DEF Null
  <1>6. CASE DestroyConnection(t)
    <2>1. at[t] = "destroy"
      BY <1>6 DEF DestroyConnection, Unguarded
    <2>2. Stage("closed")' /\ context
      BY <1>6, <2>1 DEF Stage, DestroyConnection
    <2>3. pointer'[t] = "valid"
      BY <1>6 DEF DestroyConnection, Found, DataTypes
    <2>4. harm' = {}
      BY <1>2, <1>6, <2>1, <2>2 DEF DestroyConnection, Lost
    <2>5. Unguarded(t, "destroy", "closed") /\ UNCHANGED torn
      BY <1>6 DEF DestroyConnection
    <2>6. QED
      BY <1>3, <2>2, <2>3, <2>4, <2>5
  <1>7. CASE ClosedByDestroy(t)
    <2>1. at[t] = "closed"
      BY <1>7 DEF ClosedByDestroy, Guarded
    <2>2. clients # 0 /\ Stale(t) = {}
      BY <2>1 DEF Stage, Stale
    <2>3. Stage("destroy")'
      BY <1>7, <2>1 DEF Stage, ClosedByDestroy
    <2>4. harm' = {}
      BY <1>2, <1>7, <2>1, <2>2 DEF ClosedByDestroy
    <2>5. Guarded(t, "closed", "destroy") /\ UNCHANGED torn
      BY <1>7 DEF ClosedByDestroy
    <2>6. QED
      BY <1>3, <2>3, <2>4, <2>5
  <1>8. CASE Destroy(t)
    <2>1. at[t] = "destroy"
      BY <1>8 DEF Destroy, Unguarded
    <2>2. Stage("clear")' /\ context
      BY <1>8, <2>1 DEF Stage, Destroy
    <2>3. harm' = {}
      BY <1>2, <1>8, <2>1, <2>2 DEF Destroy, Lost
    <2>4. Unguarded(t, "destroy", "clear") /\ UNCHANGED torn
      BY <1>8 DEF Destroy
    <2>5. QED
      BY <1>3, <2>2, <2>3, <2>4
  <1>9. CASE Clear(t)
    <2>1. at[t] = "clear"
      BY <1>9 DEF Clear, Unguarded
    <2>2. harm' = {} /\ UNCHANGED <<db, context, op, clients, torn>>
      BY <1>2, <1>9, <2>1 DEF Clear
    <2>3. CASE clients > 0 /\ Unguarded(t, "clear", "remove")
      <3>1. Stage("remove")'
        BY <2>1, <2>2, <2>3 DEF Stage
      <3>2. QED
        BY <1>3, <2>2, <2>3, <3>1
    <2>4. CASE clients = 0 /\ Unguarded(t, "clear", "free")
      <3>1. Stage("free")'
        BY <2>1, <2>2, <2>4 DEF Stage
      <3>2. QED
        BY <1>3, <2>2, <2>4, <3>1
    <2>5. QED
      BY <1>9, <2>3, <2>4 DEF Clear
  <1>10. CASE Remove(t)
    <2>1. at[t] = "remove"
      BY <1>10 DEF Remove, Guarded
    <2>2. Stage("clear")' /\ clients # 0
      BY <1>10, <2>1 DEF Stage, Remove
    <2>3. QED
      BY <1>2, <1>3, <1>10, <2>1, <2>2 DEF Remove
  <1>11. CASE Free(t)
    <2>1. at[t] = "free"
      BY <1>11 DEF Free, Unguarded
    <2>2. Stage("free_op")'
      BY <1>11, <2>1 DEF Stage, Free
    <2>3. QED
      BY <1>2, <1>3, <1>11, <2>1, <2>2 DEF Free
  <1>12. CASE FreeOp(t)
    <2>1. at[t] = "free_op"
      BY <1>12 DEF FreeOp, Unguarded
    <2>2. Stage("exit")'
      BY <1>12, <2>1 DEF Stage, FreeOp
    <2>3. QED
      BY <1>2, <1>3, <1>12, <2>1, <2>2 DEF FreeOp
  <1>13. CASE Exit(t)
    BY <1>13 DEF Exit, Stage
  <1>14. QED
    BY <1>4, <1>5, <1>6, <1>9, <1>10, <1>11, <1>12, <1>13, <1>7, <1>8
       DEF ShutdownStep

LEMMA AloneNext ==
  ASSUME OwnerInv, DataTypes, quiet', NEW t \in Threads, Alone(t), downs = 1,
         [Next]_vars
  PROVE  Alone(t)' /\ downs' = 1
  <1> USE SectionFacts
  <1>1. CASE UNCHANGED vars
    BY <1>1 DEF vars, resources, history, Alone, Stage
  <1>0. downs # 0
    OBVIOUS
  <1>2. Accept \/ Callback \/ Wake => FALSE
    BY <1>0, Zenon DEF Accept, Callback, Wake
  <1>3. ASSUME NEW u, Begin(u)
        PROVE  FALSE
    BY <1>0, <1>3, Zenon DEF Begin
  <1>4. LeaveLoop \/ (\E u \in Threads : Interrupt(u)) => FALSE
    BY <1>3 DEF LeaveLoop, Interrupt
  <1>5. Crash => FALSE
    BY DEF Crash, Alone
  <1>6. /\ t = "main" => at["service"] = "poll"
        /\ t = "service" => at["main"] = "accept"
        /\ at[t] \in Gone
        /\ t \in {"main", "service"}
    BY DEF Alone, Other, Threads, Rest
  <1>7. /\ at["service"] \in Gone \cup {"poll"}
        /\ at["main"] \in Gone \cup {"accept"}
    BY <1>6
  <1>8. ~ServingStep
    BY <1>2, <1>7, StepSections DEF ServingStep
  <1>9. ASSUME NEW u \in Threads, ShutdownStep(u)
        PROVE  Alone(t)' /\ downs' = 1
    <2>1. at[u] \in Gone
      BY <1>9, StepSections
    <2>2. u = t
      BY <1>6, <2>1 DEF Threads
    <2>3. QED
      BY <1>9, <2>2, AloneShutdownStep, ShutdownStepDowns
  <1>10. ASSUME NEW u \in Threads, Lock(u)
         PROVE  Alone(t)' /\ downs' = 1
    <2>1. MutexOf(at[u]) # "no_mutex"
      BY <1>10 DEF Lock
    <2>2. u = t
      BY <1>6, <2>1 DEF Threads
    <2>3. at[t] \in {"remove", "closed"}
      BY <2>1, <2>2 DEF Alone, Gone, Down
    <2>4. owner'["db_mutex"] = Nobody /\ harm' = {}
      BY <1>10, <2>2, <2>3 DEF Lock, Alone, Stage, Freed, OwnerInv, Mutexes
    <2>5. UNCHANGED <<at, resources, ended, downs>>
      BY <1>10 DEF Lock, history
    <2>6. QED
      BY <2>4, <2>5 DEF Alone, Stage, resources
  <1>11. QED
    BY <1>1, <1>2, <1>4, <1>5, <1>8, <1>9, <1>10
       DEF Next, MainStep, ServiceStep, ServingStep, Threads

LEMMA MostGrows == DataTypes /\ [Next]_vars => most' >= most
  <1> SUFFICES ASSUME DataTypes, [Next]_vars
               PROVE  most' >= most
    OBVIOUS
  <1> USE DEF history
  <1>1. most' = most => most' >= most
    BY DEF DataTypes
  <1>2. CASE Add
    BY <1>2 DEF Add, AddTo, DataTypes
  <1>3. CASE LeaveLoop \/ \E t \in Threads : Interrupt(t)
    BY <1>1, <1>3 DEF LeaveLoop, Interrupt, Begin
  <1>4. CASE Accept \/ Callback \/ Wake
    BY <1>1, <1>4 DEF Accept, Callback, Wake
  <1>5. CASE UNCHANGED vars \/ Crash
    BY <1>1, <1>5 DEF vars, Crash
  <1>6. CASE \E t \in Threads : Lock(t) \/ ShutdownStep(t)
    BY <1>1, <1>6, ShutdownStepDowns DEF Lock
  <1>7. CASE Request \/ Check \/ Sessions \/ Write
    BY <1>1, <1>7 DEF Request, Check, Sessions, Write, RunStatement
  <1>8. CASE Receive \/ Writeable \/ Closed("service")
    BY <1>1, <1>8 DEF Receive, Writeable, Closed, Get, Use, Find, Delete,
                      RunStatement
  <1>9. QED
    BY <1>2, <1>3, <1>4, <1>5, <1>6, <1>7, <1>8
       DEF Next, MainStep, ServiceStep, Threads

LEMMA QuietNext ==
  OwnerInv /\ DataTypes /\ ServeInv /\ QuietInv /\ [Next]_vars => QuietInv'
  <1> SUFFICES ASSUME OwnerInv, DataTypes, ServeInv, QuietInv, [Next]_vars,
                      quiet', most' < InitSlots
               PROVE  /\ downs' \in {0, 1}
                      /\ downs' = 1 => (\E t \in Threads : Alone(t))'
    BY DEF QuietInv
  <1>1. quiet
    <2>1. ASSUME NEW t, Begin(t)
          PROVE  quiet
      BY <2>1 DEF Begin
    <2>2. CASE LeaveLoop \/ \E t \in Threads : Interrupt(t)
      BY <2>1, <2>2 DEF LeaveLoop, Interrupt
    <2>3. CASE Accept \/ Callback \/ Wake
      BY <2>3 DEF Accept, Callback, Wake
    <2>4. CASE UNCHANGED vars \/ Crash
      BY <2>4 DEF vars, history, Crash
    <2>5. CASE \E t \in Threads : Lock(t) \/ ShutdownStep(t)
      BY <2>5, ShutdownStepDowns DEF Lock, history
    <2>6. CASE Request \/ Check \/ Sessions \/ Add \/ Write
      BY <2>6 DEF Request, Check, Sessions, Add, AddTo, Write, RunStatement,
                  history
    <2>7. CASE Receive \/ Writeable \/ Closed("service")
      BY <2>7 DEF Receive, Writeable, Closed, Get, Use, Find, Delete,
                  RunStatement, history
    <2>8. QED
      BY <2>2, <2>3, <2>4, <2>5, <2>6, <2>7
         DEF Next, MainStep, ServiceStep, Threads
  <1>2. most < InitSlots
    BY MostGrows, DataNext, ShutdownAssumption DEF DataTypes
  <1>3. CASE downs = 1
    <2>1. PICK t \in Threads : Alone(t)
      BY <1>1, <1>3, <1>2 DEF QuietInv
    <2>2. Alone(t)' /\ downs' = 1
      BY <1>3, <2>1, AloneNext
    <2>3. QED
      BY <2>2
  <1>4. CASE downs = 0
    <2>1. ServeState
      BY <1>4, <1>2 DEF ServeInv
    <2>2. ASSUME NEW t \in Threads, Begin(t),
                 torn' = (torn \/ at[t] = "slide") \/ torn' = torn
          PROVE  Alone(t)' /\ downs' = 1
      <3>1. /\ at["main"] = "accept" /\ at["service"] = "poll"
            /\ at' = [at EXCEPT ![t] = "close"]
            /\ downs' = downs + 1
            /\ UNCHANGED <<owner, db, context, op, clients, ended, harm>>
        BY <2>2 DEF Begin
      <3>2. at'[t] = "close" /\ at'[Other(t)] = Rest(Other(t))
        BY <3>1 DEF OwnerInv, Other, Rest, Threads
      <3>3. at[t] # "slide" /\ at[t] \notin Sql /\ at[t] \notin Gone
        BY <3>1, SectionFacts DEF Threads, Sql
      <3>4. torn' = FALSE
        BY <2>1, <2>2, <3>3 DEF ServeState
      <3>5. owner["db_mutex"] = Nobody
        BY <3>1, SectionFacts DEF OwnerInv, Threads, Mutexes
      <3>6. QED
        BY <1>4, <2>1, <3>1, <3>2, <3>4, <3>5, SectionFacts
           DEF Alone, Stage, ServeState
    <2>3. CASE LeaveLoop
      BY <2>2, <2>3 DEF LeaveLoop, Threads
    <2>4. ASSUME NEW t \in Threads, Interrupt(t)
          PROVE  Alone(t)' /\ downs' = 1
      BY <2>2, <2>4 DEF Interrupt
    <2>5. CASE ServingStep
      BY <1>4, <2>5, ServingStepDowns
    <2>6. ASSUME downs' = downs
          PROVE  downs' \in {0, 1} /\ downs' # 1
      BY <1>4, <2>6
    <2>7. CASE UNCHANGED vars \/ Crash
      <3>1. downs' = downs
        BY <2>7 DEF vars, history, Crash
      <3>2. QED
        BY <2>6, <3>1
    <2>8. CASE \E t \in Threads : Lock(t) \/ ShutdownStep(t)
      <3>1. downs' = downs
        BY <2>8, ShutdownStepDowns DEF Lock, history
      <3>2. QED
        BY <2>6, <3>1
    <2>9. QED
      BY <2>3, <2>4, <2>5, <2>7, <2>8
         DEF Next, MainStep, ServiceStep, ServingStep, Threads
  <1>5. QED
    BY <1>1, <1>3, <1>4, <1>2 DEF QuietInv

(* A shutdown that meets both threads at rest and stays alone misuses      *)
(* nothing and leaves nothing behind.                                      *)
THEOREM QuietShutdownClean == Spec => []QuietShutdownIsClean
  <1> DEFINE Inv == OwnerInv /\ DataTypes /\ ServeInv /\ QuietInv
  <1>1. Init => Inv
    <2>1. Init => QuietInv
      BY DEF Init, QuietInv
    <2>2. QED
      BY <2>1, OwnerInit, DataInit, ServeInit
  <1>2. Inv /\ [Next]_vars => Inv'
    BY OwnerNext, DataNext, ServeNext, QuietNext
  <1>3. Inv => QuietShutdownIsClean
    BY DEF ServeInv, ServeState, QuietInv, Alone, Stage, QuietShutdownIsClean
  <1>4. QED
    BY <1>1, <1>2, <1>3, PTL DEF Spec
=============================================================================
