------------------------------ MODULE Shutdown ------------------------------
(***************************************************************************)
(* The two threads of the process, the mutexes they share, and             *)
(* main_shutdown, which runs at the end of main() or, as the handler of    *)
(* SIGINT, on top of whatever one of the threads was doing.                *)
(*                                                                         *)
(* A thread is at one of the sections below.  Those that run under         *)
(* db_mutex or clients_mutex lock it in a step of their own; a handler may *)
(* come before, inside or after.  buffer_mutex is only ever taken by the   *)
(* service thread.  What C leaves undefined, a failed assertion included,  *)
(* is recorded in harm, and the process may crash from then on.  No        *)
(* allocation fails, and a callback that is refused before it reaches any  *)
(* of the shared state is left out.  So are the locks of the libraries.    *)
(***************************************************************************)
EXTENDS Integers

CONSTANTS
  InitSlots,    \* slots of the first allocation (10)
  MaxClients,   \* bound of the model: clients
  MaxCallbacks, \* bound of the model: callbacks that libwebsockets makes
  MaxSignals    \* bound of the model: SIGINTs

ASSUME ShutdownAssumption ==
  /\ InitSlots \in Nat /\ InitSlots > 1
  /\ MaxClients \in Nat
  /\ MaxCallbacks \in Nat
  /\ MaxSignals \in Nat

Threads == {"main", "service"}
Nobody == "nobody"

VARIABLES
  at,        \* section each thread is at
  inside,    \* whether it has locked the mutex of that section
  owner,     \* thread that holds each mutex, or Nobody
  db,        \* op->db: open, closed, or null
  context,   \* whether g_lws_ctx is there
  op,        \* whether g_op is there
  clients,   \* clients_sz
  pointer,   \* client or index a thread found: none, valid or stale
  torn,      \* whether a buffer was left half shifted
  callbacks, \* callbacks made
  signals,   \* SIGINTs delivered
  handler,   \* threads that run main_shutdown as a handler
  ended,     \* whether the process is gone
  harm,      \* what went wrong
  most,      \* history: the most clients there were at once
  downs,     \* history: calls of main_shutdown
  quiet,     \* history: whether the one there was met both threads at rest
  caught     \* history: whether a handler met its own thread in the table

resources == <<db, context, op, clients, pointer, torn>>
history == <<most, callbacks, signals, handler, downs, quiet, caught>>
vars == <<at, inside, owner, resources, ended, harm, history>>

Sql == {"sql", "sessions", "users", "insert"}
Table == {"add", "get", "write", "look", "delete", "closed", "remove"}
Unlocked == {"check", "auth", "drain", "slide", "find"}
Down == {"close", "null", "destroy", "clear", "free", "free_op", "exit"}
Sections == {"accept", "poll"} \cup Sql \cup Table \cup Unlocked \cup Down

Mutexes == {"db_mutex", "clients_mutex", "no_mutex"}
MutexOf(section) ==
  IF section \in Sql THEN "db_mutex"
  ELSE IF section \in Table THEN "clients_mutex"
  ELSE "no_mutex"

Other(t) == IF t = "main" THEN "service" ELSE "main"

Freed == IF op THEN {} ELSE {"op"}
Lost == IF context THEN {} ELSE {"context"}
Harms == {"op", "database", "context", "client", "table", "assertion"}

-----------------------------------------------------------------------------
Init ==
  /\ at = [t \in Threads |-> IF t = "main" THEN "accept" ELSE "poll"]
  /\ inside = [t \in Threads |-> FALSE]
  /\ owner = [m \in Mutexes |-> Nobody]
  /\ db = "open"
  /\ context = TRUE
  /\ op = TRUE
  /\ clients = 0
  /\ pointer = [t \in Threads |-> "none"]
  /\ torn = FALSE
  /\ callbacks = 0
  /\ signals = 0
  /\ handler = {}
  /\ ended = FALSE
  /\ harm = {}
  /\ most = 0
  /\ downs = 0
  /\ quiet = TRUE
  /\ caught = FALSE

(* A step of t that needs no mutex.                                        *)
Unguarded(t, section, next) ==
  /\ ~ended
  /\ at[t] = section
  /\ at' = [at EXCEPT ![t] = next]
  /\ UNCHANGED <<inside, owner, ended>>

(* Slip: the statements unlock clients_mutex.                              *)
GuardedUnlocksOther(t, section, next) ==
  /\ ~ended
  /\ at[t] = section
  /\ inside[t]
  /\ at' = [at EXCEPT ![t] = next]
  /\ inside' = [inside EXCEPT ![t] = FALSE]
  /\ owner' = [owner EXCEPT !["clients_mutex"] = Nobody]
  /\ UNCHANGED ended

(* The body of a section, and the unlock.                                  *)
Guarded(t, section, next) ==
  /\ ~ended
  /\ at[t] = section
  /\ inside[t]
  /\ at' = [at EXCEPT ![t] = next]
  /\ inside' = [inside EXCEPT ![t] = FALSE]
  /\ owner' = [owner EXCEPT ![MutexOf(section)] = Nobody]
  /\ UNCHANGED ended

(* pthread_mutex_lock.                                                     *)
Lock(t) ==
  LET m == MutexOf(at[t]) IN
  /\ ~ended
  /\ m # "no_mutex"
  /\ ~inside[t]
  /\ owner[m] = Nobody
  /\ owner' = [owner EXCEPT ![m] = t]
  /\ inside' = [inside EXCEPT ![t] = TRUE]
  /\ harm' = harm \cup Freed
  /\ UNCHANGED <<at, resources, ended, history>>

-----------------------------------------------------------------------------
Found(t) == pointer' = [pointer EXCEPT ![t] = "valid"]

Stale(t) == IF pointer[t] = "stale" THEN {"client"} ELSE {}

(* CLOSED: main_lws_client_delete looks for the index without a lock.      *)
Find(t, next) ==
  /\ \/ Unguarded(t, "find", next) /\ UNCHANGED pointer
     \/ clients > 0 /\ Unguarded(t, "find", "delete") /\ Found(t)
  /\ harm' = harm \cup Freed
  /\ UNCHANGED <<db, context, op, clients, torn, history>>

(* rtproto_client_delete: what the other thread found is not there any     *)
(* more; with no client left, clients_sz - 1 wraps around.                 *)
DeleteClient(t) ==
  /\ clients' = IF clients > 0 THEN clients - 1 ELSE 0
  /\ pointer' = [pointer EXCEPT
       ![Other(t)] = IF @ = "valid" THEN "stale" ELSE @]

Delete(t, next) ==
  /\ Guarded(t, "delete", next)
  /\ DeleteClient(t)
  /\ harm' = harm \cup Freed \cup Stale(t)
             \cup IF clients = 0 THEN {"client"} ELSE {}
  /\ UNCHANGED <<db, context, op, torn, history>>

Closed(t) ==
  \/ Find(t, IF t = "main" THEN "accept" ELSE "poll")
  \/ Delete(t, IF t = "main" THEN "accept" ELSE "poll")

-----------------------------------------------------------------------------
(* main(): FCGX_Accept_r, and the statements of cchat_handle_req.          *)
RunStatement(t, section, nexts) ==
  /\ \E next \in nexts : Guarded(t, section, next)
  /\ harm' = harm \cup Freed \cup IF db = "closed" THEN {"database"} ELSE {}
  /\ UNCHANGED <<resources, history>>

Accept ==
  /\ Unguarded("main", "accept", "sql")
  /\ harm' = harm \cup Freed
  /\ quiet' = (quiet /\ downs = 0)
  /\ UNCHANGED <<resources, most, callbacks, signals, handler, downs, caught>>

(* Slip: a logout also closes the websocket of the session.                *)
RequestClosesSocket ==
  RunStatement("main", "sql", {"find", "accept"}) \/ Closed("main")

Request == RunStatement("main", "sql", {"sql", "accept"})

-----------------------------------------------------------------------------
(* lws_service makes a callback; its event loop is in the context.         *)
Callback ==
  /\ callbacks < MaxCallbacks
  /\ \E section \in {"check", "get", "look", "find"} :
       /\ section = "check" => clients < MaxClients
       /\ Unguarded("service", "poll", section)
  /\ callbacks' = callbacks + 1
  /\ harm' = harm \cup Freed \cup Lost
  /\ quiet' = (quiet /\ downs = 0)
  /\ UNCHANGED <<resources, most, signals, handler, downs, caught>>

(* It returns, or is called again, without one.                            *)
Wake ==
  /\ Unguarded("service", "poll", "poll")
  /\ harm' = harm \cup Lost
  /\ quiet' = (quiet /\ downs = 0)
  /\ UNCHANGED <<resources, most, callbacks, signals, handler, downs, caught>>

(* FILTER_PROTOCOL_CONNECTION: chatdb_iter_sessions asserts that there is  *)
(* a database before it locks; main_lws_client_add.                        *)
Check ==
  /\ Unguarded("service", "check", "sessions")
  /\ harm' = harm \cup Freed \cup IF db = "null" THEN {"assertion"} ELSE {}
  /\ UNCHANGED <<resources, history>>

Sessions == RunStatement("service", "sessions", {"add"})

AddTo(slots) ==
  /\ Guarded("service", "add", "poll")
  /\ clients' = clients + 1
  /\ most' = IF most < clients + 1 THEN clients + 1 ELSE most
  /\ harm' = harm \cup Freed \cup IF clients + 1 < slots THEN {} ELSE {"table"}
  /\ UNCHANGED <<db, context, op, pointer, torn, callbacks, signals, handler,
                 downs, quiet, caught>>

(* Slip: the table grows one client early.                                 *)
AddGrowsEarly == AddTo(InitSlots - 1)

(* rtproto_client_add: the table that grows is cut down to a few bytes.    *)
Add == AddTo(InitSlots)

(* main_lws_client_get, for RECEIVE and for SERVER_WRITEABLE: the client   *)
(* is used after the unlock.                                               *)
Get(section, next) ==
  /\ \/ Guarded("service", section, "poll") /\ UNCHANGED pointer
     \/ clients > 0 /\ Guarded("service", section, next) /\ Found("service")
  /\ harm' = harm \cup Freed
  /\ UNCHANGED <<db, context, op, clients, torn, history>>

Use(section, next) ==
  /\ Unguarded("service", section, next)
  /\ harm' = harm \cup Freed \cup Stale("service")
  /\ UNCHANGED <<resources, history>>

Receive ==
  \/ Get("get", "auth")
  \/ Use("auth", "users")
  \/ Use("auth", "poll")
  \/ RunStatement("service", "users", {"write", "poll"})
  \/ RunStatement("service", "insert", {"poll"})

(* Slip: clients_mutex is not unlocked.                                    *)
WriteKeepsMutex ==
  /\ ~ended
  /\ at["service"] = "write"
  /\ inside["service"]
  /\ at' = [at EXCEPT !["service"] = "insert"]
  /\ inside' = [inside EXCEPT !["service"] = FALSE]
  /\ harm' = harm \cup Freed
  /\ UNCHANGED <<owner, resources, ended, history>>

(* rtproto_client_write_all: lws_callback_on_writable for every client.    *)
Write ==
  /\ Guarded("service", "write", "insert")
  /\ harm' = harm \cup Freed
             \cup IF clients > 0 /\ ~context THEN {"context"} ELSE {}
  /\ UNCHANGED <<resources, history>>

(* A line is written and destroyed, then the others slide down.            *)
Writeable ==
  \/ Get("look", "drain")
  \/ Use("drain", "slide")
  \/ Use("slide", "drain")
  \/ Use("drain", "poll")

-----------------------------------------------------------------------------
(* main_shutdown begins on thread t, which never goes back to what it did. *)
Begin(t) ==
  /\ ~ended
  /\ at' = [at EXCEPT ![t] = "close"]
  /\ inside' = [inside EXCEPT ![t] = FALSE]
  /\ downs' = downs + 1
  /\ quiet' = (quiet /\ downs = 0 /\ at["main"] = "accept"
                     /\ at["service"] = "poll")
  /\ UNCHANGED <<owner, db, context, op, clients, pointer, callbacks, ended,
                 harm, most>>

(* main() leaves its loop: FCGX_Accept_r failed, or a request returned     *)
(* RETVAL_ALLOC.                                                           *)
LeaveLoop ==
  /\ at["main"] = "accept"
  /\ Begin("main")
  /\ UNCHANGED <<torn, signals, handler, caught>>

(* SIGINT, on either thread; it is blocked while its handler runs.         *)
Interrupt(t) ==
  /\ signals < MaxSignals
  /\ t \notin handler
  /\ Begin(t)
  /\ signals' = signals + 1
  /\ handler' = handler \cup {t}
  /\ torn' = (torn \/ at[t] = "slide")
  /\ caught' = (caught \/ owner["clients_mutex"] = t)

(* Slip: chatdb_close waits until nobody uses the database.                *)
CloseInTurn(t) ==
  /\ owner["db_mutex"] = Nobody
  /\ Unguarded(t, "close", IF db = "null" THEN "destroy" ELSE "null")
  /\ db' = IF db = "null" THEN "null" ELSE "closed"
  /\ harm' = harm \cup Freed \cup IF db = "closed" THEN {"database"} ELSE {}
  /\ UNCHANGED <<context, op, clients, pointer, torn, history>>

(* chatdb_close takes no mutex.                                            *)
Close(t) ==
  \/ /\ db = "null"
     /\ Unguarded(t, "close", "destroy")
     /\ harm' = harm \cup Freed
     /\ UNCHANGED <<resources, history>>
  \/ /\ db # "null"
     /\ Unguarded(t, "close", "null")
     /\ db' = "closed"
     /\ harm' = harm \cup Freed
                \cup IF db = "closed" \/ owner["db_mutex"] # Nobody
                     THEN {"database"} ELSE {}
     /\ UNCHANGED <<context, op, clients, pointer, torn, history>>

Null(t) ==
  /\ Unguarded(t, "null", "destroy")
  /\ db' = "null"
  /\ harm' = harm \cup Freed
  /\ UNCHANGED <<context, op, clients, pointer, torn, history>>

(* lws_context_destroy makes the CLOSED callback of each connection on the *)
(* thread that calls it: the index is looked for without a lock, ...       *)
DestroyConnection(t) ==
  /\ clients > 0
  /\ Unguarded(t, "destroy", "closed")
  /\ Found(t)
  /\ harm' = harm \cup Freed \cup Lost
  /\ UNCHANGED <<db, context, op, clients, torn, history>>

(* ... and the client removed.                                             *)
ClosedByDestroy(t) ==
  /\ Guarded(t, "closed", "destroy")
  /\ DeleteClient(t)
  /\ harm' = harm \cup Freed \cup Stale(t)
             \cup IF torn \/ clients = 0 THEN {"client"} ELSE {}
  /\ UNCHANGED <<db, context, op, torn, history>>

(* A client that was added and never connected is still there.             *)
Destroy(t) ==
  /\ Unguarded(t, "destroy", "clear")
  /\ context' = FALSE
  /\ harm' = harm \cup Freed \cup Lost
  /\ UNCHANGED <<db, op, clients, pointer, torn, history>>

(* Slip: a client is removed before the loop looks whether there is one.   *)
ClearUnasked(t) ==
  /\ \/ Unguarded(t, "clear", "remove")
     \/ clients = 0 /\ Unguarded(t, "clear", "free")
  /\ harm' = harm \cup Freed
  /\ UNCHANGED <<resources, history>>

(* The test of the loop comes before the lock.                             *)
Clear(t) ==
  /\ \/ clients > 0 /\ Unguarded(t, "clear", "remove")
     \/ clients = 0 /\ Unguarded(t, "clear", "free")
  /\ harm' = harm \cup Freed
  /\ UNCHANGED <<resources, history>>

Remove(t) ==
  /\ Guarded(t, "remove", "clear")
  /\ DeleteClient(t)
  /\ harm' = harm \cup Freed
             \cup IF torn \/ clients = 0 THEN {"client"} ELSE {}
  /\ UNCHANGED <<db, context, op, torn, history>>

Free(t) ==
  /\ Unguarded(t, "free", "free_op")
  /\ pointer' = [pointer EXCEPT
       ![Other(t)] = IF @ = "valid" THEN "stale" ELSE @]
  /\ harm' = harm \cup Freed
  /\ UNCHANGED <<db, context, op, clients, torn, history>>

FreeOp(t) ==
  /\ Unguarded(t, "free_op", "exit")
  /\ op' = FALSE
  /\ harm' = harm \cup Freed
  /\ UNCHANGED <<db, context, clients, pointer, torn, history>>

Exit(t) ==
  /\ ~ended
  /\ at[t] = "exit"
  /\ ended' = TRUE
  /\ UNCHANGED <<at, inside, owner, resources, harm, history>>

Crash ==
  /\ ~ended
  /\ harm # {}
  /\ ended' = TRUE
  /\ UNCHANGED <<at, inside, owner, resources, harm, history>>

-----------------------------------------------------------------------------
ShutdownStep(t) ==
  \/ Close(t) \/ Null(t)
  \/ DestroyConnection(t) \/ ClosedByDestroy(t) \/ Destroy(t)
  \/ Clear(t) \/ Remove(t) \/ Free(t) \/ FreeOp(t) \/ Exit(t)

MainStep == Lock("main") \/ Request \/ ShutdownStep("main")

ServiceStep ==
  \/ Lock("service")
  \/ Check \/ Sessions \/ Add
  \/ Receive \/ Write \/ Writeable \/ Closed("service")
  \/ ShutdownStep("service")

Next ==
  \/ Accept \/ LeaveLoop \/ Callback \/ Wake
  \/ MainStep \/ ServiceStep
  \/ \E t \in Threads : Interrupt(t)
  \/ Crash

(* Each thread goes on as long as it can.  Nothing makes a request, a      *)
(* callback, a signal or a crash happen.                                   *)
Spec == Init /\ [][Next]_vars /\ WF_vars(MainStep) /\ WF_vars(ServiceStep)

-----------------------------------------------------------------------------
(* Types, and who holds what: inside a section its mutex is held.          *)
TypeOK ==
  /\ at \in [Threads -> Sections]
  /\ inside \in [Threads -> BOOLEAN]
  /\ owner \in [Mutexes -> Threads \cup {Nobody}]
  /\ db \in {"open", "closed", "null"}
  /\ context \in BOOLEAN
  /\ op \in BOOLEAN
  /\ clients \in Nat
  /\ pointer \in [Threads -> {"none", "valid", "stale"}]
  /\ torn \in BOOLEAN
  /\ callbacks \in 0 .. MaxCallbacks
  /\ signals \in 0 .. MaxSignals
  /\ handler \subseteq Threads
  /\ ended \in BOOLEAN
  /\ harm \subseteq Harms
  /\ most \in Nat
  /\ downs \in Nat
  /\ quiet \in BOOLEAN
  /\ caught \in BOOLEAN
  /\ \A t \in Threads : inside[t] => owner[MutexOf(at[t])] = t

(* Nothing is misused before a shutdown begins, as long as there were      *)
(* fewer clients than the table had slots at first: callbacks of the       *)
(* service thread go on using clients and indices that they found under a  *)
(* mutex they gave back, but only the service thread removes a client.     *)
ServingIsSafe == downs = 0 /\ most < InitSlots => harm = {}

(* A shutdown that meets both threads at rest, none of which wakes before  *)
(* the process ends, misuses nothing and leaves nothing behind: neither    *)
(* the CLOSED callbacks of lws_context_destroy nor the loop behind them    *)
(* remove a client twice or wait for themselves.                           *)
QuietShutdownIsClean ==
  quiet /\ most < InitSlots =>
    /\ harm = {}
    /\ ended => db = "null" /\ ~context /\ clients = 0 /\ ~op

(* The threads never wait for each other, wherever a handler caught them:  *)
(* the database is not asked for anything while the clients are locked.    *)
Waits(t) == ~inside[t] /\ MutexOf(at[t]) # "no_mutex"
WaitsFor(t, u) == Waits(t) /\ owner[MutexOf(at[t])] = u

NoCircularWait ==
  ~(WaitsFor("main", "service") /\ WaitsFor("service", "main"))

(* A shutdown ends the process: db_mutex may stay locked for ever, but     *)
(* main_shutdown does not take it.  Not so if a handler caught a thread    *)
(* while it held clients_mutex, which main_shutdown does take, or if two   *)
(* threads removed the same client, after which the loop may not end.      *)
ShutdownEnds == downs > 0 ~> ended \/ caught \/ "client" \in harm
=============================================================================
