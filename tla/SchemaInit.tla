------------------------------ MODULE SchemaInit ------------------------------
(***************************************************************************)
(* chatdb_init() of src/chatdb.c: the tables of the database are created   *)
(* and an older users table is brought up to date, one autocommitted       *)
(* statement at a time.  The process may stop between any two statements,  *)
(* because one fails (main() then exits) or because it is killed, and is   *)
(* started again on the database it left.                                  *)
(*                                                                         *)
(* The users table had a first set of columns; version n of the schema     *)
(* appends one more, which is named n here.                                *)
(***************************************************************************)
EXTENDS Integers, Sequences

CONSTANTS
  Latest,  \* the version this program creates (4)
  MaxStops \* bound of the model: times the process is stopped

ASSUME SchemaInitAssumption ==
  /\ Latest \in Nat \ {0}
  /\ MaxStops \in Nat

VARIABLES
  tables,   \* disk: the tables that exist
  messages, \* disk: whose columns the messages table has
  cols,     \* disk: columns of users behind the first ones, in order
  version,  \* disk: the option schema_version, or NoVersion
  pc,       \* process: the statement it is about to run
  ver,      \* process: schema_ver
  stops,    \* times the process was stopped so far
  stale     \* history: whether the file came with an older users table
            \* and no version

disk == <<tables, messages, cols, version>>
vars == <<disk, pc, ver, stops, stale>>

NoVersion == -1
AllTables == {"messages", "users", "sessions", "options"}
UpTo(n) == [k \in 1 .. n |-> k]

-----------------------------------------------------------------------------
(* No file yet, or the file a release of version v left: as it served, or  *)
(* stopped behind one of its "create table if not exists" and before it    *)
(* wrote its version.  One that was torn within an upgrade looks like one  *)
(* that this release tears.                                                *)
Init ==
  /\ \/ /\ \/ tables = {} /\ messages = "none"
           \/ tables = {"messages"} /\ messages = "messages"
        /\ cols = <<>> /\ version = NoVersion
        /\ stale = FALSE
     \/ /\ tables = AllTables /\ messages = "messages"
        /\ \E v \in 0 .. Latest : cols = UpTo(v) /\ version = v
        /\ stale = FALSE
     \/ /\ tables \in {{"messages", "users"},
                       {"messages", "users", "sessions"}, AllTables}
        /\ messages = "messages"
        /\ stale \in BOOLEAN
        /\ \E v \in 0 .. Latest : cols = UpTo(v) /\ (stale <=> v < Latest)
        /\ version = NoVersion
  /\ pc = "down"
  /\ ver = NoVersion
  /\ stops = 0

(* main() calls chatdb_init(), which opens the file.                       *)
Start ==
  /\ pc = "down"
  /\ pc' = "messages"
  /\ ver' = NoVersion
  /\ UNCHANGED <<disk, stops, stale>>

(* "create table if not exists": built from the field list of users, which *)
(* _chatdb_build_split_fields takes whatever list it is passed.            *)
CreateMessages ==
  /\ pc = "messages"
  /\ tables' = tables \cup {"messages"}
  /\ messages' = IF "messages" \in tables THEN messages ELSE "users"
  /\ pc' = "users"
  /\ UNCHANGED <<cols, version, ver, stops, stale>>

(* Slip: without "if not exists".                                          *)
CreateUsersAnew ==
  /\ pc = "users"
  /\ tables' = tables \cup {"users"}
  /\ cols' = IF "users" \in tables THEN cols ELSE UpTo(Latest)
  /\ pc' = IF "users" \in tables THEN "down" ELSE "sessions"
  /\ UNCHANGED <<messages, version, ver, stops, stale>>

CreateUsers ==
  /\ pc = "users"
  /\ tables' = tables \cup {"users"}
  /\ cols' = IF "users" \in tables THEN cols ELSE UpTo(Latest)
  /\ pc' = "sessions"
  /\ UNCHANGED <<messages, version, ver, stops, stale>>

CreateSessions ==
  /\ pc = "sessions"
  /\ tables' = tables \cup {"sessions"}
  /\ pc' = "options"
  /\ UNCHANGED <<messages, cols, version, ver, stops, stale>>

CreateOptions ==
  /\ pc = "options"
  /\ tables' = tables \cup {"options"}
  /\ pc' = "version"
  /\ UNCHANGED <<messages, cols, version, ver, stops, stale>>

(* chatdb_get_option() and the switch on what it found.                    *)
GetVersion ==
  /\ pc = "version"
  /\ ver' = version
  /\ pc' = IF version = NoVersion THEN "stamp"
           ELSE IF version < Latest THEN "alter"
           ELSE "up"
  /\ UNCHANGED <<disk, stops, stale>>

(* "We must've just created this DB, so it's the latest version!"          *)
StampLatest ==
  /\ pc = "stamp"
  /\ version' = Latest
  /\ ver' = Latest
  /\ pc' = "up"
  /\ UNCHANGED <<tables, messages, cols, stops, stale>>

(* _chatdb_alter_table, first half: SQLite refuses a column that exists.   *)
HasColumn(n) == \E k \in 1 .. Len(cols) : cols[k] = n

AlterTable ==
  /\ pc = "alter"
  /\ ~HasColumn(ver + 1)
  /\ cols' = Append(cols, ver + 1)
  /\ pc' = "set"
  /\ UNCHANGED <<tables, messages, version, ver, stops, stale>>

AlterRefused ==
  /\ pc = "alter"
  /\ HasColumn(ver + 1)
  /\ pc' = "down"
  /\ UNCHANGED <<disk, ver, stops, stale>>

(* Slip: a break after the case, so that only one step is made.            *)
SetVersionAndBreak ==
  /\ pc = "set"
  /\ version' = ver + 1
  /\ ver' = ver + 1
  /\ pc' = "up"
  /\ UNCHANGED <<tables, messages, cols, stops, stale>>

(* Slip: the version of the next step is written.                          *)
SetVersionAhead ==
  /\ pc = "set"
  /\ version' = ver + 2
  /\ ver' = ver + 1
  /\ pc' = IF ver + 1 < Latest THEN "alter" ELSE "up"
  /\ UNCHANGED <<tables, messages, cols, stops, stale>>

(* _chatdb_alter_table, second half, and the fall through to the next case.*)
SetVersion ==
  /\ pc = "set"
  /\ version' = ver + 1
  /\ ver' = ver + 1
  /\ pc' = IF ver + 1 < Latest THEN "alter" ELSE "up"
  /\ UNCHANGED <<tables, messages, cols, stops, stale>>

(* A statement fails for a reason outside the database, or the process is  *)
(* killed, at start or while it serves.                                    *)
Stop ==
  /\ stops < MaxStops
  /\ pc # "down"
  /\ pc' = "down"
  /\ stops' = stops + 1
  /\ UNCHANGED <<disk, ver, stale>>

Statement ==
  \/ CreateMessages \/ CreateUsers \/ CreateSessions \/ CreateOptions
  \/ GetVersion \/ StampLatest \/ AlterTable \/ AlterRefused \/ SetVersion

Next == Start \/ Statement \/ Stop

Spec == Init /\ [][Next]_vars

(* The process runs on, and whoever operates the server starts it again.   *)
FairSpec == Spec /\ WF_vars(Start \/ Statement)

-----------------------------------------------------------------------------
(* Types of the disk and of the process.                                   *)
TypeOK ==
  /\ tables \subseteq AllTables
  /\ messages \in {"none", "messages", "users"}
  /\ cols \in Seq(1 .. Latest)
  /\ version \in {NoVersion} \cup 0 .. Latest
  /\ pc \in {"down", "messages", "users", "sessions", "options", "version",
             "stamp", "alter", "set", "up"}
  /\ ver \in {NoVersion} \cup 0 .. Latest
  /\ stops \in 0 .. MaxStops
  /\ stale \in BOOLEAN

(* Whenever the server serves, every table exists, the version is current, *)
(* and the columns of users are all there in the order in which            *)
(* chatdb_dbcb_users reads the result of "select *" by position, whatever  *)
(* stops and restarts came before.  The one exception are the columns of   *)
(* a file with an older users table and no version: see IsLatestVersion.   *)
UpIsCurrent ==
  pc = "up" => /\ tables = AllTables
               /\ version = Latest
               /\ ~stale => cols = UpTo(Latest)

(* The version on disk is never ahead of the columns and at most one       *)
(* behind: a stop cannot make an upgrade skip a column, nor can a start    *)
(* that finds no version, but for the same files.                          *)
VersionMatchesColumns ==
  /\ \A k \in 1 .. Len(cols) : cols[k] = k
  /\ version # NoVersion /\ ~stale => Len(cols) - version \in {0, 1}

(* A stop fell between the two halves of _chatdb_alter_table.              *)
Torn == version # NoVersion /\ Len(cols) > version

(* A start that nothing stops ends with a server that serves, unless an    *)
(* earlier stop tore an upgrade step apart.                                *)
UntornStartSucceeds ==
  (pc = "down" /\ stops = MaxStops /\ ~Torn) ~> pc = "up"

-----------------------------------------------------------------------------
(* chatdb.c:538 "Bring up to version one.": however often it is stopped    *)
(* half way, an old database is brought up to date in the end.             *)
BringsUpToDate == <>(version = Latest)

(* chatdb.c:526 "We must've just created this DB, so it's the latest       *)
(* version!"                                                               *)
IsLatestVersion == pc = "stamp" => cols = UpTo(Latest)

(* chatdb.c:446 "Create message table if it doesn't exist."                *)
ServesMessages == pc = "up" => messages = "messages"
=============================================================================
