------------------------------ MODULE Statement ------------------------------
(***************************************************************************)
(* chatdb_add_user: the text of an update or insert is built from a table  *)
(* of fields by one loop (_chatdb_build_update, _chatdb_build_insert) and  *)
(* its question marks are bound by another (CHATDB_TABLE_PREPARE_IDX),     *)
(* which choose their fields by different tests.  Meanwhile the thread     *)
(* holds db_mutex and has a prepared statement open.                       *)
(*                                                                         *)
(* A column is the number of its field in the table, and so is a value.    *)
(* A call that is refused before the lock changes nothing.                 *)
(***************************************************************************)
EXTENDS Integers, Sequences

CONSTANTS
  Layouts,  \* field tables: CHATDB_USER_TABLE is one
  MaxCalls  \* bound of the model: calls of chatdb_add_user

(* A field of a table: whether its type says "primary key", its bind index *)
(* u, and whether it is a time_t, for which there is no bind yet.          *)
Field == [pk : BOOLEAN, u : Int, time : BOOLEAN]

ASSUME StatementAssumption ==
  /\ MaxCalls \in Nat
  /\ Layouts \subseteq Seq(Field)
  /\ \A t \in Layouts :
       /\ \E i \in 1 .. Len(t) : t[i].pk
       /\ \A i, j \in 1 .. Len(t) : t[i].pk /\ t[j].pk => i = j

VARIABLES
  layout,  \* the table
  calls,
  pc,      \* idle, build, bind, key or step
  kind,    \* update or insert
  i,       \* the field the loop is at
  columns, \* the columns with a question mark, in the order of the text
  key,     \* the column of the where clause, 0 before it is seen
  bound,   \* the values bound so far
  mutex,   \* db_mutex: free or held
  open,    \* statements prepared and not finalized
  misbound \* history: calls that failed to bind

statementVars ==
  <<layout, calls, pc, kind, i, columns, key, bound, mutex, open, misbound>>

Indices == 1 .. Len(layout)

(* _chatdb_build_* look for "primary key" and for "*-1$" ...               *)
InText(f) == ~f.pk /\ f.u # -1

(* ... and CHATDB_TABLE_PREPARE_IDX compares: if( 0 < u ).                 *)
IsBound(f) == 0 < f.u

(* The question marks of the text.                                         *)
Marks == IF kind = "update" THEN Append(columns, key) ELSE columns

Return == pc' = "idle" /\ mutex' = "free"

-----------------------------------------------------------------------------
StatementInit ==
  /\ layout \in Layouts
  /\ calls = 0
  /\ pc = "idle"
  /\ kind = "insert"
  /\ i = 1
  /\ columns = <<>>
  /\ key = 0
  /\ bound = <<>>
  /\ mutex = "free"
  /\ open = 0
  /\ misbound = 0

(* An update if the user has an id.                                        *)
AddUser ==
  /\ pc = "idle"
  /\ mutex = "free"
  /\ calls < MaxCalls
  /\ calls' = calls + 1
  /\ kind' \in {"update", "insert"}
  /\ pc' = "build"
  /\ mutex' = "held"
  /\ i' = 1
  /\ columns' = <<>>
  /\ key' = 0
  /\ bound' = <<>>
  /\ UNCHANGED <<layout, open, misbound>>

(* Slip: fields that are not inserted are not skipped.                     *)
BuildEveryField ==
  /\ pc = "build"
  /\ i \in Indices
  /\ columns' = IF layout[i].pk THEN columns ELSE Append(columns, i)
  /\ key' = IF layout[i].pk THEN i ELSE key
  /\ i' = i + 1
  /\ UNCHANGED <<layout, calls, pc, kind, bound, mutex, open, misbound>>

BuildField ==
  /\ pc = "build"
  /\ i \in Indices
  /\ columns' = IF InText(layout[i]) THEN Append(columns, i) ELSE columns
  /\ key' = IF layout[i].pk THEN i ELSE key
  /\ i' = i + 1
  /\ UNCHANGED <<layout, calls, pc, kind, bound, mutex, open, misbound>>

(* sqlite3_prepare_v2, with both outcomes.                                 *)
Prepare ==
  /\ pc = "build"
  /\ i \notin Indices
  /\ \/ pc' = "bind" /\ i' = 1 /\ open' = open + 1 /\ UNCHANGED mutex
     \/ Return /\ UNCHANGED <<i, open>>
  /\ UNCHANGED <<layout, calls, kind, columns, key, bound, misbound>>

(* CHATDB_TABLE_PREPARE: sqlite3_bind_* take a parameter number up to the  *)
(* number of question marks, and may fail for other reasons; after an      *)
(* error the statement is not finalized.                                   *)
BindOrFail(field, next) ==
  \/ /\ Len(bound) < Len(Marks)
     /\ ~layout[field].time
     /\ bound' = Append(bound, field)
     /\ pc' = next
     /\ UNCHANGED <<mutex, misbound>>
  \/ /\ Return
     /\ misbound' = misbound + 1
     /\ UNCHANGED bound

BindField ==
  /\ pc = "bind"
  /\ i \in Indices
  /\ IF IsBound(layout[i]) THEN BindOrFail(i, "bind")
     ELSE UNCHANGED <<pc, bound, mutex, misbound>>
  /\ i' = i + 1
  /\ UNCHANGED <<layout, calls, kind, columns, key, open>>

BindEnd ==
  /\ pc = "bind"
  /\ i \notin Indices
  /\ pc' = IF kind = "update" THEN "key" ELSE "step"
  /\ UNCHANGED <<layout, calls, kind, i, columns, key, bound, mutex, open,
                 misbound>>

(* CHATDB_TABLE_PREPARE_PK goes over the table once more.                  *)
BindKey ==
  /\ pc = "key"
  /\ \E k \in Indices : layout[k].pk /\ BindOrFail(k, "step")
  /\ UNCHANGED <<layout, calls, kind, i, columns, key, open>>

(* Slip: the statement is finalized once more in the common cleanup.       *)
StepFinalizesTwice ==
  /\ pc = "step"
  /\ open' = open - 2
  /\ Return
  /\ UNCHANGED <<layout, calls, kind, i, columns, key, bound, misbound>>

(* Slip: a step that fails returns as a failed bind does.                  *)
StepLeaks ==
  /\ pc = "step"
  /\ open' \in {open - 1, open}
  /\ Return
  /\ UNCHANGED <<layout, calls, kind, i, columns, key, bound, misbound>>

(* sqlite3_step and sqlite3_finalize, on success as on failure.            *)
Step ==
  /\ pc = "step"
  /\ open' = open - 1
  /\ Return
  /\ UNCHANGED <<layout, calls, kind, i, columns, key, bound, misbound>>

StatementNext ==
  AddUser \/ BuildField \/ Prepare \/ BindField \/ BindEnd \/ BindKey \/ Step

StatementSpec == StatementInit /\ [][StatementNext]_statementVars

-----------------------------------------------------------------------------
(* Types of the variables.                                                 *)
StatementTypeOK ==
  /\ layout \in Layouts
  /\ calls \in 0 .. MaxCalls
  /\ pc \in {"idle", "build", "bind", "key", "step"}
  /\ kind \in {"update", "insert"}
  /\ i \in 1 .. Len(layout) + 1
  /\ columns \in Seq(Indices)
  /\ key \in 0 .. Len(layout)
  /\ bound \in Seq(Indices)
  /\ mutex \in {"free", "held"}
  /\ open \in Nat
  /\ misbound \in Nat

(* The tables of chatdb.h mark what is not inserted with -1, the key among *)
(* it.  The comment there allows every negative number; on another than -1 *)
(* and on 0 the two tests disagree.                                        *)
WellMarked(table) ==
  \A f \in 1 .. Len(table) :
    IF table[f].pk THEN table[f].u = -1
    ELSE table[f].u = -1 \/ table[f].u > 0

(* When the statement is run, every question mark has the value of its own *)
(* column, the key last: in a table that is marked so, the builders of the *)
(* text and the binder agree on the fields and on their order.  No field   *)
(* with a bind index is left out, and no other field but the key of an     *)
(* update is touched.                                                      *)
EveryMarkItsOwnValue ==
  pc = "step" /\ WellMarked(layout) =>
    /\ bound = Marks
    /\ {columns[k] : k \in 1 .. Len(columns)} =
         {f \in Indices : layout[f].u > 0}
    /\ kind = "update" => layout[key].pk

(* db_mutex is free between two calls whichever way the last one ended,    *)
(* and the only statements left open are those of calls that failed to     *)
(* bind: one each, and never finalized.                                    *)
OnlyFailedBindsLeak ==
  /\ mutex = "held" <=> pc # "idle"
  /\ open = misbound + IF pc \in {"bind", "key", "step"} THEN 1 ELSE 0
=============================================================================
