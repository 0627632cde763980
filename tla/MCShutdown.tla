------------------------------ MODULE MCShutdown ------------------------------
(* Small instances for TLC of Shutdown, and of Statement: one section      *)
(* "sql" of the main thread is looked at in detail while the service       *)
(* thread sleeps.                                                          *)
EXTENDS Statement, Shutdown

PrimaryKey == [pk |-> TRUE, u |-> -1, time |-> FALSE]
Bound(n) == [pk |-> FALSE, u |-> n, time |-> FALSE]
Default == Bound(-1)
DefaultTime == [Default EXCEPT !.time = TRUE]

(* CHATDB_USER_TABLE, with join_time between iters and session_timeout.    *)
UserTable ==
  <<PrimaryKey>> \o [n \in 1 .. 6 |-> Bound(n)] \o <<DefaultTime>>
    \o [n \in 1 .. 4 |-> Bound(6 + n)]

(* Tables with fields on which builder and binder disagree among them, and *)
(* with a time that is to be bound.                                        *)
SmallTables ==
  LET bound_time == [Bound(1) EXCEPT !.time = TRUE]
      others == [1 .. 3 -> {Bound(1), Bound(0), Bound(-2), Default,
                            DefaultTime, bound_time}]
  IN {<<PrimaryKey>> \o t : t \in others} \cup {t \o <<PrimaryKey>> : t \in others}

MCLayouts == {UserTable} \cup SmallTables

AtRest == at["main"] = "accept" /\ callbacks = 0 /\ downs = 0

MCNext ==
  \/ layout = UserTable /\ calls = 0 /\ Next /\ UNCHANGED statementVars
  \/ AtRest /\ StatementNext /\ UNCHANGED vars

MCInit == StatementInit /\ Init

MCSpec ==
  /\ MCInit
  /\ [][MCNext]_<<statementVars, vars>>
  /\ WF_vars(MainStep) /\ WF_vars(ServiceStep)
=============================================================================
