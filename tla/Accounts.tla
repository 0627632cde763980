------------------------------- MODULE Accounts -------------------------------
(***************************************************************************)
(* Accounts and sessions: the requests of src/cchat.c on the tables users  *)
(* and sessions, against browsers whose cookie and open form may be older  *)
(* than the rows they refer to.                                            *)
(*                                                                         *)
(* A request is one action: the main thread answers one after the other,   *)
(* each writes at most one row, and the service thread only reads          *)
(* sessions, in one statement (OpenSocket).  A request that is refused,    *)
(* or fails in the database, changes nothing and is a stutter.             *)
(*                                                                         *)
(* A session hash is random: it is the number of the login that drew it.   *)
(***************************************************************************)
EXTENDS Integers, Sequences

CONSTANTS
  Browsers,
  Hosts,     \* addresses a browser may come from
  Names,     \* user names without a forbidden character
  Passwords, \* passwords that are not empty
  NoHost,    \* the address of a websocket request without X-Forwarded-For
  NoPassword,\* the password field left empty
  MaxUsers,  \* bound of the model: rows of users
  MaxLogins  \* bound of the model: sessions ever opened

ASSUME AccountsAssumption ==
  /\ NoHost \notin Hosts
  /\ NoPassword \notin Passwords
  /\ MaxUsers \in Nat
  /\ MaxLogins \in Nat

VARIABLES
  users,    \* table users; the id of a row is its position
  sessions, \* table sessions
  logins,   \* history: who logged in as whom, one entry for every hash
  gone,     \* history: the hashes a browser logged out
  jar,      \* session cookie of each browser, or NoHash
  host,     \* the address each browser comes from
  form,     \* the form each browser has open, or NoForm
  sock,     \* user of each browser's websocket; NoUser without a session
  status    \* "up", or what stopped the server

tables == <<users, sessions, logins, gone>>
vars == <<tables, jar, host, form, sock, status>>

NoHash == 0
NoUser == -1
NoSock == 0
NoForm == [page |-> "none", user |-> 0, csrf |-> NoHash]

Ids == 1 .. Len(users)
Hashes == 1 .. Len(logins)

-----------------------------------------------------------------------------
(* Slip: the hash is left out of the query.                                *)
SessionsOfAddress(hash, remote_host) ==
  {s \in sessions : s.remote_host = remote_host}

(* chatdb_iter_sessions(): the rows with this hash and this address.       *)
SessionsOf(hash, remote_host) ==
  {s \in sessions : s.hash = hash /\ s.remote_host = remote_host}

(* The user the callback leaves behind, 0 if it was not called.            *)
SessionUser(hash, remote_host) ==
  IF SessionsOf(hash, remote_host) = {} THEN 0
  ELSE (CHOOSE s \in SessionsOf(hash, remote_host) : TRUE).user_id

(* cchat_handle_req: op->auth_user of a request, 0 standing for NULL.      *)
AuthUser(b) == SessionUser(jar[b], host[b])

(* The unique constraint on user_name, for a row that is to become id.     *)
NameFree(name, id) == \A i \in Ids : users[i].name = name => i = id

-----------------------------------------------------------------------------
(* An earlier release may have left accounts; their time_fmt was filled in *)
(* when the column was added.                                              *)
Init ==
  /\ \/ users = <<>>
     \/ /\ MaxUsers > 0
        /\ \E name \in Names, password \in Passwords :
             users = <<[name |-> name, password |-> password,
                        time_fmt |-> TRUE]>>
  /\ sessions = {}
  /\ logins = <<>>
  /\ gone = {}
  /\ jar = [b \in Browsers |-> NoHash]
  /\ host \in [Browsers -> Hosts]
  /\ form = [b \in Browsers |-> NoForm]
  /\ sock = [b \in Browsers |-> NoSock]
  /\ status = "up"

(* GET /profile: the form of the user's own row with the session as CSRF   *)
(* token, or the empty form of a new account.                              *)
Profile(b) ==
  /\ status = "up"
  /\ form' = [form EXCEPT ![b] =
                [page |-> "profile", user |-> AuthUser(b),
                 csrf |-> IF AuthUser(b) = 0 THEN NoHash ELSE jar[b]]]
  /\ UNCHANGED <<tables, jar, host, sock, status>>

(* POST /user without a session: an insert.  The insert names time_fmt,    *)
(* binds NULL to it and so bypasses the default of the column.             *)
AddUser(b, name, password) ==
  /\ status = "up"
  /\ form[b].page = "profile"
  /\ AuthUser(b) = 0
  /\ Len(users) < MaxUsers
  /\ NameFree(name, 0)
  /\ users' = Append(users, [name |-> name, password |-> password,
                             time_fmt |-> FALSE])
  /\ UNCHANGED <<sessions, logins, gone, jar, host, form, sock, status>>

(* Slip: the token is not compared with the session.                       *)
EditUserWithoutToken(b, name, password) ==
  /\ status = "up"
  /\ form[b].page = "profile"
  /\ AuthUser(b) # 0
  /\ NameFree(name, AuthUser(b))
  /\ users' = [users EXCEPT
                 ![AuthUser(b)].name = name,
                 ![AuthUser(b)].password =
                    IF password = NoPassword THEN @ ELSE password]
  /\ UNCHANGED <<sessions, logins, gone, jar, host, form, sock, status>>

(* POST /user with a session: an update of the session's user, when the    *)
(* token of the form is the session.  An empty password keeps the old one. *)
EditUser(b, name, password) ==
  /\ status = "up"
  /\ form[b].page = "profile"
  /\ AuthUser(b) # 0
  /\ form[b].csrf = jar[b]
  /\ NameFree(name, AuthUser(b))
  /\ users' = [users EXCEPT
                 ![AuthUser(b)].name = name,
                 ![AuthUser(b)].password =
                    IF password = NoPassword THEN @ ELSE password]
  /\ UNCHANGED <<sessions, logins, gone, jar, host, form, sock, status>>

(* Slip: an unknown name, for which user_id stays -1, is not refused.      *)
AuthUnknownName(b, name, password) ==
  /\ status = "up"
  /\ Len(logins) < MaxLogins
  /\ \E i \in Ids \cup {NoUser} :
       /\ i = NoUser => \A k \in Ids : users[k].name # name
       /\ i # NoUser => users[i].name = name /\ users[i].password = password
       /\ logins' = Append(logins, [browser |-> b, user_id |-> i])
       /\ sessions' = sessions \cup
            {[hash |-> Len(logins) + 1, user_id |-> i,
              remote_host |-> host[b]]}
       /\ jar' = [jar EXCEPT ![b] = Len(logins) + 1]
  /\ UNCHANGED <<users, gone, host, form, sock, status>>

(* POST /auth: the row with this name, if its password is right, gets one  *)
(* more session.  The reply with the cookie may not reach the browser.     *)
Auth(b, name, password) ==
  /\ status = "up"
  /\ Len(logins) < MaxLogins
  /\ \E i \in Ids, reply \in BOOLEAN :
       /\ users[i].name = name
       /\ users[i].password = password
       /\ logins' = Append(logins, [browser |-> b, user_id |-> i])
       /\ sessions' = sessions \cup
            {[hash |-> Len(logins) + 1, user_id |-> i,
              remote_host |-> host[b]]}
       /\ jar' = IF reply THEN [jar EXCEPT ![b] = Len(logins) + 1] ELSE jar
  /\ UNCHANGED <<users, gone, host, form, sock, status>>

(* Slip: only a session of the address the request comes from is removed.  *)
LogoutFromHere(b) ==
  /\ status = "up"
  /\ jar[b] # NoHash
  /\ sessions' = sessions \ SessionsOf(jar[b], host[b])
  /\ gone' = gone \cup {jar[b]}
  /\ UNCHANGED <<users, logins, jar, host, form, sock, status>>

(* GET /logout: the session is removed whatever address it belongs to.     *)
(* The cookie stays in the browser.                                        *)
Logout(b) ==
  /\ status = "up"
  /\ jar[b] # NoHash
  /\ sessions' = {s \in sessions : s.hash # jar[b]}
  /\ gone' = gone \cup {jar[b]}
  /\ UNCHANGED <<users, logins, jar, host, form, sock, status>>

(* GET /chat with a session, when it shows the form to send with.          *)
ChatForm(b) ==
  /\ status = "up"
  /\ AuthUser(b) # 0
  /\ form' = [form EXCEPT ![b] = [page |-> "chat", user |-> AuthUser(b),
                                  csrf |-> jar[b]]]
  /\ UNCHANGED <<tables, jar, host, sock, status>>

(* The process ends, and the websockets with it.                           *)
StopWith(reason) ==
  /\ status' = reason
  /\ sock' = [b \in Browsers |-> NoSock]
  /\ UNCHANGED <<tables, jar, host, form>>

(* A file that is new in this release cannot store messages (SchemaInit);  *)
(* one that an earlier release left has an account with a time_fmt first.  *)
MayHaveMessages == users # <<>> /\ users[1].time_fmt

(* GET /chat with a session, when there is a message to show: its time is  *)
(* formatted with the time_fmt of the reader, and webutil_format_time      *)
(* asserts that there is one.                                              *)
ChatHistory(b) ==
  /\ status = "up"
  /\ MayHaveMessages
  /\ AuthUser(b) # 0
  /\ ~users[AuthUser(b)].time_fmt
  /\ StopWith("no time_fmt")

(* POST /send from the chat page.  A user with a session gets an error;    *)
(* one without goes on: no cookie is reported as RETVAL_ALLOC, on which    *)
(* main() gives up, and a cookie that still equals the token leads to      *)
(* op->auth_user, which is NULL.                                           *)
Send(b) ==
  /\ status = "up"
  /\ form[b].page = "chat"
  /\ AuthUser(b) = 0
  /\ \/ jar[b] = NoHash /\ StopWith("no cookie")
     \/ jar[b] # NoHash /\ form[b].csrf = jar[b] /\ StopWith("no auth_user")

(* LWS_CALLBACK_FILTER_PROTOCOL_CONNECTION on the service thread: the same *)
(* lookup, with the address the proxy forwards, if it forwards one.        *)
OpenSocket(b) ==
  /\ status = "up"
  /\ jar[b] # NoHash
  /\ \E remote_host \in {host[b], NoHost} :
       LET u == SessionUser(jar[b], remote_host)
       IN  sock' = [sock EXCEPT ![b] = IF u = 0 THEN NoUser ELSE u]
  /\ UNCHANGED <<tables, jar, host, form, status>>

CloseSocket(b) ==
  /\ sock[b] # NoSock
  /\ sock' = [sock EXCEPT ![b] = NoSock]
  /\ UNCHANGED <<tables, jar, host, form, status>>

(* The browser: Max-Age of the cookie passes; its address changes.         *)
CookieExpires(b) ==
  /\ jar[b] # NoHash
  /\ jar' = [jar EXCEPT ![b] = NoHash]
  /\ UNCHANGED <<tables, host, form, sock, status>>

Move(b) ==
  /\ \E h \in Hosts : h # host[b] /\ host' = [host EXCEPT ![b] = h]
  /\ UNCHANGED <<tables, jar, form, sock, status>>

(* The service manager starts the server again on the same file.           *)
Restart ==
  /\ status # "up"
  /\ status' = "up"
  /\ UNCHANGED <<tables, jar, host, form, sock>>

Request(b) ==
  \/ Profile(b) \/ ChatForm(b) \/ ChatHistory(b) \/ Send(b) \/ Logout(b)
  \/ \E name \in Names, password \in Passwords :
       AddUser(b, name, password) \/ Auth(b, name, password)
  \/ \E name \in Names, password \in Passwords \cup {NoPassword} :
       EditUser(b, name, password)

Next ==
  \/ \E b \in Browsers :
       \/ Request(b) \/ OpenSocket(b) \/ CloseSocket(b)
       \/ CookieExpires(b) \/ Move(b)
  \/ Restart

Spec == Init /\ [][Next]_vars

-----------------------------------------------------------------------------
(* Types of the tables and of the browsers.                                *)
Forms == [page : {"none", "profile", "chat"}, user : 0 .. MaxUsers,
          csrf : 0 .. MaxLogins]

TypeOK ==
  /\ users \in Seq([name : Names, password : Passwords, time_fmt : BOOLEAN])
  /\ Len(users) <= MaxUsers
  /\ sessions \subseteq [hash : Hashes, user_id : Ids, remote_host : Hosts]
  /\ logins \in Seq([browser : Browsers, user_id : Ids])
  /\ Len(logins) <= MaxLogins
  /\ gone \subseteq Hashes
  /\ jar \in [Browsers -> {NoHash} \cup Hashes]
  /\ host \in [Browsers -> Hosts]
  /\ form \in [Browsers -> Forms]
  /\ sock \in [Browsers -> {NoUser, NoSock} \cup Ids]
  /\ status \in {"up", "no cookie", "no auth_user", "no time_fmt"}

(* A browser is only ever taken for a user it logged in as: by a request,  *)
(* whatever cookie it kept, and by a websocket, however long it is open.   *)
LoggedInAs(b, u) ==
  \E h \in Hashes : logins[h] = [browser |-> b, user_id |-> u]

ActsOnlyAsItself ==
  \A b \in Browsers :
    /\ AuthUser(b) # 0 => LoggedInAs(b, AuthUser(b))
    /\ sock[b] \in Ids => LoggedInAs(b, sock[b])

(* Once it is logged out a session never authenticates again, also from    *)
(* another address and after a restart.                                    *)
LogoutIsFinal == \A s \in sessions : s.hash \notin gone

(* The row of a user changes only through a form that was opened for this  *)
(* very user in a session of the browser that submits it, however often    *)
(* the browser logged in as somebody else since.                           *)
ThroughOwnForm(u) ==
  \E b \in Browsers :
    /\ form[b].page = "profile"
    /\ form[b].user = u
    /\ LoggedInAs(b, u)

EditsOwnRow ==
  [][\A u \in Ids : users'[u] # users[u] => ThroughOwnForm(u)]_vars

-----------------------------------------------------------------------------
(* cchat.c:677 "See if a valid session exists": a /send without one is     *)
(* turned away, it does not end the server.                                *)
SendHasSession == status \notin {"no cookie", "no auth_user"}
=============================================================================
