---------------------------- MODULE AccountsProofs ----------------------------
(***************************************************************************)
(* Proofs about Accounts, for any browsers, addresses, names and           *)
(* passwords, and any number of accounts and sessions.                     *)
(***************************************************************************)
EXTENDS Accounts, TLAPS

(* A session belongs to the user who logged in with its hash, and it is    *)
(* not logged out.                                                         *)
SessionsAreLogins ==
  \A s \in sessions : logins[s.hash].user_id = s.user_id /\ s.hash \notin gone

(* The cookie of a browser came from a login of that browser.              *)
CookiesAreOwn ==
  \A b \in Browsers : jar[b] # NoHash => logins[jar[b]].browser = b

SocketsAreLogins ==
  \A b \in Browsers : sock[b] \in Ids => LoggedInAs(b, sock[b])

(* The token of a profile form names the login of the user it was opened   *)
(* for, by this browser.                                                   *)
TokensNameUsers ==
  \A b \in Browsers :
    form[b].page = "profile" /\ form[b].csrf # NoHash =>
      /\ form[b].csrf \in Hashes
      /\ logins[form[b].csrf] = [browser |-> b, user_id |-> form[b].user]

AccountsInv ==
  /\ TypeOK /\ SessionsAreLogins /\ CookiesAreOwn
  /\ SocketsAreLogins /\ TokensNameUsers

-----------------------------------------------------------------------------
LEMMA SeqFacts ==
  ASSUME NEW S, NEW seq \in Seq(S)
  PROVE  Len(seq) \in Nat /\ \A i \in 1 .. Len(seq) : seq[i] \in S
OBVIOUS

LEMMA SeqOfMore ==
  ASSUME NEW S, NEW T, S \subseteq T, NEW seq \in Seq(S)
  PROVE  seq \in Seq(T)
OBVIOUS

LEMMA SeqFromFunction ==
  ASSUME NEW S, NEW n \in Nat, NEW seq, seq = [i \in 1 .. n |-> seq[i]],
         \A i \in 1 .. n : seq[i] \in S
  PROVE  seq \in Seq(S) /\ Len(seq) = n
OBVIOUS

LEMMA AppendFacts ==
  ASSUME NEW S, NEW seq \in Seq(S), NEW e \in S
  PROVE  /\ Append(seq, e) \in Seq(S)
         /\ Len(Append(seq, e)) = Len(seq) + 1
         /\ Append(seq, e)[Len(seq) + 1] = e
         /\ \A i \in 1 .. Len(seq) : Append(seq, e)[i] = seq[i]
OBVIOUS

LEMMA HashFacts ==
  ASSUME TypeOK
  PROVE  /\ Len(users) \in Nat /\ Len(logins) \in Nat
         /\ 0 \notin Ids /\ NoHash \notin Hashes
         /\ Ids \subseteq 1 .. MaxUsers /\ Hashes \subseteq 1 .. MaxLogins
         /\ \A h \in Hashes :
              logins[h] \in [browser : Browsers, user_id : Ids]
         /\ \A i \in Ids :
              users[i] \in [name : Names, password : Passwords,
                           time_fmt : BOOLEAN]
<1>1. Len(users) \in Nat /\ Len(logins) \in Nat
  BY SeqFacts DEF TypeOK
<1>2. \A h \in Hashes : logins[h] \in [browser : Browsers, user_id : Ids]
  BY SeqFacts DEF TypeOK, Hashes
<1>3. \A i \in Ids :
        users[i] \in [name : Names, password : Passwords, time_fmt : BOOLEAN]
  BY SeqFacts DEF TypeOK, Ids
<1>4. 0 \notin Ids /\ NoHash \notin Hashes
  BY <1>1 DEF Ids, Hashes, NoHash
<1>5. Len(users) <= MaxUsers /\ Len(logins) <= MaxLogins
  BY DEF TypeOK
<1>6. Ids \subseteq 1 .. MaxUsers /\ Hashes \subseteq 1 .. MaxLogins
  BY <1>1, <1>5, AccountsAssumption DEF Ids, Hashes, AccountsAssumption
<1> QED
  BY <1>1, <1>2, <1>3, <1>4, <1>6

(* The session lookup of a request or of a websocket finds the user who    *)
(* logged in with the hash, if it finds a row.                             *)
LEMMA LookupFindsLogin ==
  ASSUME TypeOK, SessionsAreLogins, NEW hash, NEW address,
         SessionUser(hash, address) # 0
  PROVE  /\ SessionUser(hash, address) \in Ids
         /\ hash \in Hashes /\ hash # NoHash
         /\ SessionUser(hash, address) = logins[hash].user_id
<1>1. PICK s \in SessionsOf(hash, address) :
        s.user_id = SessionUser(hash, address)
  BY DEF SessionUser
<1>2. s \in sessions /\ s.hash = hash
  BY <1>1 DEF SessionsOf
<1>3. s.user_id \in Ids /\ s.hash \in Hashes
  BY <1>2 DEF TypeOK
<1>4. hash # NoHash
  BY <1>2, <1>3, HashFacts
<1> QED
  BY <1>1, <1>2, <1>3, <1>4 DEF SessionsAreLogins

(* A browser that is taken for a user holds the cookie of its own login as *)
(* that user.                                                              *)
LEMMA AuthUserIsLogin ==
  ASSUME AccountsInv, NEW b \in Browsers, AuthUser(b) # 0
  PROVE  /\ AuthUser(b) \in Ids
         /\ jar[b] \in Hashes /\ jar[b] # NoHash
         /\ logins[jar[b]] = [browser |-> b, user_id |-> AuthUser(b)]
<1>2. /\ AuthUser(b) \in Ids
      /\ jar[b] \in Hashes /\ jar[b] # NoHash
      /\ AuthUser(b) = logins[jar[b]].user_id
  BY LookupFindsLogin DEF AuthUser, AccountsInv
<1>3. logins[jar[b]] \in [browser : Browsers, user_id : Ids]
  BY <1>2, HashFacts DEF AccountsInv
<1>4. logins[jar[b]].browser = b
  BY <1>2 DEF AccountsInv, CookiesAreOwn
<1> QED
  BY <1>2, <1>3, <1>4

LEMMA AuthUserType ==
  ASSUME AccountsInv, NEW b \in Browsers
  PROVE  AuthUser(b) \in {0} \cup Ids
<1> CASE AuthUser(b) = 0
  OBVIOUS
<1> CASE AuthUser(b) # 0
  BY AuthUserIsLogin
<1> QED
  OBVIOUS

LEMMA AccountsInitially == Init => AccountsInv
<1> USE AccountsAssumption DEF AccountsAssumption
<1> SUFFICES ASSUME Init PROVE AccountsInv
  OBVIOUS
<1>1. users \in Seq([name : Names, password : Passwords, time_fmt : BOOLEAN])
      /\ Len(users) <= MaxUsers
  <2>1. CASE users = <<>>
    BY <2>1
  <2>2. CASE /\ MaxUsers > 0
             /\ \E name \in Names, password \in Passwords :
                  users = <<[name |-> name, password |-> password,
                             time_fmt |-> TRUE]>>
    BY <2>2
  <2> QED
    BY <2>1, <2>2 DEF Init
<1>2. TypeOK
  BY <1>1 DEF Init, TypeOK, Hashes, Ids, Forms, NoForm, NoHash, NoUser, NoSock
<1>3. SessionsAreLogins /\ CookiesAreOwn
  BY DEF Init, SessionsAreLogins, CookiesAreOwn
<1>4. SocketsAreLogins
  BY <1>2 DEF Init, SocketsAreLogins, Ids, NoSock, TypeOK
<1>5. TokensNameUsers
  BY DEF Init, TokensNameUsers, NoForm
<1> QED
  BY <1>2, <1>3, <1>4, <1>5 DEF AccountsInv

-----------------------------------------------------------------------------
(* Opening a form.                                                         *)
LEMMA OpeningAForm ==
  ASSUME AccountsInv, NEW b \in Browsers, NEW page \in {"profile", "chat"},
         NEW csrf \in {NoHash, jar[b]},
         csrf = NoHash \/ AuthUser(b) # 0,
         form' = [form EXCEPT ![b] = [page |-> page, user |-> AuthUser(b),
                                      csrf |-> csrf]],
         UNCHANGED <<tables, jar, host, sock, status>>
  PROVE  AccountsInv'
<1> USE AccountsAssumption DEF AccountsAssumption
<1> DEFINE f == [page |-> page, user |-> AuthUser(b), csrf |-> csrf]
<1>1. AuthUser(b) \in 0 .. MaxUsers
  BY AuthUserType, HashFacts DEF AccountsInv
<1>2. csrf \in 0 .. MaxLogins
  <2>1. jar[b] \in {NoHash} \cup Hashes
    BY DEF AccountsInv, TypeOK
  <2> QED
    BY <2>1, HashFacts DEF AccountsInv, NoHash
<1>3. f \in Forms
  BY <1>1, <1>2 DEF Forms
<1>4. form \in [Browsers -> Forms]
  BY DEF AccountsInv, TypeOK
<1>5. form' \in [Browsers -> Forms]
  BY <1>3, <1>4
<1>6. TypeOK'
  BY <1>5 DEF AccountsInv, TypeOK, tables, Ids, Hashes
<1>7. SessionsAreLogins' /\ CookiesAreOwn' /\ SocketsAreLogins'
  BY DEF AccountsInv, SessionsAreLogins, CookiesAreOwn, SocketsAreLogins,
         LoggedInAs, tables, Ids, Hashes
<1>8. TokensNameUsers'
  <2> SUFFICES ASSUME NEW c \in Browsers, form'[c].page = "profile",
                      form'[c].csrf # NoHash
               PROVE  /\ form'[c].csrf \in Hashes
                      /\ logins[form'[c].csrf] =
                           [browser |-> c, user_id |-> form'[c].user]
    BY DEF TokensNameUsers, tables, Hashes
  <2>1. CASE c = b
    <3>1. form'[c] = f
      BY <1>4, <2>1
    <3>2. csrf = jar[b] /\ AuthUser(b) # 0
      BY <3>1
    <3> QED
      BY <2>1, <3>1, <3>2, AuthUserIsLogin
  <2>2. CASE c # b
    BY <1>4, <2>2 DEF AccountsInv, TokensNameUsers
  <2> QED
    BY <2>1, <2>2
<1> QED
  BY <1>6, <1>7, <1>8 DEF AccountsInv

LEMMA ProfileStep ==
  ASSUME AccountsInv, NEW b \in Browsers, Profile(b)
  PROVE  AccountsInv'
<1> DEFINE csrf == IF AuthUser(b) = 0 THEN NoHash ELSE jar[b]
<1>1. csrf \in {NoHash, jar[b]} /\ (csrf = NoHash \/ AuthUser(b) # 0)
  OBVIOUS
<1>2. /\ form' = [form EXCEPT ![b] = [page |-> "profile",
                                      user |-> AuthUser(b), csrf |-> csrf]]
      /\ UNCHANGED <<tables, jar, host, sock, status>>
  BY DEF Profile
<1> HIDE DEF csrf
<1> QED
  BY <1>1, <1>2, OpeningAForm

LEMMA ChatFormStep ==
  ASSUME AccountsInv, NEW b \in Browsers, ChatForm(b)
  PROVE  AccountsInv'
BY OpeningAForm DEF ChatForm

(* Changing the rows of users without removing one.                        *)
LEMMA ChangingUsers ==
  ASSUME AccountsInv,
         users' \in Seq([name : Names, password : Passwords,
                         time_fmt : BOOLEAN]),
         Len(users') \in Len(users) .. MaxUsers,
         UNCHANGED <<sessions, logins, gone, jar, host, form, sock, status>>
  PROVE  AccountsInv'
<1>1. Ids \subseteq Ids' /\ Hashes' = Hashes
  BY HashFacts DEF AccountsInv, Ids, Hashes
<1>2. TypeOK'
  <2>1. sessions' \subseteq [hash : Hashes', user_id : Ids',
                             remote_host : Hosts]
    BY <1>1 DEF AccountsInv, TypeOK
  <2>2. logins' \in Seq([browser : Browsers, user_id : Ids'])
    <3>1. [browser : Browsers, user_id : Ids]
            \subseteq [browser : Browsers, user_id : Ids']
      BY <1>1
    <3>2. logins \in Seq([browser : Browsers, user_id : Ids])
      BY DEF AccountsInv, TypeOK
    <3> QED
      BY <3>1, <3>2, SeqOfMore
  <2>3. sock' \in [Browsers -> {NoUser, NoSock} \cup Ids']
    BY <1>1 DEF AccountsInv, TypeOK
  <2>4. Len(users') <= MaxUsers
    BY AccountsAssumption, HashFacts DEF AccountsAssumption, AccountsInv
  <2> QED
    BY <1>1, <2>1, <2>2, <2>3, <2>4 DEF AccountsInv, TypeOK
<1>3. SessionsAreLogins' /\ CookiesAreOwn' /\ TokensNameUsers'
  BY <1>1 DEF AccountsInv, SessionsAreLogins, CookiesAreOwn, TokensNameUsers
<1>4. SocketsAreLogins'
  <2> SUFFICES ASSUME NEW b \in Browsers, sock[b] \in Ids'
               PROVE  LoggedInAs(b, sock[b])
    BY <1>1 DEF SocketsAreLogins, LoggedInAs
  <2>1. sock[b] \in {NoUser, NoSock} \cup Ids
    BY DEF AccountsInv, TypeOK
  <2>2. sock[b] # NoUser /\ sock[b] # NoSock
    BY <1>2, HashFacts DEF Ids, NoUser, NoSock
  <2> QED
    BY <2>1, <2>2 DEF AccountsInv, SocketsAreLogins
<1> QED
  BY <1>2, <1>3, <1>4 DEF AccountsInv

LEMMA AddUserStep ==
  ASSUME AccountsInv, NEW b \in Browsers,
         NEW name \in Names, NEW password \in Passwords,
         AddUser(b, name, password)
  PROVE  AccountsInv'
<1> DEFINE Users == [name : Names, password : Passwords, time_fmt : BOOLEAN]
           row == [name |-> name, password |-> password, time_fmt |-> FALSE]
<1>1. users \in Seq(Users) /\ row \in Users
  BY DEF AccountsInv, TypeOK
<1>2. users' = Append(users, row) /\ Len(users) < MaxUsers
  BY DEF AddUser
<1> HIDE DEF Users, row
<1>3. users' \in Seq(Users) /\ Len(users') = Len(users) + 1
  BY <1>1, <1>2
<1>4. Len(users') \in Len(users) .. MaxUsers
  BY <1>2, <1>3, HashFacts, AccountsAssumption
     DEF AccountsInv, AccountsAssumption
<1>5. UNCHANGED <<sessions, logins, gone, jar, host, form, sock, status>>
  BY DEF AddUser
<1> USE DEF Users
<1> QED
  BY <1>3, <1>4, <1>5, ChangingUsers

LEMMA EditUserStep ==
  ASSUME AccountsInv, NEW b \in Browsers,
         NEW name \in Names, NEW password \in Passwords \cup {NoPassword},
         EditUser(b, name, password)
  PROVE  AccountsInv'
<1> DEFINE Users == [name : Names, password : Passwords, time_fmt : BOOLEAN]
           old == users[AuthUser(b)]
           row == [old EXCEPT !.name = name,
                     !.password = IF password = NoPassword THEN @ ELSE password]
<1>1. AuthUser(b) \in Ids
  BY AuthUserIsLogin DEF EditUser
<1>2. old \in Users /\ users \in Seq(Users)
  BY <1>1, HashFacts DEF AccountsInv, TypeOK
<1>3. row \in Users
  BY <1>2
<1>4. users' = [i \in Ids |-> IF i = AuthUser(b) THEN row ELSE users[i]]
  <2> DEFINE one == [users EXCEPT ![AuthUser(b)].name = name]
             same == [users EXCEPT ![AuthUser(b)] = row]
  <2>1. DOMAIN users = Ids /\ users = [i \in Ids |-> users[i]]
    BY <1>2 DEF Ids
  <2>2. users' = [one EXCEPT ![AuthUser(b)].password =
                    IF password = NoPassword THEN @ ELSE password]
    BY DEF EditUser
  <2>3. one = [i \in Ids |-> IF i = AuthUser(b)
                              THEN [old EXCEPT !.name = name] ELSE users[i]]
    BY <1>1, <2>1
  <2> HIDE DEF one
  <2> QED
    BY <1>1, <2>2, <2>3
<1> HIDE DEF Users, row, old
<1>5. users' \in Seq(Users) /\ Len(users') = Len(users)
  <2>1. Len(users) \in Nat /\ \A i \in 1 .. Len(users) : users[i] \in Users
    BY <1>2, SeqFacts
  <2>2. users' = [i \in 1 .. Len(users) |-> users'[i]]
    BY <1>4 DEF Ids
  <2>3. \A i \in 1 .. Len(users) : users'[i] \in Users
    BY <1>3, <1>4, <2>1 DEF Ids
  <2> QED
    BY <2>1, <2>2, <2>3, SeqFromFunction
<1>6. Len(users') \in Len(users) .. MaxUsers
  <2>1. Len(users) \in Nat /\ Len(users) <= MaxUsers
    BY HashFacts DEF AccountsInv, TypeOK
  <2> QED
    BY ONLY <1>5, <2>1, AccountsAssumption DEF AccountsAssumption
<1>7. UNCHANGED <<sessions, logins, gone, jar, host, form, sock, status>>
  BY DEF EditUser
<1> USE DEF Users
<1> QED
  BY <1>5, <1>6, <1>7, ChangingUsers

(* A login draws a hash nobody holds yet.                                  *)
LEMMA AuthStep ==
  ASSUME AccountsInv, NEW b \in Browsers,
         NEW name \in Names, NEW password \in Passwords,
         Auth(b, name, password)
  PROVE  AccountsInv'
<1> DEFINE n == Len(logins) + 1
           Logins == [browser : Browsers, user_id : Ids]
<1>1. PICK i \in Ids :
        /\ logins' = Append(logins, [browser |-> b, user_id |-> i])
        /\ sessions' = sessions \cup
             {[hash |-> n, user_id |-> i, remote_host |-> host[b]]}
        /\ jar' = [jar EXCEPT ![b] = n] \/ jar' = jar
  BY DEF Auth
<1>2. UNCHANGED <<users, gone, host, form, sock, status>>
  BY DEF Auth
<1>3. Ids' = Ids
  BY <1>2 DEF Ids
<1>4. /\ logins' \in Seq(Logins) /\ Len(logins') = n /\ n <= MaxLogins
      /\ logins'[n] = [browser |-> b, user_id |-> i]
      /\ \A h \in Hashes : logins'[h] = logins[h]
  <2>1. logins \in Seq(Logins) /\ [browser |-> b, user_id |-> i] \in Logins
    BY <1>1 DEF AccountsInv, TypeOK
  <2>2. Len(logins) < MaxLogins
    BY DEF Auth
  <2>3. n <= MaxLogins
    BY <2>2, HashFacts, AccountsAssumption DEF AccountsInv, AccountsAssumption
  <2> DEFINE e == [browser |-> b, user_id |-> i]
  <2>4. logins' = Append(logins, e) /\ e \in Logins
    BY <1>1, <2>1
  <2> HIDE DEF Logins, e
  <2>5. /\ Append(logins, e) \in Seq(Logins) /\ Len(Append(logins, e)) = n
        /\ Append(logins, e)[n] = e
        /\ \A h \in Hashes : Append(logins, e)[h] = logins[h]
    BY <2>1, <2>4, AppendFacts DEF Hashes
  <2> QED
    BY <2>3, <2>4, <2>5 DEF e
<1>5. Hashes' = Hashes \cup {n} /\ n \notin Hashes /\ n # NoHash
  BY <1>4, HashFacts DEF Hashes, NoHash, AccountsInv
<1> HIDE DEF n
<1>6. TypeOK'
  <2>1. sessions' \subseteq [hash : Hashes', user_id : Ids',
                             remote_host : Hosts]
    <3>1. sessions \subseteq [hash : Hashes', user_id : Ids,
                              remote_host : Hosts]
      BY <1>5 DEF AccountsInv, TypeOK
    <3>2. host[b] \in Hosts /\ n \in Hashes'
      BY <1>5 DEF AccountsInv, TypeOK
    <3> QED
      BY <1>1, <1>3, <3>1, <3>2
  <2>2. jar' \in [Browsers -> {NoHash} \cup Hashes']
    BY <1>1, <1>5 DEF AccountsInv, TypeOK
  <2>3. gone' \subseteq Hashes'
    BY <1>2, <1>5 DEF AccountsInv, TypeOK
  <2>4. logins' \in Seq([browser : Browsers, user_id : Ids'])
        /\ Len(logins') <= MaxLogins
    BY <1>3, <1>4
  <2> QED
    BY <1>2, <1>3, <2>1, <2>2, <2>3, <2>4 DEF AccountsInv, TypeOK
<1>7. SessionsAreLogins'
  <2> SUFFICES ASSUME NEW s \in sessions'
               PROVE  logins'[s.hash].user_id = s.user_id
                      /\ s.hash \notin gone
    BY <1>2 DEF SessionsAreLogins
  <2>1. CASE s \in sessions
    <3>1. s.hash \in Hashes
      BY <2>1 DEF AccountsInv, TypeOK
    <3> QED
      BY <1>4, <2>1, <3>1 DEF AccountsInv, SessionsAreLogins
  <2>2. CASE s = [hash |-> n, user_id |-> i, remote_host |-> host[b]]
    <3>1. s.hash = n /\ s.user_id = i
      BY <2>2
    <3>2. gone \subseteq Hashes
      BY DEF AccountsInv, TypeOK
    <3> QED
      BY <1>4, <1>5, <3>1, <3>2
  <2> QED
    BY <1>1, <2>1, <2>2
<1>8. CookiesAreOwn'
  <2> SUFFICES ASSUME NEW c \in Browsers, jar'[c] # NoHash
               PROVE  logins'[jar'[c]].browser = c
    BY DEF CookiesAreOwn
  <2>1. jar \in [Browsers -> {NoHash} \cup Hashes]
    BY DEF AccountsInv, TypeOK
  <2>2. CASE jar'[c] = jar[c]
    <3>1. jar[c] \in Hashes
      BY <2>1, <2>2
    <3> QED
      BY <1>4, <2>2, <3>1 DEF AccountsInv, CookiesAreOwn
  <2>3. CASE c = b /\ jar'[c] = n
    BY <1>4, <2>3
  <2> QED
    BY <1>1, <2>1, <2>2, <2>3
<1>9. SocketsAreLogins'
  BY <1>2, <1>3, <1>4, <1>5
     DEF AccountsInv, SocketsAreLogins, LoggedInAs
<1>10. TokensNameUsers'
  BY <1>2, <1>4, <1>5 DEF AccountsInv, TokensNameUsers
<1> QED
  BY <1>6, <1>7, <1>8, <1>9, <1>10 DEF AccountsInv

LEMMA LogoutStep ==
  ASSUME AccountsInv, NEW b \in Browsers, Logout(b)
  PROVE  AccountsInv'
<1>1. /\ sessions' = {s \in sessions : s.hash # jar[b]}
      /\ gone' = gone \cup {jar[b]} /\ jar[b] # NoHash
      /\ UNCHANGED <<users, logins, jar, host, form, sock, status>>
  BY DEF Logout
<1>2. jar[b] \in Hashes
  BY <1>1 DEF AccountsInv, TypeOK
<1>3. TypeOK'
  BY <1>1, <1>2 DEF AccountsInv, TypeOK, Ids, Hashes
<1>4. SessionsAreLogins'
  BY <1>1 DEF AccountsInv, SessionsAreLogins
<1>5. CookiesAreOwn' /\ SocketsAreLogins' /\ TokensNameUsers'
  BY <1>1 DEF AccountsInv, CookiesAreOwn, SocketsAreLogins, TokensNameUsers,
              LoggedInAs, Ids, Hashes
<1> QED
  BY <1>3, <1>4, <1>5 DEF AccountsInv

LEMMA StopStep ==
  ASSUME AccountsInv,
         NEW reason \in {"no cookie", "no auth_user", "no time_fmt"},
         StopWith(reason)
  PROVE  AccountsInv'
<1>1. /\ status' = reason /\ sock' = [b \in Browsers |-> NoSock]
      /\ UNCHANGED <<users, sessions, logins, gone, jar, host, form>>
  BY DEF StopWith, tables
<1>2. TypeOK'
  BY <1>1 DEF AccountsInv, TypeOK, Ids, Hashes
<1>3. SessionsAreLogins' /\ CookiesAreOwn' /\ TokensNameUsers'
  BY <1>1 DEF AccountsInv, SessionsAreLogins, CookiesAreOwn, TokensNameUsers,
              Hashes
<1>4. SocketsAreLogins'
  BY <1>1, HashFacts DEF AccountsInv, SocketsAreLogins, NoSock, Ids
<1> QED
  BY <1>2, <1>3, <1>4 DEF AccountsInv

LEMMA OpenSocketStep ==
  ASSUME AccountsInv, NEW b \in Browsers, OpenSocket(b)
  PROVE  AccountsInv'
<1>1. PICK address :
        sock' = [sock EXCEPT ![b] =
                   IF SessionUser(jar[b], address) = 0 THEN NoUser
                   ELSE SessionUser(jar[b], address)]
  BY DEF OpenSocket
<1> DEFINE u == SessionUser(jar[b], address)
<1>2. /\ jar[b] # NoHash
      /\ UNCHANGED <<users, sessions, logins, gone, jar, host, form, status>>
  BY DEF OpenSocket, tables
<1>3. u # 0 => u \in Ids /\ LoggedInAs(b, u)
  <2> SUFFICES ASSUME u # 0 PROVE u \in Ids /\ LoggedInAs(b, u)
    OBVIOUS
  <2>1. u \in Ids /\ jar[b] \in Hashes /\ u = logins[jar[b]].user_id
    BY LookupFindsLogin DEF AccountsInv
  <2>2. logins[jar[b]] \in [browser : Browsers, user_id : Ids]
    BY <2>1, HashFacts DEF AccountsInv
  <2>3. logins[jar[b]].browser = b
    BY <1>2 DEF AccountsInv, CookiesAreOwn
  <2> HIDE DEF u
  <2> QED
    BY <2>1, <2>2, <2>3 DEF LoggedInAs
<1> DEFINE who == IF u = 0 THEN NoUser ELSE u
<1>4. sock' = [sock EXCEPT ![b] = who]
  BY <1>1
<1>5. who \in {NoUser, NoSock} \cup Ids /\ (who \in Ids => LoggedInAs(b, who))
  BY <1>3, HashFacts DEF AccountsInv, NoUser, Ids
<1> HIDE DEF who, u
<1>6. TypeOK'
  BY <1>2, <1>4, <1>5 DEF AccountsInv, TypeOK, Ids, Hashes
<1>7. SessionsAreLogins' /\ CookiesAreOwn' /\ TokensNameUsers'
  BY <1>2 DEF AccountsInv, SessionsAreLogins, CookiesAreOwn, TokensNameUsers,
              Hashes
<1>8. SocketsAreLogins'
  <2> SUFFICES ASSUME NEW c \in Browsers, sock'[c] \in Ids
               PROVE  LoggedInAs(c, sock'[c])
    BY <1>2 DEF SocketsAreLogins, LoggedInAs, Ids, Hashes
  <2>1. sock \in [Browsers -> {NoUser, NoSock} \cup Ids]
    BY DEF AccountsInv, TypeOK
  <2>2. CASE c = b
    BY <1>4, <1>5, <2>1, <2>2
  <2>3. CASE c # b
    BY <1>4, <2>1, <2>3 DEF AccountsInv, SocketsAreLogins
  <2> QED
    BY <2>2, <2>3
<1> QED
  BY <1>6, <1>7, <1>8 DEF AccountsInv

LEMMA CloseSocketStep ==
  ASSUME AccountsInv, NEW b \in Browsers, CloseSocket(b)
  PROVE  AccountsInv'
<1>1. /\ sock' = [sock EXCEPT ![b] = NoSock]
      /\ UNCHANGED <<users, sessions, logins, gone, jar, host, form, status>>
  BY DEF CloseSocket, tables
<1>2. TypeOK'
  BY <1>1 DEF AccountsInv, TypeOK, Ids, Hashes
<1>3. SessionsAreLogins' /\ CookiesAreOwn' /\ TokensNameUsers'
  BY <1>1 DEF AccountsInv, SessionsAreLogins, CookiesAreOwn, TokensNameUsers,
              Hashes
<1>4. SocketsAreLogins'
  <2> SUFFICES ASSUME NEW c \in Browsers, sock'[c] \in Ids
               PROVE  LoggedInAs(c, sock'[c])
    BY <1>1 DEF SocketsAreLogins, LoggedInAs, Ids, Hashes
  <2>1. sock \in [Browsers -> {NoUser, NoSock} \cup Ids]
    BY DEF AccountsInv, TypeOK
  <2>2. c # b
    BY <1>1, <2>1, HashFacts DEF AccountsInv, NoSock, Ids
  <2> QED
    BY <1>1, <2>1, <2>2 DEF AccountsInv, SocketsAreLogins
<1> QED
  BY <1>2, <1>3, <1>4 DEF AccountsInv

LEMMA CookieExpiresStep ==
  ASSUME AccountsInv, NEW b \in Browsers, CookieExpires(b)
  PROVE  AccountsInv'
<1>1. /\ jar' = [jar EXCEPT ![b] = NoHash]
      /\ UNCHANGED <<users, sessions, logins, gone, host, form, sock, status>>
  BY DEF CookieExpires, tables
<1>2. TypeOK'
  BY <1>1 DEF AccountsInv, TypeOK, Ids, Hashes
<1>3. SessionsAreLogins' /\ SocketsAreLogins' /\ TokensNameUsers'
  BY <1>1 DEF AccountsInv, SessionsAreLogins, SocketsAreLogins,
              TokensNameUsers, LoggedInAs, Ids, Hashes
<1>4. CookiesAreOwn'
  BY <1>1 DEF AccountsInv, TypeOK, CookiesAreOwn
<1> QED
  BY <1>2, <1>3, <1>4 DEF AccountsInv

(* Steps that change neither a table nor a cookie, form or websocket.      *)
LEMMA OtherSteps ==
  ASSUME AccountsInv,
         UNCHANGED <<users, sessions, logins, gone, jar, form, sock>>,
         host' \in [Browsers -> Hosts],
         status' \in {"up", status}
  PROVE  AccountsInv'
<1>1. TypeOK'
  BY DEF AccountsInv, TypeOK, Ids, Hashes
<1>2. SessionsAreLogins' /\ CookiesAreOwn'
  BY DEF AccountsInv, SessionsAreLogins, CookiesAreOwn
<1>3. SocketsAreLogins' /\ TokensNameUsers'
  BY DEF AccountsInv, SocketsAreLogins, TokensNameUsers, LoggedInAs, Ids,
         Hashes
<1> QED
  BY <1>1, <1>2, <1>3 DEF AccountsInv

LEMMA RequestStep ==
  ASSUME AccountsInv, NEW b \in Browsers, Request(b)
  PROVE  AccountsInv'
<1>1. CASE Profile(b)
  BY <1>1, ProfileStep
<1>2. CASE ChatForm(b)
  BY <1>2, ChatFormStep
<1>3. CASE ChatHistory(b) \/ Send(b)
  BY <1>3, StopStep DEF ChatHistory, Send
<1>4. CASE Logout(b)
  BY <1>4, LogoutStep
<1>5. CASE \E name \in Names, password \in Passwords :
             AddUser(b, name, password) \/ Auth(b, name, password)
  BY <1>5, AddUserStep, AuthStep
<1>6. CASE \E name \in Names, password \in Passwords \cup {NoPassword} :
             EditUser(b, name, password)
  BY <1>6, EditUserStep
<1> QED
  BY <1>1, <1>2, <1>3, <1>4, <1>5, <1>6 DEF Request

LEMMA AccountsStep == AccountsInv /\ [Next]_vars => AccountsInv'
<1> SUFFICES ASSUME AccountsInv, [Next]_vars PROVE AccountsInv'
  OBVIOUS
<1>1. CASE \E b \in Browsers : Request(b)
  BY <1>1, RequestStep
<1>2. CASE \E b \in Browsers : OpenSocket(b) \/ CloseSocket(b)
  BY <1>2, OpenSocketStep, CloseSocketStep
<1>3. CASE \E b \in Browsers : CookieExpires(b)
  BY <1>3, CookieExpiresStep
<1>4. CASE \E b \in Browsers : Move(b)
  <2>1. host' \in [Browsers -> Hosts]
    BY <1>4 DEF Move, AccountsInv, TypeOK
  <2> QED
    BY <1>4, <2>1, OtherSteps DEF Move, tables
<1>5. CASE Restart
  <2>1. host \in [Browsers -> Hosts]
    BY DEF AccountsInv, TypeOK
  <2> QED
    BY <1>5, <2>1, OtherSteps DEF Restart, tables
<1>6. CASE UNCHANGED vars
  <2>1. host \in [Browsers -> Hosts]
    BY DEF AccountsInv, TypeOK
  <2> QED
    BY <1>6, <2>1, OtherSteps DEF vars, tables
<1> QED
  BY <1>1, <1>2, <1>3, <1>4, <1>5, <1>6 DEF Next

-----------------------------------------------------------------------------
(* cchat.c, chatdb.c: every reachable state satisfies AccountsInv.         *)
THEOREM AccountsInvariant == Spec => []AccountsInv
BY AccountsInitially, AccountsStep, PTL DEF Spec

(* Tables, cookies, forms and websockets refer to rows and logins that     *)
(* exist.                                                                  *)
THEOREM TablesWellTyped == Spec => []TypeOK
<1>1. AccountsInv => TypeOK
  BY DEF AccountsInv
<1> QED
  BY <1>1, AccountsInvariant, PTL

(* cchat_handle_req() and FILTER_PROTOCOL_CONNECTION: neither a request    *)
(* nor a websocket is taken for a user its browser never logged in as.     *)
THEOREM BrowsersActAsThemselves == Spec => []ActsOnlyAsItself
<1>1. AccountsInv => ActsOnlyAsItself
  <2> SUFFICES ASSUME AccountsInv, NEW b \in Browsers
               PROVE  /\ AuthUser(b) # 0 => LoggedInAs(b, AuthUser(b))
                      /\ sock[b] \in Ids => LoggedInAs(b, sock[b])
    BY DEF ActsOnlyAsItself
  <2>1. AuthUser(b) # 0 => LoggedInAs(b, AuthUser(b))
    BY AuthUserIsLogin DEF LoggedInAs
  <2>2. sock[b] \in Ids => LoggedInAs(b, sock[b])
    BY DEF AccountsInv, SocketsAreLogins
  <2> QED
    BY <2>1, <2>2
<1> QED
  BY <1>1, AccountsInvariant, PTL

(* cchat_route_logout(): a session that was logged out is never found      *)
(* again.                                                                  *)
THEOREM LoggedOutStaysOut == Spec => []LogoutIsFinal
<1>1. AccountsInv => LogoutIsFinal
  BY DEF AccountsInv, SessionsAreLogins, LogoutIsFinal
<1> QED
  BY <1>1, AccountsInvariant, PTL

-----------------------------------------------------------------------------
(* cchat_route_user(): a step that changes the row of a user is the submit *)
(* of a form opened for this user.                                         *)
LEMMA EditNeedsForm ==
  ASSUME AccountsInv, NEW b \in Browsers,
         NEW name \in Names, NEW password \in Passwords \cup {NoPassword},
         EditUser(b, name, password),
         NEW u \in Ids, users'[u] # users[u]
  PROVE  ThroughOwnForm(u)
<1>1. AuthUser(b) # 0 /\ form[b].page = "profile" /\ form[b].csrf = jar[b]
  BY DEF EditUser
<1>2. /\ jar[b] \in Hashes /\ jar[b] # NoHash
      /\ logins[jar[b]] = [browser |-> b, user_id |-> AuthUser(b)]
  BY <1>1, AuthUserIsLogin
<1>3. logins[jar[b]] = [browser |-> b, user_id |-> form[b].user]
  BY <1>1, <1>2 DEF AccountsInv, TokensNameUsers
<1>4. form[b].user = AuthUser(b)
  BY <1>2, <1>3
<1>5. u = AuthUser(b)
  <2> DEFINE one == [users EXCEPT ![AuthUser(b)].name = name]
  <2>1. users' = [one EXCEPT ![AuthUser(b)].password =
                    IF password = NoPassword THEN @ ELSE password]
    BY DEF EditUser
  <2>2. DOMAIN users = Ids
    <3> DEFINE Users == [name : Names, password : Passwords, time_fmt : BOOLEAN]
    <3>1. users \in Seq(Users)
      BY DEF AccountsInv, TypeOK
    <3> HIDE DEF Users
    <3> QED
      BY <3>1 DEF Ids
  <2>3. u # AuthUser(b) => users'[u] = users[u]
    BY <2>1, <2>2
  <2> QED
    BY <2>3
<1> QED
  BY <1>1, <1>2, <1>4, <1>5 DEF ThroughOwnForm, LoggedInAs

LEMMA RowsChangeThroughForms ==
  ASSUME AccountsInv, [Next]_vars, NEW u \in Ids, users'[u] # users[u]
  PROVE  ThroughOwnForm(u)
<1>1. PICK b \in Browsers : Request(b)
  BY DEF Next, vars, tables, OpenSocket, CloseSocket, CookieExpires, Move,
         Restart
<1>2. ASSUME NEW name \in Names, NEW password \in Passwords,
             AddUser(b, name, password)
      PROVE  FALSE
  <2> DEFINE Users == [name : Names, password : Passwords, time_fmt : BOOLEAN]
             row == [name |-> name, password |-> password, time_fmt |-> FALSE]
  <2>1. users' = Append(users, row) /\ row \in Users /\ users \in Seq(Users)
    BY <1>2 DEF AddUser, AccountsInv, TypeOK
  <2> HIDE DEF Users, row
  <2>2. users'[u] = users[u]
    BY <2>1, AppendFacts DEF Ids
  <2> QED
    BY <2>2
<1>3. CASE \E name \in Names, password \in Passwords \cup {NoPassword} :
             EditUser(b, name, password)
  BY <1>3, EditNeedsForm
<1> QED
  BY <1>1, <1>2, <1>3
     DEF Request, Profile, ChatForm, ChatHistory, Send, StopWith, Logout,
         Auth, tables

(* cchat_route_user(): no row is ever overwritten through a form that was  *)
(* opened for another user or by a browser that never logged in as him.    *)
THEOREM RowsBelongToTheirUsers == Spec => EditsOwnRow
<1>1. AccountsInv /\ [Next]_vars =>
        [\A u \in Ids : users'[u] # users[u] => ThroughOwnForm(u)]_vars
  BY RowsChangeThroughForms
<1> QED
  BY <1>1, AccountsInvariant, PTL DEF Spec, EditsOwnRow
=============================================================================
