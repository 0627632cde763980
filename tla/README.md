# C is for Chat: a TLA+ development

Specifications, model-checking runs and machine-checked proofs for the chat
server in `src/` (the C sources are in `src/src/`; file names below are relative
to that directory).

## 1. The system

One process, two threads.

* The **main thread** (`main.c` `main`) opens the database, starts the websocket
  thread, then answers FastCGI requests one after the other with
  `cchat_handle_req`. It leaves the loop when a request returns `RETVAL_ALLOC`,
  or when `SIGINT` runs `main_shutdown`.
* The **service thread** (`main.c` `main_lws_handler`) calls `lws_service()` for
  ever. libwebsockets calls `main_cb_cchat` from it, one callback at a time.
* They share `struct CCHAT_OP_DATA`: the SQLite handle (`db_mutex` around every
  statement) and the client table (`clients_mutex`, and one `buffer_mutex` per
  slot, always taken after it).

| component | state it keeps | operations | what makes it correct | modules |
|---|---|---|---|---|
| websocket client table (`rtproto.c`, `main.c` 33-232) | array of handle, send buffer, user; slots used and allocated | filter/add, PRIVMSG broadcast, writable, close | one slot per connection, lines in order and at most once, no line forgotten, right name on a line, slots inside the memory | `ClientTable`, `ChatRoom`, `ClientTableProofs`, `ClientTableRefinement` |
| database start and upgrade (`chatdb.c` 49-66, 422-570) | tables, columns, `schema_version` | create, get version, alter, set version | the server only serves the current schema, however it was stopped before | `SchemaInit`, `SchemaInitProofs` |
| accounts and sessions (`cchat.c`, `chatdb.c` 615-726 and 941-1141) | rows of `users` and `sessions`; cookie and open form of a browser | profile, add/edit user, login, logout, session lookup, send | nobody acts as somebody else, a logout is final, a form changes the row it was opened for | `Accounts`, `AccountsProofs` |
| message store and history (`chatdb.c` 728-842, `cchat.c` 759-924, `chat.js`) | rows of `messages`; page, live lines and socket of a browser | broadcast, insert, last ten joined with users, load, open and reopen the socket | page and live lines together show what was said, each line once and in order, and what is missing is missing for a known reason | `History`, `HistoryProofs` |
| SQL builders and binder (`chatdb.c` 21-48, 86-376, 579-726) | prepared statement, `db_mutex` | field table to text, values to question marks, step | text and values agree for every table; the mutex is given back on every path | `Statement`, `StatementProofs` |
| CGI helpers (`bcgi.c`, `webutil.c` 227-251, parts of `bstrlib.c`) | none | split, decode, escape, trim | a text arrives as it was typed, and both threads read the same cookie | `Text`, `TextProofs` |
| start and shutdown (`main.c` 33-65, 260-319, 454-512) | the shared pointers, the mutexes | callbacks, signal, leave the loop | nothing is misused while serving or by a quiet shutdown; the threads do not wait for each other; the process ends | `Shutdown`, `ShutdownProofs` |
| pages, HTTP responses, ReCAPTCHA (`webutil.c`, parts of `cchat.c`) | none | formatting | layout only | not modelled |
| logging, assets, `strftime.js`, the rest of bstrlib | none that the server reads back | | constant, vendored or run elsewhere | not modelled |

How the parts interact: a page request of the main thread writes `users`,
`sessions` (and reads `messages`); a websocket callback reads `sessions` when a
connection comes and `users` when a line is sent, queues the line in the client
table, then inserts it into `messages`. libwebsockets later asks for each buffer
through a writable callback.

The behaviours that are hard here: connections that come and go while lines sit in
buffers that slide over each other; an allocation that fails in the middle of a
loop; an error code that is overwritten; statements that commit one by one while
the process may stop in between; browser state (cookie, open forms) that is older
than the rows it refers to; two threads and one table at shutdown. `PROJECT.json`
lists each at its line under `hazards`.

## 2. Modules

### ClientTable (`rtproto.c`, `main.c`)

Each action is one callback of libwebsockets, run to its end. That is the grain
of the code: all callbacks run on the one service thread, and the only
function of the main thread that would reach the table (`/send`, `cchat.c` 655)
either answers 500 or stops before it does (see Accounts).

| action | code |
|---|---|
| `FilterProtocolConnection(w, u)` | `main_cb_cchat` 122-164, `main_lws_client_add`, `rtproto_client_add` |
| `FilterAddFails` | the same when `bstrListCreate`/`bstrListAlloc` fail |
| `Receive(w)` | `main_cb_cchat` 166-172, `rtproto_cmd_privmsg`, `chatdb_iter_users`, `rtproto_client_write_all`, `chatdb_send_message` |
| `ServerWriteable(w)` | `main_cb_cchat` 174-208 |
| `Closed(w)` | `main_cb_cchat` 210-212, `main_lws_client_delete`, `rtproto_client_delete` |

`clients`, `clients_sz`, `clients_sz_max` are the fields of the same names;
`clients_bytes` is the size the last `calloc`/`realloc` asked for. The array keeps
what `memcpy` leaves behind `clients_sz`. `open`, `want` and `written` stand
for libwebsockets (external). `auth`, `joined` and `log` only record history for
the properties. A line is the number of its broadcast; blank lines, lines that
are not a PRIVMSG and database errors while the sender is looked up change nothing
and are stutters. `realloc` returning NULL and `calloc` failing are left out (the
first changes nothing but refuses the connection, the second is a crash). A
failing allocation inside another callback makes libwebsockets close the
connection: that is `Closed`, which may happen at any time.

Once a slot lies outside its memory (`~InBounds`) C defines nothing any more, and
the model stops. That is why the runs of this module with a growing table set
`CHECK_DEADLOCK FALSE`.

`ChatRoom` is the promise without the array: members join as a user, post, get
every line in order through a queue of bounded length (a full queue drops the
line, and with failing allocations so may a free one), and leave.
`ClientTable!Room` maps one to the other.

### SchemaInit (`chatdb.c`)

One action per statement of `chatdb_init`, because SQLite commits each by itself,
with `Stop` anywhere between two of them and `Start` on what was left. Files start
empty or as an earlier release of any version left them: as it served, or stopped behind any of
its `create table` statements, before it wrote a version. For the second kind `stale` records that the
`users` table is older than this release: such a file is stamped as the latest (`chatdb.c:525`) and never gets
its columns. `UpIsCurrent` and `VersionMatchesColumns` make that one exception, and the run `schema_unversioned`
shows it. Column `n` is the one `_chatdb_alter_table( n, ...)` adds. The module needs no MC module: its
constants are numbers. `CHECK_DEADLOCK FALSE`: a server that is up and has used
its `MaxStops` stops stays up.

### Accounts (`cchat.c`, `chatdb.c`)

One action per route that changes a row or that a row decides. A request is one
step: the main thread answers one at a time and writes at most one row, and the
service thread reads `sessions` in one statement under `db_mutex`.

| action | code |
|---|---|
| `Profile(b)` | `cchat_route_profile`, `cchat_profile_form` |
| `AddUser`, `EditUser` | `cchat_route_user` without and with a session, `chatdb_add_user` |
| `Auth` | `cchat_route_auth`, `cchat_auth_user_cb`, `chatdb_add_session` |
| `Logout(b)` | `cchat_route_logout`, `chatdb_remove_session` |
| `ChatForm(b)`, `ChatHistory(b)` | `cchat_route_chat`: the form to send with, the messages above it |
| `Send(b)` | `cchat_route_send` |
| `OpenSocket(b)`, `CloseSocket(b)` | `main_cb_cchat` 122-164, 210-212 |
| `Restart` | `main` on the same file |
| `CookieExpires(b)`, `Move(b)` | the browser (external) |

The state of the browser is part of the model because the code trusts it: the
cookie in the `jar` may be older than the row, the address it was issued to or
the person in front of the screen, and a `form` may be older than all of them. The
hash of a session is random in the code; here it is the number of the login that
drew it, so `logins` says who holds which hash. `gone` records logouts. `sock` is
the user the lookup of `FILTER_PROTOCOL_CONNECTION` left, -1 if it found none:
whether such a connection becomes a client is the subject of `ClientTable`.

A request that is refused, or that fails in the database (a name that is taken), is a
stutter. The three ways a legal request ends the process are `StopWith`, after
which `Restart` starts the server on the same tables. `ChatHistory` has only the
step that stops: showing a page changes nothing.


### History (`rtproto.c`, `chatdb.c`, `cchat.c`, `chat.js`)

A line reaches a browser on two ways: as a row of the page that the main thread
renders, or live from the service thread, which broadcasts it first and stores it
afterwards. The two threads interleave between the statements of
`rtproto_cmd_privmsg`, and so do the steps of the browser.

| action | code |
|---|---|
| `Privmsg(u)`, `Handle` | `rtproto_cmd_privmsg`: up to the format with `time()`; then `rtproto_client_write_all`; then `chatdb_send_message` |
| `Chat(b)` | `cchat_route_chat`, `chatdb_iter_messages`: `IsPage` is "order by msg_time desc limit 10" with ties in any order |
| `Load(b)`, `CreateSock(b)`, `CloseSock(b)`, `OnMessage(b)` | the browser and `chat.js` |
| `Tick` | the clock (external) |

The reply travels between `Chat` and `Load`, so a page may be old when it is shown.
`svc` is where the service thread is with the line in hand: `caught` in a page says that
it was rendered between broadcast and insert. `queue` is the send buffer of the socket's client together
with the lines already on their way: `ClientTable` shows that a buffer keeps its order, and here it may fill, lose a
line whose copy fails (`dropped`), and be destroyed with its socket, of which only what had left it
still arrives. `onmessage` takes a line apart with a regular expression that a sender's name with a
blank in it need not match; the handler then fails and the line is lost (`matched`, chosen freely).

Times are seconds of the server's clock, which is assumed not to go back, and they matter as the
key by which a page is sorted. **What clock reading is printed for them is not modelled.** The three places
that print them do not agree: `chatdb_assign_time_t` (`chatdb.c` 379-392) reads SQLite's UTC text with `mktime` as local
time, `tm_isdst` unset, `webutil_format_time` prints it in the zone of the server, and `chat.js` prints the
time of a live line in the zone of the browser. Outside of UTC a page and its live lines may therefore
show readings that are hours apart. `ShownInOrder` speaks of the order in which lines were sent and not of
these readings.

### Text (`bcgi.c`, `webutil.c`, `rtproto.c`, `bstrlib.c`)

Operators on sequences of bytes, each the result of the C function of its name; the
decoder is a fold of `DecodeChar`, one turn of the loop of `bcgi_urldecode`.
The properties compose them the way the routes do, from what is typed to what is read or
shown: a form with three fields, a cookie header with a second cookie, a PRIVMSG, and the
line on the page. The reference is the typed text itself. `typed` is the only variable, so
that TLC enumerates the texts. `Shown`, `UrlEncode` and `FormEntry` are what a browser does
(external).

`bcgi_html_escape` leaves `&` as it is (`bcgi.h` 5-8), so a character reference that somebody types, `&amp;` or
`&copy;`, reaches the page as one and shows as another text, although the comment at `rtproto.c:46` speaks of sanitizing
entities. `PageShowsTheLiveLine` therefore says of every text that page and live line have the same HTML and no
markup, and claims the look on the screen only for texts without an ampersand: in their HTML
every ampersand begins one of the two references the escape writes, so these two are all that `Shown` has to
know. It leaves blanks alone, of which a browser shows a run as one.

### Statement (`chatdb.c`, `chatdb.h`)

One call of `chatdb_add_user`, with a step for each turn of its loops. A column and a value
are both the number of their field, so a value on the wrong question mark is a difference of
two sequences. The builders choose fields by their text (`InText`), the binder by the index
(`IsBound`). `Layouts` are any field tables with one primary key (`StatementAssumption`), with any number as bind
index. On 0 and on negative numbers but -1, which the comment at `chatdb.h:13` allows, the two tests disagree and the
statement has a question mark without a value; `EveryMarkItsOwnValue` is about the tables that mark such fields with
exactly -1 (`WellMarked`), as both tables of `chatdb.h` do. `OnlyFailedBindsLeak` holds for all.

### Shutdown (`main.c`, `rtproto.c`, `chatdb.c`)

Two threads at the grain of their mutexes: each section is entered by `Lock` and left by its
body, and everything outside of a mutex is a step of its own (the use of a client after
`main_lws_client_get` gave the lock back, the search of `main_lws_client_delete`, the test of the
loop in `main_shutdown`). `Interrupt(t)` starts `main_shutdown` on top of whatever `t` was
doing, with the mutexes it holds; `LeaveLoop` starts it from `main`. What C leaves undefined is
recorded in `harm` and may crash the process from then on. That includes the table that grows (`rtproto.c:116`):
`Add` is sound for fewer clients than `InitSlots` and breaks memory from then on, and `most` records how many there were.
`Wake` is an `lws_service` that returns without a callback, after `lws_context_destroy` too, which itself makes the CLOSED
callback of each connection (`DestroyConnection`, `ClosedByDestroy`) before the context is gone (`Destroy`).
`buffer_mutex` is left out: only the service thread ever takes it. Allocations do not fail here (ClientTable has those),
and refused callbacks that touch nothing shared are left out.

`MCHistory` and `MCShutdown` each join two specifications that share no variable, one run for
both: a behaviour takes the first step in one of them, and the other stays at its initial state from
then on (Text and Statement stop at a bounded number of steps by themselves, and
the history of a room begins only with an untyped text). Nothing is assumed about their product.

## 3. Runs

| run | module, cfg | shows |
|---|---|---|
| client_table | `MCClientTable`, `ClientTable_table.cfg` | with failing allocations: types; one slot per connection; memory sound below growth; order; no lost wakeup; nothing taken back |
| client_delivery | `ClientTable_delivery.cfg` | under fairness: queued lines leave; the table implements `ChatRoom!FairSpec`; names of authenticated senders |
| client_overrun | `ClientTable_overrun.cfg` | violated: there is no room for the client that makes the table grow (`rtproto.c:116`) |
| client_sender | `ClientTable_sender.cfg` | violated: a connection without a session becomes a client (`main.c:162`) and its lines carry another user's name (`chatdb.c:902`) |
| schema_restarts | `SchemaInit`, `SchemaInit_restarts.cfg` | only the current schema is served; version and columns; both but for older unversioned tables; an untorn start succeeds |
| schema_torn | `SchemaInit_torn.cfg` | violated: a torn upgrade step is never completed (`chatdb.c:50`) |
| schema_unversioned | `SchemaInit_unversioned.cfg` | violated: an older `users` table without a version is stamped as the latest (`chatdb.c:525`) |
| schema_messages | `SchemaInit_messages.cfg` | violated: a new `messages` table has the columns of `users` (`chatdb.c:94`) |
| accounts_sessions | `MCAccounts`, `Accounts_sessions.cfg` | types; identity of requests and sockets; a logout is final; a form changes the row it was opened for |
| accounts_send | `Accounts_send.cfg` | violated: a send form after a logout reaches the NULL `auth_user` (`cchat.c:672`), after its cookie expired it ends `main` (`cchat.c:680`) |
| history_lines | `MCHistory`, `History_lines.cfg` | no line twice, lines in the order sent, every missing line accounted for; fields, cookies, lines and pages give texts back as typed |
| shutdown_threads | `MCShutdown`, `Shutdown_threads.cfg` | who holds what; serving is safe below growth; a quiet shutdown is clean; no circular wait; the process ends, with the exceptions below; statement and values agree; what a failed bind leaves behind |

**Bounds.** `client_table`: with `InitSlots = 4` three of four connections fit, one
before, at and after the one that is deleted, adds reuse stale slots, and the fourth
add is the growth step; `BufferCt = 3` gives buffers of two lines, which have an order, and a
line whose copy fails leaves a gap between two others. `client_delivery`: two users tell a name from another
one, a third line finds a buffer full, and a fourth may be queued behind the gap. `MaxLines` bounds the broadcasts of a
behaviour, `MaxStops` the stops. `SlotBytes = 8` only has to be larger than
4: the table then never fits into `2 * clients_sz_max` bytes, as with the real
size. Symmetry of the handles is used in safety runs only. `Latest = 4` is the
value in the code.
`Accounts`: two accounts tell one user from another. Two browsers and two addresses
with two logins let a browser hold the cookie of one login while another is made,
come back to an address it left, or open a form as one user and submit it as another. `MaxUsers` and `MaxLogins` bound
accounts and logins. A new login or account is not offered beyond them.
`history_lines`: one browser, because browsers do not meet except in the table; a page of two rows
and three lines make a page that is full, with a line crowded out and one that ties; one
second separates lines of the same time from others. Texts have up to three bytes out of thirteen
(blank, `%`, `&`, `+`, `:`, `;`, `<`, `=`, `>`, a digit, both kinds of letters that the hex test tells apart,
and a byte outside of ASCII): an entity has three characters, and the
properties put the text beside others. That longer texts bring nothing new is proved in `TextProofs`.
`shutdown_threads`: three slots hold two clients, one to remove and one to slide, and the third client is the growth
step; three callbacks bring a client in, let it go and find it in between; with two signals a handler interrupts the
other thread, or its own thread's shutdown from `main`. Statements are run for the users table and for 432 tables
of four fields with the key first or last, twice each, so that a call may follow one that failed.
It says `CHECK_DEADLOCK FALSE`, because a process that has ended, or that is locked up, stops there.

**What `ShutdownEnds` leaves open.** A handler on a thread that holds `clients_mutex` waits for it for ever (`caught`), and
after two threads removed the same client `clients_sz` may have wrapped around, so that the loop need not end. Both
are what the code does and the property names them as exceptions. The locks inside the libraries are not
modelled: a signal may come while `malloc` or SQLite holds one, and `main_shutdown` calls both. What else an interrupted
callback can break (a client found before and slid away, `main.c:46`; the last one removed twice, `rtproto.c:208`)
is in `harm`, and no property excludes it, for nothing in the code does.

**Fairness.** `ClientTable!FairSpec`: `main_lws_handler` calls `lws_service()` as
long as the server is up, so a connection that asked for a writable callback
gets it, or is closed when its peer takes nothing any more (the ping policy,
`main.c` 339-343). Nothing is assumed of clients. `SchemaInit!FairSpec`: the
process runs on and its operator starts it again. Without the bound on stops
that would be too strong a claim about operators; it is used for what holds
*after* the last stop.
`Shutdown!Spec`: each thread goes on as long as it can (`WF(MainStep)`, `WF(ServiceStep)`): they are
threads of one process under a fair scheduler, and a mutex that is free is given to the only one that
waits. Requests, callbacks, signals and crashes are not assumed to happen. `History`, `Text` and `Statement`
have safety properties only.

## 4. Proofs

All statements hold for every value of the constants allowed by the named
assumptions `ClientTableAssumption`, `LastUserAssumption` (one of the users has the
largest id), `SchemaInitAssumption`, `AccountsAssumption`, `HistoryAssumption`, `StatementAssumption`,
`ShutdownAssumption` and `TextAssumption` (what is typed are bytes, none of them 0).

* `ClientTableProofs`. `TableInv` is the type invariant with `Capacity` (the three
  stages of the allocation: none, `InitSlots`, after the growth step),
  `OneSlotPerConnection` and `NoLostWakeup`. None of them is inductive alone:
  without the stage an index could leave the array, a delete keeps the match of
  slots and connections only because their handles are distinct, and a line is
  only appended to a buffer that exists because `NoLostWakeup` speaks of open
  handles. `OrderInv` adds order and range of each feed. From them:
  `TypeCorrect`, `OneSlot`, `NoLineIsForgotten`, `SoundTable`, `Attribution`,
  `Order`.
* `ClientTableRefinement`. Each callback is a step of `ChatRoom` or a stutter
  (`FilterAddFails`, a writable callback on an empty buffer): `Implements`. And
  `NothingIsTakenBack`, an action property, from `TableInv`.
* `SchemaInitProofs`. `SchemaInv` joins the types, `VersionMatchesColumns` and `UnversionedIsLatest` (a file without a
  version has the latest `users` table, unless it came `stale`) with `Progress`, which says for
  each statement what it finds on disk. `UpIsCurrent` needs them because a start relies on what earlier,
  stopped starts left: `ServesCurrentSchema`, `UpgradeKeepsStep`, `SchemaWellTyped`.
* `AccountsProofs`. `AccountsInv` adds to the types:
  a session row names the user who logged in with its hash and is not logged out;
  a cookie came from a login of the browser that holds it; an open socket belongs to a
  user this browser logged in as; a profile form with a token names the user of the
  token's login. `EditsOwnRow` needs the last one: the code compares only token and
  cookie, so the form is the right one because equal tokens mean the same login.
  `ActsOnlyAsItself` rests on the first two (`AuthUserIsLogin`). From them:
  `TablesWellTyped`, `BrowsersActAsThemselves`, `LoggedOutStaysOut`,
  `RowsBelongToTheirUsers`.
* `HistoryProofs`. `HistoryInv`: a line has at most one row, whose time is not later than that of
  any later line (`TableOK`: the service thread stores a line before it takes the next); rows of a page are
  rows of the table no newer than the page (`PageOK`); live lines and behind them the queue are newer than the page and go
  up (`WayOK`), and nothing broadcast past an open socket is unaccounted for (`HeardOK`); and each line
  up to the page is on it or explained (`PageComplete`), which stays true because only lines that are
  not `Settled` can still get a row. `NothingTwice` and `ShownInOrder` are where the two ways meet, and neither is
  inductive without `upto`: `HistoryWellTyped`, `NothingShownTwice`, `InOrderSent`, `LinesAccounted`.
* `StatementProofs`. The invariant says which columns the builder has seen, and that the binder, at field
  `i`, has bound a prefix of them: `StatementWellTyped`, `BuilderAndBinderAgree` (for every
  field table that is `WellMarked`), `LeaksOnlyFailedBinds` (for every one).
* `ShutdownProofs`. `OwnerInv`: a thread owns the mutex of the section it is inside, and no other unless it runs
  `main_shutdown` now. Two threads that wait for each other would both own something they are
  not inside of, so both would run `main_shutdown` and wait for the one mutex it takes: `NeverCircularWait`. `ServeInv` says what is
  there before any shutdown, `QuietInv` how far a lonely one has come (`Stage`), both as long as there were fewer clients
  than `InitSlots`, whatever that is:
  `ShutdownWellTyped`, `ServingSafe`, `QuietShutdownClean`.
* `TextProofs`. The four properties of `Text`, for all texts of any length over any bytes. They take induction over
  the text, and the library's induction theorems take a predicate as an operator, which the provers cannot
  instantiate. `SeqInd` therefore takes a *set*: the texts with the property hold the empty one and with a
  text every one that is a byte longer, so none is left out, because the lengths of those left out would have a least
  member (`LeastNat`, from `WFMin` and `NatLessThanWellFounded`). The community modules define `FoldLeft` and
  `FlattenSeq` by choosing a recursive function: `FoldExists` and `JoinedExists` show that there is one, `FoldAppend`
  and `FlattenAppend` what one element more adds. On these rest, byte by byte:
  + the decoder (`DecodeCode`): after the code of a byte, the state of the loop is what was decoded, with at most a
    code that is complete but not yet out (`DecodedTo`); the next character, a digit too, ends it because the
    buffer holds two. `DecodeUndoesEncode`; with `SplitThree` and `EntryParts` (encoded text has no `&` and
    no `=`) `FormGivesBack` and `FormFieldsReachTheRoutes`.
  + cookies (`HeaderFound`): what is stored has no `=` left (`PaddingOff`), so nothing is cut off behind one, and
    both ways of reading trim the same parts (`BothReadTrimmed`): `SessionCookiesAreFound`.
  + lines (`SendSpace`): the first colon is that of the command and the first space the one before it:
    `LinesArriveAsTyped`.
  + pages: escaping twice is escaping once (`PageIsLive`). The screen shows the text (`ShowsAsTyped`) because no
    character reference begins in what was sent before a byte and ends in what is sent for it (`NothingAcross`):
    it would end in `;`, which no escape but a whole one brings, and its other bytes would have been typed.
    `PagesShowTheLiveLine`.

Only model-checked: the liveness properties (`QueuedLineLeaves`,
`UntornStartSucceeds`, `ShutdownEnds`) and the fairness part of the refinement (`RoomFairSpec`),
which are out of the prover's reach.
Every invariant and every action property of a passing run is a theorem.

## 5. Not modelled

* **Start-up before the threads** (`main.c` 321-450): arguments and configuration, one thread, no state left
  but what `chatdb_init` does, which is `SchemaInit`.
* **Pages and responses** (`webutil.c`, the forms in `cchat.c`): formatting, and the ReCAPTCHA check, one
  call of libcurl whose answer a route takes as it comes.
* **Salts, hashes, base64** (`bcgi.c` 332-500): calls of OpenSSL; a hash is a fresh value in `Accounts`.
  `bcgi_parse_json` and `bcgi_hash_sha` are never called.
* **The text of SQL statements**: `Statement` keeps the columns of the one statement with bound values. The
  others put their values into the text with `%q`; `_chatdb_build_create_table` is in `SchemaInit` by the columns
  it makes.
* **`buffer_mutex`, the memory of bstrlib, `dbglog`**: one thread, documented results, output.
* **Entries without a `=`**: `bcgi_query_key` reads the second part of each entry with the right key (`bcgi.c:231`), also
  of an entry that has only one. `Text` assumes that every entry has a `=`, as those of a browser's
  form and of this server's cookies have.
* **Time formats**: what is printed for a time (see History). A user registered by this release has none at all,
  because `chatdb_add_user` inserts NULL over the default, and `webutil.c:24` asserts that there is one: the first message
  such a user is shown ends the server. `Accounts` has that step (`ChatHistory`), no run is spent on it.
* **A websocket after a logout, a session without a cookie** (`cchat.c:91`, `cchat.c:611`): both exist in the model and in
  the code; no property forbids them.
* **A rename that is refused** is reported as a success (`cchat.c:408`); only the text of a redirect
  depends on it.
* **Composition of `Accounts` and `ClientTable`**: they meet in one lookup, the user that `OpenSocket` finds, which is
  an arbitrary user of the table in `ClientTable` and the subject of `ActsOnlyAsItself` in `Accounts`.
  A product of both would check the same again.
