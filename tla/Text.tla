-------------------------------- MODULE Text --------------------------------
(***************************************************************************)
(* What happens to a text between the browser and the routes: the fields   *)
(* of a form and the cookies (bcgi.c, webutil.c), the line of a PRIVMSG    *)
(* (rtproto.c) and its way back into a page or into chat.js.  The          *)
(* operators of bstrlib.c are the ones these functions call.               *)
(*                                                                         *)
(* A text is a sequence of bytes.  No call runs out of memory.  Every      *)
(* entry of a query or of a cookie header has a '=', as those of a form    *)
(* and those this server sets have.                                        *)
(***************************************************************************)
EXTENDS Integers, Sequences, SequencesExt

CONSTANTS
  Typeable, \* the bytes that are typed
  MaxTyped  \* bound of the model: bytes of a text

ASSUME TextAssumption ==
  /\ Typeable \subseteq 1 .. 255
  /\ MaxTyped \in Nat

VARIABLE typed

Null == <<-1>>

Space == 32
Percent == 37
Amp == 38
Plus == 43
Colon == 58
Semicolon == 59
Less == 60
Equal == 61
Greater == 62

LT == <<38, 108, 116, 59>>                              \* &lt;
GT == <<38, 103, 116, 59>>                              \* &gt;
Base64 == {43, 47} \cup (48 .. 57) \cup (65 .. 90) \cup (97 .. 122)

PRIVMSG == <<80, 82, 73, 86, 77, 83, 71>>               \* PRIVMSG
SessionKey == <<115, 101, 115, 115, 105, 111, 110>>     \* session

-----------------------------------------------------------------------------
(* bstrlib.c                                                               *)
Whitespace == {32, 9, 10, 11, 12, 13}

bstrchr(s, c) ==
  LET at == {i \in 1 .. Len(s) : s[i] = c}
  IN IF at = {} THEN -1 ELSE Min(at) - 1

SplitStep(parts, x, c) ==
  IF x = c THEN Append(parts, <<>>)
  ELSE [parts EXCEPT ![Len(parts)] = Append(@, x)]

bsplit(s, c) ==
  FoldLeft(LAMBDA parts, x : SplitStep(parts, x, c), << <<>> >>, s)

btrimws(s) ==
  LET kept == {i \in 1 .. Len(s) : s[i] \notin Whitespace}
  IN IF kept = {} THEN <<>> ELSE SubSeq(s, Min(kept), Max(kept))

(* !bstrncmp: n may be -1, and then the two are equal.                     *)
bstreqn(s, t, n) ==
  LET m == Min({n, Len(s), Len(t)})
  IN /\ \A i \in 1 .. m : s[i] = t[i]
     /\ n = m \/ Len(s) = Len(t)

bfindreplace(s, c, by) ==
  FlattenSeq([i \in 1 .. Len(s) |-> IF s[i] = c THEN by ELSE <<s[i]>>])

-----------------------------------------------------------------------------
(* bcgi_is_hex_digit: also : ; < = > and ?, and no small letters.          *)
IsHexDigit(c) == (c > 47 /\ c < 64) \/ (c > 64 /\ c < 71)

(* strtol(buf, NULL, 16) of at most two of these.                          *)
HexStep(n, c) == 16 * n + (IF c <= 57 THEN c - 48 ELSE c - 55)

Strtol(buf) ==
  LET bad == {i \in 1 .. Len(buf) : buf[i] \in 58 .. 63}
      digits == IF bad = {} THEN buf ELSE SubSeq(buf, 1, Min(bad) - 1)
  IN FoldLeft(HexStep, 0, digits)

(* One turn of bcgi_urldecode with a character outside of an entity, and   *)
(* with one inside; at the end of an entity the character is seen again.   *)
DecodeNone(st, c) ==
  CASE c = Plus    -> [st EXCEPT !.out = Append(@, Space)]
    [] c = Percent -> [st EXCEPT !.inside = TRUE]
    [] OTHER       -> [st EXCEPT !.out = Append(@, c)]

DecodeEntity(st) ==
  [out |-> Append(st.out, Strtol(st.buf)), buf |-> <<>>, inside |-> FALSE]

(* Slip: the decode buffer is not limited to two characters.               *)
DecodeGreedy(st, c) ==
  IF ~st.inside THEN DecodeNone(st, c)
  ELSE IF IsHexDigit(c) THEN [st EXCEPT !.buf = Append(@, c)]
  ELSE DecodeNone(DecodeEntity(st), c)

DecodeChar(st, c) ==
  IF ~st.inside THEN DecodeNone(st, c)
  ELSE IF IsHexDigit(c) /\ Len(st.buf) < 2
       THEN [st EXCEPT !.buf = Append(@, c)]
       ELSE DecodeNone(DecodeEntity(st), c)

bcgi_urldecode(s) ==
  LET end == FoldLeft(DecodeChar,
                      [out |-> <<>>, buf |-> <<>>, inside |-> FALSE], s)
  IN IF end.inside THEN DecodeEntity(end).out ELSE end.out

(* bcgi_query_key: the first entry with this key; what follows a second    *)
(* '=' is not part of the value.                                           *)
bcgi_query_key(list, key) ==
  LET at == {i \in 1 .. Len(list) : bsplit(list[i], Equal)[1] = key}
  IN IF at = {} THEN Null ELSE bsplit(list[Min(at)], Equal)[2]

bcgi_query_key_str(s, c, key) ==
  bcgi_query_key([i \in 1 .. Len(bsplit(s, c)) |-> btrimws(bsplit(s, c)[i])],
                 key)

(* webutil_get_cookies, in the other thread.                               *)
webutil_get_cookies(s) ==
  [i \in 1 .. Len(bsplit(s, Semicolon)) |-> btrimws(bsplit(s, Semicolon)[i])]

(* Slip: the ampersand is escaped as well.                                 *)
EscapeAmpersand(s) ==
  bfindreplace(
    bfindreplace(bfindreplace(s, Amp, <<38, 97, 109, 112, 59>>), Less, LT),
    Greater, GT)

bcgi_html_escape(s) == bfindreplace(bfindreplace(s, Less, LT), Greater, GT)

-----------------------------------------------------------------------------
(* rtproto_command: the text up to the first space is compared, however    *)
(* short it is.                                                            *)
IsPrivmsg(line) == bstreqn(line, PRIVMSG, bstrchr(line, Space))

(* Slip: the colon is left in.                                             *)
PrivmsgWithColon(line) ==
  LET pos == bstrchr(line, Colon) IN
  IF pos <= 0 \/ Len(line) <= pos + 1 THEN Null
  ELSE btrimws(SubSeq(line, pos + 1, Len(line)))

(* The text rtproto_cmd_privmsg takes from a line, or Null.                *)
PrivmsgText(line) ==
  LET pos == bstrchr(line, Colon)
      raw == btrimws(SubSeq(line, pos + 2, Len(line)))
  IN IF pos <= 0 \/ Len(line) <= pos + 1 \/ raw = <<>> THEN Null ELSE raw

(* chat.js: what the button sends.                                         *)
SendLine(text) == PRIVMSG \o <<Space, Colon, Space>> \o text

(* What is sent and stored is escaped; the page escapes what is stored.    *)
LiveHtml(raw) == bcgi_html_escape(raw)
PageHtml(raw) == bcgi_html_escape(LiveHtml(raw))

(* Slip: one sign is cut off, if there is one.                             *)
TrimOnePadding(hash) ==
  IF Equal \in Range(hash) THEN SubSeq(hash, 1, Len(hash) - 1) ELSE hash

(* chatdb_add_session: characters are cut off as long as there is a '='.   *)
TrimPadding(hash) ==
  IF Equal \in Range(hash) THEN SubSeq(hash, 1, bstrchr(hash, Equal))
  ELSE hash

-----------------------------------------------------------------------------
(* The browser: application/x-www-form-urlencoded, and HTML on the screen. *)
Alnum == (48 .. 57) \cup (65 .. 90) \cup (97 .. 122)

HexDigit(n) == IF n < 10 THEN n + 48 ELSE n + 55

FormCode(c) ==
  IF c \in Alnum THEN <<c>>
  ELSE IF c = Space THEN <<Plus>>
  ELSE <<Percent, HexDigit(c \div 16), HexDigit(c % 16)>>

UrlEncode(s) == FlattenSeq([i \in 1 .. Len(s) |-> FormCode(s[i])])

FormEntry(key, value) == key \o <<Equal>> \o UrlEncode(value)

(* The character references that bcgi_html_escape writes.  A browser knows *)
(* others too, and shows a run of blanks as one: Shown is the text on its  *)
(* screen, but for blanks, where every ampersand begins one of these.      *)
EntityAt(html, i) ==
  i + 3 <= Len(html) /\ SubSeq(html, i, i + 3) \in {LT, GT}

InsideEntity(html, i) == \E j \in 1 .. i - 1 : i - j <= 3 /\ EntityAt(html, j)

ShownAt(html, i) ==
  IF EntityAt(html, i)
  THEN IF SubSeq(html, i, i + 3) = LT THEN <<Less>> ELSE <<Greater>>
  ELSE IF InsideEntity(html, i) THEN <<>>
  ELSE <<html[i]>>

Shown(html) == FlattenSeq([i \in 1 .. Len(html) |-> ShownAt(html, i)])

-----------------------------------------------------------------------------
TypeText ==
  /\ Len(typed) < MaxTyped
  /\ \E c \in Typeable : typed' = Append(typed, c)

(* The form is submitted, or the button pressed.                           *)
SubmitText ==
  /\ typed # <<>>
  /\ typed' = <<>>

TextInit == typed = <<>>

TextNext == TypeText \/ SubmitText

TextSpec == TextInit /\ [][TextNext]_typed

-----------------------------------------------------------------------------
(* In all of these, something was typed.                                   *)

(* A route reads from its form what was typed into the field, whatever it  *)
(* was and wherever the field stands: form encoding, bsplit,               *)
(* bcgi_query_key and bcgi_urldecode undo each other, although the value   *)
(* ends at a second '=' and entities take no small letters.                *)
FormFieldAsTyped ==
  typed # <<>> =>
    LET values == <<typed, <<>>, Reverse(typed)>>
        key(n) == <<119 + n>>
        form == bsplit(FormEntry(key(1), values[1]) \o <<Amp>>
                         \o FormEntry(key(2), values[2]) \o <<Amp>>
                         \o FormEntry(key(3), values[3]), Amp)
    IN \A n \in 1 .. 3 :
         bcgi_urldecode(bcgi_query_key(form, key(n))) = values[n]

(* Both threads read from the cookies the hash that chatdb_add_session     *)
(* stored, with another cookie before or after it: base64 text may end in  *)
(* signs that would be lost on the way back, and those are not stored. The *)
(* typed text is the hash up to some place, and the other value after it.  *)
BothThreadsFindTheSession ==
  typed # <<>> /\ Semicolon \notin Range(typed) =>
    \A k \in 0 .. Len(typed), n \in 0 .. 2 :
      LET salt == SubSeq(typed, 1, k)
          hash == TrimPadding(salt \o [i \in 1 .. n |-> Equal])
          session == SessionKey \o <<Equal>> \o hash
          other == <<120, Equal>> \o SubSeq(typed, k + 1, Len(typed))
          glue == <<Semicolon, Space>>
      IN Range(salt) \subseteq Base64 =>
           \A header \in {session \o glue \o other, other \o glue \o session} :
             /\ bcgi_query_key_str(header, Semicolon, SessionKey) = hash
             /\ bcgi_query_key(webutil_get_cookies(header), SessionKey) = hash

(* The text of a line is what was typed into chat.js, less the blanks at   *)
(* its ends, and a blank line has none: the first colon is that of the     *)
(* command, whatever is typed.                                             *)
LineAsTyped ==
  typed # <<>> =>
    /\ IsPrivmsg(SendLine(typed))
    /\ PrivmsgText(SendLine(typed)) =
         IF btrimws(typed) = <<>> THEN Null ELSE btrimws(typed)

(* A page brings a line, escaped for the second time, just as it came      *)
(* live, and no markup is left in it, whatever was typed.  If no ampersand *)
(* was typed, each one in it begins a character reference that the escape  *)
(* wrote, and it shows as typed.                                           *)
PageShowsTheLiveLine ==
  typed # <<>> =>
    \A raw \in {btrimws(typed), btrimws(LT \o typed), btrimws(typed \o GT)} :
      LET html == PageHtml(raw) IN
      /\ html = LiveHtml(raw)
      /\ Range(html) \cap {Less, Greater} = {}
      /\ Amp \notin Range(raw) =>
           /\ \A i \in 1 .. Len(html) : html[i] = Amp => EntityAt(html, i)
           /\ Shown(html) = raw
=============================================================================
