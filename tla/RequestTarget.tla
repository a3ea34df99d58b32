---------------------------- MODULE RequestTarget ----------------------------
(***************************************************************************)
(* The pure algorithms of evhtp.c on the target of a request: the split of *)
(* a path into directory and file, the glob match, the lookup of a         *)
(* callback, the query string with its flags and fragment, and unescaping. *)
(*                                                                         *)
(* A text is a sequence of characters.  A character is a string of length  *)
(* one, in unescaping a byte.  A pointer that may be NULL is a set: {} is  *)
(* NULL, {t} points to t.                                                  *)
(***************************************************************************)
EXTENDS Integers, SequencesExt

From(s, i) == SubSeq(s, i, Len(s))

-----------------------------------------------------------------------------
(* htp__path_new_ *)

\* where the file of a path that does not end in a slash starts
FileStart(d) == Max({1} \cup { i \in 2 .. Len(d) : d[i] = "/" }) + 1

\* An absolute path is cut behind its last slash; a text without a leading
\* slash is a file in "/".
PathNew(d) ==
    IF d = << >> THEN [full |-> <<"/">>, path |-> <<"/">>, file |-> {}]
    ELSE IF Head(d) # "/" THEN [full |-> d, path |-> <<"/">>, file |-> {d}]
    ELSE IF Last(d) = "/" THEN [full |-> d, path |-> d, file |-> {}]
    ELSE [full |-> d, path |-> SubSeq(d, 1, FileStart(d) - 1), file |-> {From(d, FileStart(d))}]

-----------------------------------------------------------------------------
(* htp__glob_match_ *)

\* the pattern behind the stars it begins with
RECURSIVE SkipStars(_)
SkipStars(pattern) ==
    IF pattern # << >> /\ Head(pattern) = "*" THEN SkipStars(Tail(pattern)) ELSE pattern

\* Mutant: a string that has ended leaves no star over.
OnlyStarsNone(pattern) == pattern = << >>

\* what may be left of the pattern when the string has ended
OnlyStars(pattern) == SkipStars(pattern) = << >>

\* A star is tried on every suffix of the string but the empty one.
RECURSIVE GlobMatch(_, _)
GlobMatch(pattern, string) ==
    IF pattern = << >> THEN string = << >>
    ELSE IF Head(pattern) = "*"
    THEN \/ SkipStars(pattern) = << >>
         \/ \E i \in 1 .. Len(string) : GlobMatch(SkipStars(pattern), From(string, i))
    ELSE /\ string # << >> /\ Head(pattern) = Head(string)
         /\ IF Len(string) = 1 THEN OnlyStars(Tail(pattern))
                               ELSE GlobMatch(Tail(pattern), Tail(string))

-----------------------------------------------------------------------------
(* htp__callback_find_ and htp__request_set_callbacks_.  A callback is     *)
(* [type, val, cb]; a regular expression is a word, whose first occurrence *)
(* regexec finds, and in a "group" one its last subexpression takes no     *)
(* part in the match, for which regexec answers -1.                        *)

\* where the word occurs first: the offsets of its start and its end
RegexSpan(word, path) ==
    LET at == { i \in 0 .. Len(path) - Len(word) :
                  SubSeq(path, i + 1, i + Len(word)) = word }
    IN  IF at = {} THEN {} ELSE {<<Min(at), Min(at) + Len(word)>>}

\* the offsets of a subexpression that takes no part: UINT_MAX
NotPos == <<-1, -1>>

\* the offsets of what a callback matches, if it does
Span(cb, path) ==
    CASE cb.type = "hash"  -> IF IsPrefix(cb.val, path) THEN {<<0, Len(path)>>} ELSE {}
      [] cb.type = "regex" -> RegexSpan(cb.val, path)
      [] cb.type = "group" -> { NotPos : s \in RegexSpan(cb.val, path) }
      [] cb.type = "glob"  -> IF GlobMatch(cb.val, path) THEN {<<0, Len(path)>>} ELSE {}

\* the first callback of the list that matches, and what it matches
CallbackFind(cbs, path) ==
    LET found == { i \in DOMAIN cbs : Span(cbs[i], path) # {} }
    IN  IF found = {} THEN {}
        ELSE LET i == Min(found) IN { [cb |-> cbs[i].cb, span |-> s] : s \in Span(cbs[i], path) }

\* memcpy to the start of a buffer that may hold a longer text
Memcpy(old, new) == new \o From(old, Len(new) + 1)

\* match_start and match_end of a path from the offsets of the match, if it has any
Matched(r, full, span) ==
    LET soff == span[1]
        eoff == span[2]
    IN  IF span = NotPos THEN [r EXCEPT !.span = span] ELSE
        [r EXCEPT !.span = span,
                  !.match_start = Memcpy(@, IF eoff > soff THEN SubSeq(full, soff + 1, eoff)
                                                           ELSE From(full, soff + 1)),
                  !.match_end = Memcpy(@, From(full, eoff + 1))]

\* a request before its path was parsed
NewRequest == [cb |-> {}, span |-> <<0, 0>>, match_start |-> << >>, match_end |-> << >>]

\* Mutant: the directory is looked up before the whole path.
LookupPathFirst(cbs, path) ==
    LET found == CallbackFind(cbs, path.path)
    IN  IF found # {} THEN found ELSE CallbackFind(cbs, path.full)

\* by the whole path, or else by the directory
Lookup(cbs, path) ==
    LET found == CallbackFind(cbs, path.full)
    IN  IF found # {} THEN found ELSE CallbackFind(cbs, path.path)

\* The callback that is found, else the one the request has, else the default.
SetCallbacks(r, htp, path) ==
    LET found == Lookup(htp.callbacks, path)
        f     == CHOOSE x \in found : TRUE
    IN  IF found # {} THEN [Matched(r, path.full, f.span) EXCEPT !.cb = {f.cb}]
        ELSE IF r.cb # {} THEN Matched(r, path.full, r.span)
        ELSE [Matched(r, path.full, <<0, Len(path.full)>>) EXCEPT !.cb = {htp.default}]

\* The callbacks of the listener at the end of the path, those of the virtual
\* host at the Host header.
Routed(htp, vhost, path) == SetCallbacks(SetCallbacks(NewRequest, htp, path), vhost, path)

-----------------------------------------------------------------------------
(* evhtp_parse_query_wflags and htp__uri_set_query_.  The flags are a      *)
(* subset of Flags.                                                        *)

Flags == {"IGNORE_HEX", "ALLOW_EMPTY_VALS", "ALLOW_NULL_VALS",
          "TREAT_SEMICOLON_AS_SEP", "IGNORE_FRAGMENTS"}

\* evhtp_is_hex_query_char, on the characters of the texts that are parsed
IsHex(ch) == ch \in {"a", "0"}

NewQuery == [state |-> "key", key |-> << >>, val |-> << >>, args |-> << >>, error |-> FALSE]

\* evhtp_kvs_add_kv, and on to the next key
Added(q, val) ==
    [q EXCEPT !.state = "key", !.key = << >>, !.val = << >>,
              !.args = Append(@, [key |-> q.key, val |-> val])]

Refused(q) == [q EXCEPT !.error = TRUE]

IsSep(ch, flags) == ch = "&" \/ (ch = ";" /\ "TREAT_SEMICOLON_AS_SEP" \in flags)

\* s_query_start, s_query_key
KeyChar(q, ch, flags) ==
    CASE ch = "=" -> [q EXCEPT !.state = "val"]
      [] ch = "%" -> [q EXCEPT !.key = Append(@, ch),
                               !.state = IF "IGNORE_HEX" \in flags THEN @ ELSE "key_hex_1"]
      [] IsSep(ch, flags) -> IF "ALLOW_NULL_VALS" \in flags THEN Added(q, {}) ELSE Refused(q)
      [] OTHER -> [q EXCEPT !.key = Append(@, ch)]

\* s_query_val.  Mutant: a second "=" ends the value.
ValCharNoEquals(q, ch, flags) ==
    CASE IsSep(ch, flags) \/ ch = "=" -> Added(q, {q.val})
      [] ch = "%" -> [q EXCEPT !.val = Append(@, ch),
                               !.state = IF "IGNORE_HEX" \in flags THEN @ ELSE "val_hex_1"]
      [] OTHER -> [q EXCEPT !.val = Append(@, ch)]

\* s_query_val
ValChar(q, ch, flags) ==
    CASE IsSep(ch, flags) -> Added(q, {q.val})
      [] ch = "%" -> [q EXCEPT !.val = Append(@, ch),
                               !.state = IF "IGNORE_HEX" \in flags THEN @ ELSE "val_hex_1"]
      [] OTHER -> [q EXCEPT !.val = Append(@, ch)]

\* The hex states of a key and of a value.  What is not hex behind a percent
\* sign is taken as it is, if the text is long enough.
KeyHex(q, ch, len) ==
    CASE q.state = "key_hex_1" /\ IsHex(ch) -> [q EXCEPT !.key = Append(@, ch), !.state = "key_hex_2"]
      [] q.state = "key_hex_1" /\ ~IsHex(ch) ->
           IF Len(q.key) + 2 >= len THEN Refused(q)
                                    ELSE [q EXCEPT !.key = Append(@, ch), !.state = "key"]
      [] q.state = "key_hex_2" ->
           IF IsHex(ch) THEN [q EXCEPT !.key = Append(@, ch), !.state = "key"] ELSE Refused(q)

ValHex(q, ch, len) ==
    CASE q.state = "val_hex_1" /\ IsHex(ch) -> [q EXCEPT !.val = Append(@, ch), !.state = "val_hex_2"]
      [] q.state = "val_hex_1" /\ ~IsHex(ch) ->
           IF Len(q.val) + 2 >= len THEN Refused(q)
                                    ELSE [q EXCEPT !.val = Append(@, ch), !.state = "val"]
      [] q.state = "val_hex_2" ->
           IF IsHex(ch) THEN [q EXCEPT !.val = Append(@, ch), !.state = "val"] ELSE Refused(q)

\* one turn of the loop
QueryChar(q, ch, flags, len) ==
    IF q.error THEN q
    ELSE CASE q.state = "key" -> KeyChar(q, ch, flags)
           [] q.state = "val" -> ValChar(q, ch, flags)
           [] q.state \in {"key_hex_1", "key_hex_2"} -> KeyHex(q, ch, len)
           [] q.state \in {"val_hex_1", "val_hex_2"} -> ValHex(q, ch, len)

\* What follows the loop.  Every state but the one of plain key characters
\* counts as the state of a value (state >= s_query_val).
QueryEnd(q, flags) ==
    IF q.error \/ q.key = << >> THEN q
    ELSE IF q.val # << >> THEN Added(q, {q.val})
    ELSE IF q.state # "key"
    THEN IF "ALLOW_EMPTY_VALS" \in flags THEN Added(q, {<< >>}) ELSE Refused(q)
    ELSE IF "ALLOW_NULL_VALS" \in flags THEN Added(q, {}) ELSE Refused(q)

\* The arguments of a query, or NULL.
ParseQuery(query, flags) ==
    LET q == QueryEnd(FoldLeft(LAMBDA r, ch : QueryChar(r, ch, flags, Len(query)),
                               NewQuery, query), flags)
    IN  IF q.error THEN {} ELSE {q.args}

\* The fragment is cut off at the first "#" unless the flags say to keep it.
UriSetQuery(data, flags) ==
    LET at == IF "IGNORE_FRAGMENTS" \in flags THEN {} ELSE { i \in DOMAIN data : data[i] = "#" }
        raw == IF at = {} THEN data ELSE SubSeq(data, 1, Min(at) - 1)
    IN  [fragment |-> IF at = {} THEN {} ELSE {From(data, Min(at) + 1)},
         query |-> ParseQuery(raw, flags), query_raw |-> raw]

-----------------------------------------------------------------------------
(* The body of a form as the query, at the end of a request *)

\* htp__should_parse_query_body_; content_len is what Content-Length says, zero
\* for a chunked body
ShouldParseQueryBody(r) ==
    /\ r.uri.query = {} /\ r.content_len # 0 /\ r.content_len = Len(r.buffer_in)
    /\ r.form

\* htp__h2_should_parse_query_body_
H2ShouldParseQueryBody(r) == r.uri.query = {} /\ r.buffer_in # << >> /\ r.form

\* htp__request_query_from_body_
QueryFromBody(r) ==
    [r EXCEPT !.uri.query = ParseQuery(r.buffer_in, {}), !.uri.query_raw = r.buffer_in,
              !.uri.has_query_body = TRUE]

-----------------------------------------------------------------------------
(* evhtp_unescape_string, on bytes *)

\* the value of a hex digit: '0' .. '9', and ch | 0x20 in 'a' .. 'f'
Digit(ch) ==
    LET lower == IF (ch \div 32) % 2 = 1 THEN ch ELSE ch + 32
    IN  CASE ch \in 48 .. 57 -> {ch - 48}
          [] ch \notin 48 .. 57 /\ lower \in 97 .. 102 -> {lower - 97 + 10}
          [] OTHER -> {}

\* A second digit writes the byte; anything else is dropped with the escape.
UnescapeHex2(u, ch) ==
    [u EXCEPT !.state = "start", !.out = @ \o SetToSeq({ (u.d * 16 + v) % 256 : v \in Digit(ch) })]

\* one turn of the loop
UnescapeChar(u, ch) ==
    CASE u.state = "start" -> IF ch = 37 THEN [u EXCEPT !.state = "hex1"]
                                         ELSE [u EXCEPT !.out = Append(@, ch)]
      [] u.state = "hex1"  -> IF Digit(ch) = {}
                              THEN [u EXCEPT !.state = "start", !.out = Append(@, ch)]
                              ELSE [u EXCEPT !.state = "hex2", !.d = CHOOSE v \in Digit(ch) : TRUE]
      [] u.state = "hex2"  -> UnescapeHex2(u, ch)

Unescape(str) == FoldLeft(UnescapeChar, [state |-> "start", d |-> 0, out |-> << >>], str).out

=============================================================================
