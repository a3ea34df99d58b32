--------------------------- MODULE MCRequestTarget ---------------------------
(* RequestTarget on every short text, compared with reference definitions. *)
EXTENDS RequestTarget

CONSTANT MaxPattern    \* bound: the length of a glob pattern

VARIABLES
    kind,    \* what the text is: a path, a query, bytes, ...
    text     \* the text

-----------------------------------------------------------------------------
\* The directory ends with the last slash, the file has none, and together they
\* are the path.  A text without a leading slash is a file in "/".
Splits(p, d) ==
    /\ d # << >> => p.full = d
    /\ Last(p.path) = "/"
    /\ \A f \in p.file :
         IF Head(d) = "/" THEN p.path \o f = d /\ f # << >> /\ "/" \notin Range(f)
                          ELSE p.path = <<"/">> /\ f = d
    /\ p.file = {} => p.path = p.full

-----------------------------------------------------------------------------
\* a star stands for any text
RECURSIVE Denotes(_, _)
Denotes(pattern, string) ==
    IF pattern = << >> THEN string = << >>
    ELSE IF Head(pattern) = "*"
    THEN \E i \in 1 .. Len(string) + 1 : Denotes(Tail(pattern), From(string, i))
    ELSE string # << >> /\ Head(pattern) = Head(string) /\ Denotes(Tail(pattern), Tail(string))

Patterns == UNION { [1 .. n -> {"*", "a", "/"}] : n \in 0 .. MaxPattern }

\* The glob match of callbacks and host names, with its early exits, accepts
\* what the pattern denotes.
GlobMatches ==
    kind = "path" => \A pattern \in Patterns : GlobMatch(pattern, text) <=> Denotes(pattern, text)

-----------------------------------------------------------------------------
Cb(type, val, cb) == [type |-> type, val |-> val, cb |-> cb]

Htps == {
    [callbacks |-> << >>, default |-> "d1"],
    [callbacks |-> <<Cb("glob", <<"*", "/">>, "dirs"), Cb("hash", <<"/", "a", "/">>, "a")>>,
     default |-> "d2"],
    [callbacks |-> <<Cb("regex", <<"b">>, "b"), Cb("group", <<"/", "a">>, "opt"),
                     Cb("hash", <<"/">>, "root")>>, default |-> "d3"] }

Matches(cb, path) ==
    \/ cb.type = "hash"  /\ IsPrefix(cb.val, path)
    \/ cb.type = "glob"  /\ Denotes(cb.val, path)
    \/ cb.type \in {"regex", "group"} /\ \E i \in 1 .. Len(path) : IsPrefix(cb.val, From(path, i))

\* the callbacks of htp that match a text, and the first of them
Matching(htp, text1) == { i \in DOMAIN htp.callbacks : Matches(htp.callbacks[i], text1) }
First(htp, text1)    == htp.callbacks[Min(Matching(htp, text1))]

\* what the callbacks of htp give for the path: the callback and the text it
\* matches, the whole path before its directory; nothing if none matches
Choice(htp, path) ==
    CASE Matching(htp, path.full) # {} -> {[cb |-> First(htp, path.full), on |-> path.full]}
      [] Matching(htp, path.full) = {} /\ Matching(htp, path.path) # {} ->
           {[cb |-> First(htp, path.path), on |-> path.path]}
      [] OTHER -> {}

\* the piece of the path a choice matches; of a path that does not begin with a
\* slash, and so not with its directory, as many characters as the directory has
MatchedText(choice, full) ==
    IF choice.cb.type = "regex" THEN choice.cb.val ELSE SubSeq(full, 1, Len(choice.on))

\* The request is told that the piece matched, and what comes behind it.
TellsMatch(r, piece, full) ==
    r.match_start = piece /\ IsSuffix(piece \o r.match_end, full)

\* The same of a request that was told something else before: memcpy writes no
\* end of text, so that what was longer before shows behind what is written.
TellsMatchOver(r, old, piece, full) ==
    \E rest \in { From(full, i) : i \in 1 .. Len(full) + 1 } :
      /\ IsSuffix(piece \o rest, full)
      /\ IsPrefix(piece, r.match_start) /\ IsPrefix(rest, r.match_end)
      /\ Len(old.match_start) <= Len(piece) => r.match_start = piece
      /\ Len(old.match_end) <= Len(rest) => r.match_end = rest

\* A request goes to the callback of its virtual host, by its whole path before
\* its directory; without one to that of the listener; without one to the
\* listener's default.  With the listener's choice the callback is told which
\* piece of the path matched and the rest of the path from there.  When the
\* virtual host has a choice of its own, the two texts begin with its piece and
\* its rest; they are exactly these only if those of the listener's choice were
\* no longer (htp__request_set_callbacks_ copies without ending the text).
\* However the path is split into directory and file, nothing of it is lost.
CallbackChosen ==
    kind = "path" =>
      /\ Splits(PathNew(text), text)
      /\ \A htp, vhost \in Htps :
        LET path   == PathNew(text)
            first  == SetCallbacks(NewRequest, htp, path)
            routed == Routed(htp, vhost, path)
        IN  /\ Choice(htp, path) = {} =>
                 first.cb = {htp.default} /\ TellsMatch(first, path.full, path.full)
            /\ \A c \in Choice(htp, path) :
                 /\ first.cb = {c.cb.cb}
                 /\ IF c.cb.type = "group" THEN first.match_start = << >> /\ first.match_end = << >>
                                           ELSE TellsMatch(first, MatchedText(c, path.full), path.full)
            /\ Choice(vhost, path) = {} => routed = first
            /\ \A c \in Choice(vhost, path) :
                 /\ routed.cb = {c.cb.cb}
                 /\ c.cb.type # "group" => TellsMatchOver(routed, first, MatchedText(c, path.full), path.full)

-----------------------------------------------------------------------------
\* The units of a query: an escape with what belongs to it, or a character.
RECURSIVE Units(_, _)
Units(s, flags) ==
    IF s = << >> THEN << >>
    ELSE LET n == IF Head(s) # "%" \/ "IGNORE_HEX" \in flags THEN 1
                  ELSE IF Len(s) > 1 /\ IsHex(s[2]) THEN 3 ELSE 2
             k == Min({n, Len(s)})
         IN  <<SubSeq(s, 1, k)>> \o Units(From(s, k + 1), flags)

\* the units up to the first one of a set, and those behind it
UpTo(us, S)   == SubSeq(us, 1, Min({ i \in DOMAIN us : us[i] \in S } \cup {Len(us) + 1}) - 1)
Behind(us, S) == From(us, Len(UpTo(us, S)) + 2)

Seps(flags) == {<<"&">>} \cup IF "TREAT_SEMICOLON_AS_SEP" \in flags THEN {<<";">>} ELSE {}

\* a percent sign and no hex digit, so far into a key or value that the parser
\* takes it for the end of its buffer
Tight(us, len) ==
    \E i \in DOMAIN us : /\ Len(us[i]) = 2 /\ ~IsHex(us[i][2])
                         /\ Len(FlattenSeq(SubSeq(us, 1, i - 1))) + 3 >= len

\* an escape that has begun and not ended
Unfinished(us) ==
    us # << >> /\ LET u == Last(us) IN Head(u) = "%" /\ (Len(u) = 1 \/ (Len(u) = 2 /\ IsHex(u[2])))

\* What one argument is: refused, dropped or a key and a value.  The last one is
\* treated differently from the ones that a separator ends.
Argument(us, last, flags, len) ==
    LET keyUnits == UpTo(us, {<<"=">>})
        valUnits == Behind(us, {<<"=">>})
        key    == FlattenSeq(keyUnits)
        val    == FlattenSeq(valUnits)
        equals == \/ Len(keyUnits) < Len(us)
                  \/ last /\ "IGNORE_HEX" \notin flags /\ Unfinished(keyUnits)
        bad    == \/ \E u \in Range(us) : Len(u) = 3 /\ ~IsHex(u[3])
                  \/ Tight(keyUnits, len) \/ Tight(valUnits, len)
                  \/ ~equals /\ (last => key # << >>) /\ "ALLOW_NULL_VALS" \notin flags
                  \/ last /\ equals /\ key # << >> /\ val = << >> /\ "ALLOW_EMPTY_VALS" \notin flags
    IN  [bad |-> bad,
         args |-> IF last /\ key = << >> THEN << >>
                  ELSE <<[key |-> key, val |-> IF equals THEN {val} ELSE {}]>>]

RECURSIVE Arguments(_, _, _)
Arguments(us, flags, len) ==
    LET arg  == UpTo(us, Seps(flags))
        last == Len(arg) = Len(us)
    IN  <<Argument(arg, last, flags, len)>>
        \o IF last THEN << >> ELSE Arguments(Behind(us, Seps(flags)), flags, len)

Strict(s) == LET all == Arguments(Units(s, {}), {}, Len(s)) IN
             IF \E i \in DOMAIN all : all[i].bad THEN {}
             ELSE {FlattenSeq([i \in DOMAIN all |-> all[i].args])}

\* a request whose body is a form, with a length and without a query
Form(body) == [uri |-> [query |-> {}, query_raw |-> << >>, has_query_body |-> FALSE],
               content_len |-> Len(body), buffer_in |-> body, form |-> TRUE]

FormRead(r) ==
    /\ ShouldParseQueryBody(r) = (r.buffer_in # << >>)
    /\ H2ShouldParseQueryBody(r) = (r.buffer_in # << >>)
    /\ QueryFromBody(r).uri.query = Strict(r.buffer_in)
    /\ \A s \in {[r EXCEPT !.buffer_in = << >>], [r EXCEPT !.uri.query = {<< >>}]} :
         ~ShouldParseQueryBody(s) /\ ~H2ShouldParseQueryBody(s)

HexDigit(v, upper) == IF v < 10 THEN 48 + v ELSE (IF upper THEN 65 ELSE 97) + v - 10

Escape(s, positions, upper) ==
    FlattenSeq([i \in DOMAIN s |->
        IF i \in positions THEN <<37, HexDigit(s[i] \div 16, upper), HexDigit(s[i] % 16, upper)>>
                           ELSE <<s[i]>>])

\* For every combination of flags, the arguments of a query are the pieces
\* between separators, cut at the first "=", with an escape never cut; the query
\* is refused as a whole if one of them is; and query and fragment together are
\* the text.  A form body is read the same way without flags, over HTTP/1 and
\* HTTP/2 alike, and a body that was drained or a query in the target leave
\* the request as it is.  Unescaping an argument restores what was escaped,
\* whichever bytes besides the percent sign were, in upper and lower case.
QueryReadsArguments ==
    /\ kind = "bytes" =>
         \A positions \in SUBSET DOMAIN text, upper \in BOOLEAN :
           { i \in DOMAIN text : text[i] = 37 } \subseteq positions
               => Unescape(Escape(text, positions, upper)) = text
    /\ kind = "query" =>
      /\ FormRead(Form(text))
      /\ \A flags \in SUBSET Flags :
        LET u    == UriSetQuery(text, flags)
            all  == Arguments(Units(u.query_raw, flags), flags, Len(u.query_raw))
        IN  /\ u.query = IF \E i \in DOMAIN all : all[i].bad THEN {}
                         ELSE {FlattenSeq([i \in DOMAIN all |-> all[i].args])}
            /\ u.fragment = {} => u.query_raw = text
            /\ \A f \in u.fragment :
                 u.query_raw \o <<"#">> \o f = text /\ "#" \notin Range(u.query_raw)

=============================================================================
