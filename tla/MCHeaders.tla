------------------------------ MODULE MCHeaders ------------------------------
(* Header lists and replies, for every short sequence of calls, compared    *)
(* with reference definitions.                                              *)
EXTENDS MCRequestTarget, H2Headers, Reply

X == <<120>>
Names == {X, Connection, TE, Host}

-----------------------------------------------------------------------------
(* kind "headers": what is done to a list *)

Line(key, val) == [op |-> "line", key |-> key, val |-> val]

ListCalls ==
    { Line(X, <<49>>), Line(<<88>>, << >>), Line(Connection, <<Space, 88, Space, Comma, Comma>>),
      Line(<<67, 110>>, <<116, Tab, Comma, 97>>), Line(TE, Trailers), Line(Host, <<104>>),
      [op |-> "add", key |-> X, val |-> << >>], [op |-> "collapse", key |-> <<88>>],
      [op |-> "remove", key |-> X], [op |-> "copy"] }

RECURSIVE RemoveAll(_, _)
RemoveAll(kvs, key) ==
    IF FindKv(kvs, key) = NULL THEN kvs ELSE RemoveAll(RmAndFree(kvs, FindKv(kvs, key)), key)

\* the list that "copy" adds the pairs to, and that then takes the place of theirs
Target == AddKv(<< >>, KvNew({Static(X)}, {Static(<<51>>)}, FALSE, FALSE))

ListCall(kvs, c) ==
    CASE c.op = "line"     -> ParseHeaderVal(ParseHeaderKey(kvs, c.key), c.val)
      [] c.op = "add"      -> {AddKv(kvs, KvNew({Static(c.key)}, {Static(c.val)}, FALSE, FALSE))}
      [] c.op = "collapse" -> Collapse(kvs, c.key)
      [] c.op = "remove"   -> {RemoveAll(kvs, c.key)}
      [] c.op = "copy"     -> {AddKvs(Target, kvs)}

\* the list after the calls; {} if one of them is undefined
ListAfter(calls) ==
    FoldLeft(LAMBDA lists, c : UNION { ListCall(kvs, c) : kvs \in lists }, {<< >>}, calls)

\* the reference: the name in lower case and the value of every line
PairsCall(pairs, c) ==
    CASE c.op \in {"line", "add"} -> Append(pairs, <<LowerCase(c.key), c.val>>)
      [] c.op = "collapse"        -> pairs
      [] c.op = "remove"          -> SelectSeq(pairs, LAMBDA p : p[1] # LowerCase(c.key))
      [] c.op = "copy"            -> <<<<X, <<51>>>>>> \o pairs

PairsAfter(calls) == FoldLeft(PairsCall, << >>, calls)

\* the values of a name, combined the way RFC 9110 combines field lines
RECURSIVE Combined(_)
Combined(vals) ==
    IF Len(vals) <= 1 THEN FlattenSeq(vals)
    ELSE Head(vals) \o <<Comma, Space>> \o Combined(Tail(vals))

ValuesOf(pairs, name) ==
    LET own == SelectSeq(pairs, LAMBDA p : p[1] = name) IN [i \in DOMAIN own |-> own[i][2]]

PairsOf(kvs) == [i \in DOMAIN kvs |-> <<LowerCase(KeyText(kvs[i])), ValText(kvs[i])>>]

\* A text a pair frees was allocated for it; one it does not free outlives the
\* list, and is no variable of a function that has returned.
Owned(p, heaped) == \A t \in p : IF heaped THEN t.in = "heap" ELSE t.in = "static"
StorageOwned(kvs) ==
    \A i \in DOMAIN kvs : Owned(kvs[i].key, kvs[i].k_heaped) /\ Owned(kvs[i].val, kvs[i].v_heaped)

\* Whatever was parsed, added, removed, copied to another list and (as far as
\* that is defined, which is for empty values) collapsed, in whichever case the
\* names were written: a name has the values that were given to it, in their
\* order, a lookup finds the first of them, and the list owns what it frees.
HeadersKept ==
    kind = "headers" => \A kvs \in ListAfter(text) :
      LET pairs == PairsAfter(text) IN
      /\ StorageOwned(kvs)
      /\ \A name \in Names :
        /\ Len(ValuesOf(pairs, name)) <= MaxResults =>
              Combined(ValuesOf(PairsOf(kvs), name)) = Combined(ValuesOf(pairs, name))
        /\ KvFind(kvs, name) = { ValText(kvs[i]) : i \in { j \in DOMAIN kvs :
              /\ LowerCase(KeyText(kvs[j])) = name
              /\ \A h \in 1 .. j - 1 : LowerCase(KeyText(kvs[h])) # name } }
        /\ CountKv(kvs, name) = Len(ValuesOf(PairsOf(kvs), name))

-----------------------------------------------------------------------------
\* the pieces between commas, without the blanks around them
Pieces(val) ==
    { SubSeq(val, i, j) : <<i, j>> \in { ij \in (1 .. Len(val)) \X (1 .. Len(val)) :
        LET i == ij[1]  j == ij[2] IN
        /\ i <= j /\ ~Blank(val[i]) /\ ~Blank(val[j]) /\ \A k \in i .. j : val[k] # Comma
        /\ \A k \in 1 .. i - 1 : (\A l \in k .. i - 1 : val[l] # Comma) => Blank(val[k])
        /\ \A k \in j + 1 .. Len(val) : (\A l \in j + 1 .. k : val[l] # Comma) => Blank(val[k]) } }

ConnectionSpecific == {Connection, KeepAlive, ProxyConnection, TransferEncoding, Upgrade}

\* A request goes out over HTTP/2 without the fields that belong to one
\* connection: the known ones, what any Connection field names, and TE unless
\* it says trailers.  Host becomes :authority.  Everything else goes out, in
\* order.
H2Forwarded ==
    kind = "headers" => \A kvs \in ListAfter(text) :
      LET nv  == RequestNv([sni |-> {}, peer |-> {X}, port |-> 443], kvs)
          named == UNION { { LowerCase(p) : p \in Pieces(ValText(kvs[i])) } :
                           i \in { j \in DOMAIN kvs : LowerCase(KeyText(kvs[j])) = Connection } }
          Stays(kv) == LET name == LowerCase(KeyText(kv)) IN
                       /\ name \notin ConnectionSpecific \cup {Host}
                       /\ IF name = TE THEN LowerCase(ValText(kv)) = Trailers ELSE name \notin named
      IN  /\ nv.fields = SelectSeq(kvs, Stays)
          /\ nv.authority.host = IF ValuesOf(PairsOf(kvs), Host) = << >> THEN {X}
                                 ELSE {Head(ValuesOf(PairsOf(kvs), Host))}
          /\ ReplyNv(kvs) = SelectSeq(kvs, LAMBDA kv : LowerCase(KeyText(kv)) \notin ConnectionSpecific)

-----------------------------------------------------------------------------
(* kind "calls": a reply of the application *)

\* A version that is not known is one of a request that was answered before its
\* head had been read, so it is not kept alive.
Requests ==
    { q \in [proto : {0, 10, 11}, method : {"GET", "HEAD", "CONNECT"}, code : {200, 204, 404},
             keepalive : BOOLEAN, multipart : BOOLEAN] : q.proto = 0 => ~q.keepalive }

Has(c) == c \in Range(text)

\* what the application may call next
NextCalls ==
    IF Has("start") THEN (IF Has("end") THEN {} ELSE {"body", "end"})
    ELSE IF Has("chunk_start")
    THEN (IF Has("chunk_end") THEN {} ELSE {"chunk", "empty_chunk", "chunk_end"})
    ELSE IF Has("reply") THEN {}
    ELSE {"write", "reply", "start", "chunk_start"} \cup ({"length", "type"} \ Range(text))

Count(c) == Len(SelectSeq(text, LAMBDA d : d = c))

\* long enough for lengths of one digit and of two
PieceSize == 5
Total == PieceSize * (Count("write") + Count("body") + Count("chunk"))

\* the bytes of a body are numbered in the order the application sends them
Piece(i) ==
    LET n == Len(SelectSeq(SubSeq(text, 1, i - 1), LAMBDA d : d \in {"write", "body", "chunk"}))
    IN  [k \in 1 .. PieceSize |-> PieceSize * n + k]

ReplyCall(r, i, code) ==
    LET c == text[i] IN
    CASE c = "write"       -> [r EXCEPT !.buffer_out = @ \o Data(Piece(i))]
      [] c = "length"      -> [r EXCEPT !.headers_out = AddKv(@, Constant(<<67, 108>>, Number(Total)))]
      [] c = "type"        -> [r EXCEPT !.headers_out = AddKv(@, Constant(ContentType, X))]
      [] c = "reply"       -> SendReply(r, code)
      [] c = "start"       -> SendReplyStart(r, code)
      [] c = "body"        -> SendReplyBody(r, Piece(i))
      [] c = "end"         -> SendReplyEnd(r)
      [] c = "chunk_start" -> SendReplyChunkStart(r, code)
      [] c = "chunk"       -> SendReplyChunk(r, Piece(i))
      [] c = "empty_chunk" -> SendReplyChunk(r, << >>)
      [] c = "chunk_end"   -> SendReplyChunkEnd(r)

Replied(q) ==
    FoldLeft(LAMBDA r, i : ReplyCall(r, i, q.code),
             NewReply(q.proto, q.method, q.keepalive, q.multipart), [i \in DOMAIN text |-> i])

\* The peer reads a reply by RFC 9112, section 6.3; {} if it cannot, as an
\* HTTP/1.0 peer cannot read chunks (section 6.1).
IsData(s) == \A i \in DOMAIN s : s[i].is = "data"
Bytes(s) == [i \in DOMAIN s |-> s[i].byte]

RECURSIVE Dechunked(_)
Dechunked(s) ==
    IF s = LastChunk THEN {<< >>}
    ELSE IF s = << >> \/ s[1].is # "size" \/ s[1].n = 0 \/ Len(s) < s[1].n + 2 THEN {}
    ELSE LET n == s[1].n  data == SubSeq(s, 2, n + 1)
         IN  IF ~IsData(data) \/ s[n + 2].is # "crlf" THEN {}
             ELSE { Bytes(data) \o rest : rest \in Dechunked(SubSeq(s, n + 3, Len(s))) }

\* the number a text says
Value(t) == FoldLeft(LAMBDA n, c : 10 * n + (c - 48), 0, t)

Values(head, name) == Range(ValuesOf(PairsOf(head.headers), name))
Persists(head) ==
    IF head.version = 11 THEN Close \notin Values(head, Connection)
                         ELSE Persistent \in Values(head, Connection)

Decoded(out, method) ==
    LET head == Head(out)  rest == Tail(out)
        lengths == Values(head, ContentLength)
        chunked == Values(head, TransferEncoding) # {}
    IN  IF ~NeedsBody(head.code, method) THEN IF rest = << >> THEN {<< >>} ELSE {}
        ELSE IF chunked
        THEN IF lengths = {} /\ head.version = 11 THEN Dechunked(rest) ELSE {}
        ELSE IF ~IsData(rest) \/ (lengths = {} /\ Persists(head)) THEN {}
        ELSE IF \A v \in lengths : Value(v) = Len(rest) THEN {Bytes(rest)} ELSE {}

\* What the application has to see to: no body where the reply has none; the
\* length of the body is given by itself, by chunks, by the buffer, or by the
\* end of the connection; and no chunked reply to an HTTP/1.0 request.
Delimited(q) ==
    LET whole  == ~Has("body") /\ ~Has("chunk")
        chunks == Has("chunk_start") /\ q.proto \in {10, 11}
    IN  IF ~NeedsBody(q.code, q.method) THEN Total = 0
        ELSE IF chunks THEN q.proto = 11
        ELSE \/ Has("length")
             \/ whole /\ Total > 0 /\ ~q.multipart
             \/ whole /\ Total = 0 /\ q.proto = 11
             \/ ~q.keepalive /\ q.proto # 11 /\ (~Has("write") \/ q.multipart)

\* Whichever functions the application replies with, over either version (chunks
\* over HTTP/1.1 only), to whichever method and with whichever code: the peer
\* reads the body the application sent, no byte more or less, and knows whether
\* the connection is kept; and the headers the library adds own what they free.
ReplyDecodes ==
    (kind = "calls" /\ text # << >> /\ Last(text) \in {"reply", "end", "chunk_end"}) =>
      \A q \in Requests : Delimited(q) =>
        LET r == Replied(q) IN
        /\ r.finished
        /\ Decoded(r.out, q.method) = { [i \in 1 .. Total |-> i] }
        /\ Persists(Head(r.out)) = q.keepalive
        /\ StorageOwned(r.headers_out)

\* What the comment at evhtp.c:4593 says of chunked replies to HTTP/1.0 requests,
\* "HTTP/1.0 can be chunked as long as the Content-Length header is set to 0".
\* It does not hold of evhtp_send_reply_chunk_start, which removes the header,
\* and no configuration checks it.
ChunkedTenHasLength ==
    (kind = "calls" /\ Has("chunk_end")) =>
      \A q \in Requests :
        LET head == Head(Replied(q).out)
        IN  q.proto = 10 /\ Values(head, TransferEncoding) # {}
              => Values(head, ContentLength) = {Number(0)}

=============================================================================
