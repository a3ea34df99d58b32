-------------------------------- MODULE Reply --------------------------------
(***************************************************************************)
(* How evhtp.c puts a reply on the wire over HTTP/1: evhtp_send_reply, the *)
(* replies in pieces (evhtp_send_reply_start, _body, _end) and in chunks   *)
(* (evhtp_send_reply_chunk_start, _chunk, _chunk_end), which all write     *)
(* their head with htp__create_reply_.                                     *)
(*                                                                         *)
(* A reply is a record r: the fields of the request the functions read or  *)
(* write, and out, what went to the output of the connection.  The output  *)
(* is a sequence of heads, lines with a chunk size, line ends and bytes of *)
(* data; so is buffer_out, before the head is written.                     *)
(***************************************************************************)
EXTENDS KvList

\* evhtp_modp_sizetoa: the digits come out last first and are then reversed
Digits[n \in Nat] == IF n < 10 THEN <<48 + n>> ELSE <<48 + (n % 10)>> \o Digits[n \div 10]
Number(n) == Reverse(Digits[n])

\* the other values, as the first letter of the word
Chunked    == <<99>>                \* "chunked"
Close      == <<108>>               \* "close"
Persistent == <<107>>               \* "keep-alive"
TextPlain  == <<116>>               \* "text/plain"

Data(s)      == [i \in DOMAIN s |-> [is |-> "data", byte |-> s[i]]]
SizeLine(n)  == <<[is |-> "size", n |-> n]>>
LineEnd      == <<[is |-> "crlf"]>>
LastChunk    == <<[is |-> "size", n |-> 0], [is |-> "crlf"]>>

\* the request at the time its callback is called
NewReply(proto, method, keepalive, multipart) ==
    [proto |-> proto, method |-> method, keepalive |-> keepalive, multipart |-> multipart,
     chunked |-> FALSE, finished |-> FALSE, headers_out |-> << >>, buffer_out |-> << >>,
     out |-> << >>]

-----------------------------------------------------------------------------
(* htp__create_reply_ *)

\* the length of the body that is there, unless the application has set one
WithLength(r) ==
    IF /\ ~r.multipart /\ r.buffer_out # << >> /\ ~r.chunked
       /\ KvFind(r.headers_out, ContentLength) = NULL
    THEN [r EXCEPT !.headers_out = AddKv(@, KvNew({Static(ContentLength)},
                                                  {Local(Number(Len(r.buffer_out)))}, FALSE, TRUE))]
    ELSE r

Constant(name, value) == KvNew({Static(name)}, {Static(value)}, FALSE, FALSE)

\* the headers the version calls for
WithConnection(r) ==
    LET close  == IF r.keepalive THEN << >> ELSE <<Constant(Connection, Close)>>
        empty  == IF r.chunked \/ KvFind(r.headers_out, ContentLength) # NULL THEN << >>
                  ELSE <<Constant(ContentLength, Number(0))>>
        keeps  == IF r.keepalive THEN <<Constant(Connection, Persistent)>> ELSE << >>
    IN  [r EXCEPT !.headers_out =
            @ \o (CASE r.proto = 11 -> close \o empty [] r.proto = 10 -> keeps [] OTHER -> << >>)]

WithType(r, content_type) ==
    IF content_type # NULL THEN r
    ELSE [r EXCEPT !.headers_out = AddKv(@, Constant(ContentType, TextPlain))]

\* The status line has the version of the request; a version that is not known
\* is answered as 1.0.
CreateReply(r, code) ==
    LET full == WithType(WithConnection(WithLength(r)), KvFind(r.headers_out, ContentType))
        head == [is |-> "head", code |-> code, version |-> IF r.proto = 11 THEN 11 ELSE 10,
                 headers |-> full.headers_out]
    IN  [full EXCEPT !.out = @ \o <<head>> \o r.buffer_out, !.buffer_out = << >>]

-----------------------------------------------------------------------------
(* The replies *)

SendReplyStart(r, code) == CreateReply(r, code)
SendReplyBody(r, buf)   == [r EXCEPT !.out = @ \o Data(buf)]
SendReplyEnd(r)         == [r EXCEPT !.finished = TRUE]

SendReply(r, code) == CreateReply([r EXCEPT !.finished = TRUE], code)

\* evhtp_response_needs_body
NeedsBody(code, method) ==
    /\ code \notin {204, 304} /\ code \notin 100 .. 199
    /\ method # "HEAD" /\ (method = "CONNECT" => code # 200)

\* a chunked reply has no length
Unlengthed(r) == [r EXCEPT !.headers_out = RmAndFree(@, FindKv(@, ContentLength))]

\* data that is already in the output buffer becomes the first chunk
FirstChunk(r) ==
    [r EXCEPT !.buffer_out = IF @ = << >> THEN @ ELSE SizeLine(Len(@)) \o @ \o LineEnd]

SendReplyChunkStart(r, code) ==
    IF NeedsBody(code, r.method) /\ r.proto \in {10, 11}
    THEN LET marked == [Unlengthed(r) EXCEPT
                          !.chunked = TRUE,
                          !.headers_out = AddKv(@, Constant(TransferEncoding, Chunked))]
         IN  SendReplyStart(FirstChunk(marked), code)
    ELSE SendReplyStart([r EXCEPT !.chunked = FALSE], code)

\* Mutant: an empty buffer is sent as a chunk.
SendReplyChunkEmpty(r, buf) ==
    IF r.chunked THEN [r EXCEPT !.out = @ \o SizeLine(Len(buf)) \o Data(buf) \o LineEnd]
    ELSE SendReplyBody(r, buf)

SendReplyChunk(r, buf) ==
    IF buf = << >> THEN r
    ELSE IF r.chunked THEN [r EXCEPT !.out = @ \o SizeLine(Len(buf)) \o Data(buf) \o LineEnd]
    ELSE SendReplyBody(r, buf)

SendReplyChunkEnd(r) ==
    SendReplyEnd(IF r.chunked THEN [r EXCEPT !.out = @ \o LastChunk] ELSE r)
=============================================================================
