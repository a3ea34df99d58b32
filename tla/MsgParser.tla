------------------------------ MODULE MsgParser ------------------------------
(***************************************************************************)
(* The line-oriented HTTP/1.x message parser of msgparser.c and the caller *)
(* it is written for: bytes arrive in any pieces, htparser_run is called   *)
(* on what has arrived, and what it did not consume is offered again.      *)
(*                                                                         *)
(* A stream is a sequence of symbols.  "CR" and "LF" are themselves, every *)
(* other symbol stands for the characters of a head line, a header field,  *)
(* a chunk size or a byte of body: the parser only ever looks at a symbol  *)
(* as the content of a line, or passes it on.                              *)
(***************************************************************************)
EXTENDS Integers, Sequences

CONSTANTS
    Requests,       \* the streams a client may send
    Responses,      \* the streams a server may send
    MaxLine,        \* config->max_line_length, 0 is unlimited
    MaxHeaders,     \* config->max_header_count, 0 is unlimited
    MaxEmpty,       \* config->max_empty_line_count, 0 is unlimited
    PauseIn,        \* the hooks that may call htparser_pause
    FailIn,         \* the hooks that may return non-zero
    SkipIn          \* the hooks that may call htparser_set_skip_body

ASSUME ParserAssumption ==
    /\ MaxLine \in Nat /\ MaxHeaders \in Nat /\ MaxEmpty \in Nat
    /\ SkipIn \subseteq {"hdrs_complete"}

VARIABLES
    stream,     \* what the peer sends
    fed,        \* how much of it has arrived
    consumed,   \* how much of it earlier runs consumed
    p,          \* the htparser
    run,        \* the call of htparser_run: [on, off]
    ev          \* the hook calls made (history)

vars == <<stream, fed, consumed, p, run, ev>>

-----------------------------------------------------------------------------
(* message_reset and htparser_new_.                                        *)

Reset(type, flags) ==
    [type |-> type, state |-> "START", error |-> "none", body |-> "NONE", chunk |-> "SIZE",
     flags |-> flags, status |-> "none", content_len |-> 0,
     orig_content_len |-> 0, header_count |-> 0, empty_lines |-> 0]

Init ==
    /\ \/ stream \in Requests  /\ p = Reset("request", {})
       \/ stream \in Responses /\ p = Reset("response", {})
    /\ fed = 0 /\ consumed = 0
    /\ run = [on |-> FALSE, off |-> 0]
    /\ ev = << >>

\* htp_type_response, else htp_type_request
Response == p.type = "response"

\* fail
Fail(q, e) == [q EXCEPT !.error = e, !.state = "ERROR"]

\* data + off .. len
Data == SubSeq(stream, consumed + run.off + 1, fed)

(* take_line: the content of the line at the front of d without its line   *)
(* end, the bytes it takes, and whether it is complete (1), not complete   *)
(* yet (0) or too long (-1).                                               *)
FirstLF(d) ==
    CHOOSE i \in 1 .. Len(d) : d[i] = "LF" /\ \A j \in 1 .. i - 1 : d[j] # "LF"

TakeLine(d) ==
    IF \A i \in 1 .. Len(d) : d[i] # "LF"
    THEN [r |-> IF MaxLine > 0 /\ Len(d) > MaxLine THEN -1 ELSE 0,
          line |-> << >>, used |-> 0]
    ELSE LET nl == FirstLF(d)
             n  == IF nl > 1 /\ d[nl - 1] = "CR" THEN nl - 2 ELSE nl - 1
         IN [r |-> IF MaxLine > 0 /\ n > MaxLine THEN -1 ELSE 1,
             line |-> SubSeq(d, 1, n), used |-> nl]

(***************************************************************************)
(* HOOK and DHOOK.  A step calls the hooks hs in this order, q being the   *)
(* parser when the first is called and ok what the step makes of it when   *)
(* none fails.  res says what each does; a hook that returns non-zero      *)
(* fails the message and the ones after it are not called.                 *)
(***************************************************************************)
Results(h) == {"ok"} \cup (IF h.name \in PauseIn THEN {"pause"} ELSE {})
                     \cup (IF h.name \in FailIn THEN {"fail"} ELSE {})

Hook(name, arg) == [name |-> name, arg |-> arg]

CallHooks(hs, q, ok) ==
    \E res \in { f \in [1 .. Len(hs) -> {"ok", "pause", "fail"}] :
                   \A i \in 1 .. Len(hs) : f[i] \in Results(hs[i]) } :
      LET failed(i)  == \E j \in 1 .. i : res[j] = "fail"
          paused(i)  == \E j \in 1 .. i : res[j] = "pause" /\ ~failed(j)
          all        == Len(hs)
          called     == { i \in 1 .. all : ~failed(i - 1) }
          flags(r)   == IF paused(all) THEN [r EXCEPT !.flags = @ \cup {"PAUSED"}] ELSE r
      IN /\ ev' = ev \o [i \in called |->
                           [name |-> hs[i].name, arg |-> hs[i].arg,
                            paused |-> paused(i - 1) \/ (run.on /\ "PAUSED" \in q.flags)]]
         /\ p' = flags(IF failed(all) THEN Fail(q, "user") ELSE ok)

-----------------------------------------------------------------------------
(* The head: request line or status line, and the header fields.           *)

Headers == {"host", "hdr", "cl1", "cl2", "chunked", "gzip", "unknown",
            "close", "keepalive"}
StatusLines == {"r200v11", "r200v10", "r204v11", "r100v11"}

\* Mutant: codings after chunked are accepted.
NoteTransferEncodingAnyOrder(q, coding) ==
    [q EXCEPT !.flags = @ \cup {"HAVE_TE"}
        \cup (IF coding = "chunked" THEN {"CHUNKED"} ELSE {})
        \cup (IF coding = "unknown" THEN {"TE_UNKNOWN"} ELSE {})]

\* note_transfer_encoding
NoteTransferEncoding(q, coding) ==
    [q EXCEPT !.flags = @ \cup {"HAVE_TE"}
        \cup (IF "CHUNKED" \in q.flags THEN {"TE_BAD"} ELSE {})
        \cup (IF coding = "chunked" THEN {"CHUNKED"} ELSE {})
        \cup (IF coding = "unknown" THEN {"TE_UNKNOWN"} ELSE {})]

\* note_content_length
NoteContentLength(q, n) ==
    IF "HAVE_CL" \in q.flags /\ n # q.orig_content_len
    THEN Fail(q, "inval_hdr")
    ELSE [q EXCEPT !.orig_content_len = n, !.flags = @ \cup {"HAVE_CL"}]

\* the switch of parse_header, for a field that is not a trailer
NoteHeader(q, h) ==
    CASE h = "cl1"       -> NoteContentLength(q, 1)
      [] h = "cl2"       -> NoteContentLength(q, 2)
      [] h \in {"chunked", "gzip", "unknown"} -> NoteTransferEncoding(q, h)
      [] h = "close"     -> [q EXCEPT !.flags = @ \cup {"CONN_CLOSE"}]
      [] h = "keepalive" -> [q EXCEPT !.flags = @ \cup {"CONN_KEEP_ALIVE"}]
      [] h = "host"      -> [q EXCEPT !.flags = @ \cup {"HAVE_HOST"}]
      [] OTHER           -> q

HeaderHooks(q, h) ==
    LET key == Hook("hdr_key", h)
        val == Hook("hdr_val", h)
    IN  IF h = "host" /\ "HAVE_HOST" \notin q.flags /\ q.state = "HEADERS"
        THEN <<key, Hook("hostname", h), val>> ELSE <<key, val>>

ParseHeader(q, line) ==
    IF Len(line) # 1 \/ line[1] \notin Headers
    THEN p' = Fail(q, "inval_hdr") /\ UNCHANGED ev
    ELSE LET h     == line[1]
             noted == IF q.state = "TRAILERS" THEN q ELSE NoteHeader(q, h)
         IN  IF noted.state = "ERROR"
             THEN CallHooks(<<Hook("hdr_key", h)>>, q, noted)
             ELSE CallHooks(HeaderHooks(q, h), q, noted)

\* framing
BodyOf(q) ==
    CASE "SKIP_BODY" \in q.flags                      -> "NONE"
      [] Response /\ q.status \in {"r204v11", "r100v11"} -> "NONE"
      [] "HAVE_TE" \in q.flags ->
           CASE "TE_BAD" \in q.flags -> "error"
             [] ~Response /\ \/ "CHUNKED" \notin q.flags
                             \/ "TE_UNKNOWN" \in q.flags
                             \/ "HAVE_CL" \in q.flags -> "error"
             [] "CHUNKED" \in q.flags -> "CHUNKED"
             [] OTHER                 -> "IDENTITY"
      [] "HAVE_CL" \in q.flags ->
           IF q.orig_content_len > 0 THEN "LENGTH" ELSE "NONE"
      [] Response /\ q.status = "r200v10" /\ "CONN_KEEP_ALIVE" \notin q.flags
           -> "IDENTITY"
      [] OTHER -> "NONE"

\* Mutant: the body is framed before on_hdrs_complete and stays so.
EndOfHeadFramedFirst(q) ==
    LET b      == BodyOf(q)
        framed == [q EXCEPT !.body = b, !.chunk = "SIZE",
                            !.content_len = IF b = "LENGTH" THEN q.orig_content_len ELSE 0,
                            !.state = IF b = "NONE" THEN "COMPLETE" ELSE "BODY"]
    IN  IF b = "error" THEN p' = Fail(q, "inval_hdr") /\ UNCHANGED ev
        ELSE \/ CallHooks(<<Hook("hdrs_complete", b)>>, framed, framed)
             \/ /\ "hdrs_complete" \in SkipIn
                /\ CallHooks(<<Hook("set_skip_body", "hdrs_complete"), Hook("hdrs_complete", b)>>,
                             framed, [framed EXCEPT !.flags = @ \cup {"SKIP_BODY"}])

EndOfHead(q) ==
    LET b      == BodyOf(q)
        framed == [q EXCEPT !.body = b, !.chunk = "SIZE",
                            !.content_len = IF b = "LENGTH" THEN q.orig_content_len ELSE 0,
                            !.state = IF b = "NONE" THEN "COMPLETE" ELSE "BODY"]
        skipped == [framed EXCEPT !.flags = @ \cup {"SKIP_BODY"},
                                  !.body = "NONE", !.state = "COMPLETE"]
    IN  IF b = "error" THEN p' = Fail(q, "inval_hdr") /\ UNCHANGED ev
        ELSE \/ CallHooks(<<Hook("hdrs_complete", b)>>, framed, framed)
             \/ /\ "hdrs_complete" \in SkipIn
                /\ CallHooks(<<Hook("set_skip_body", "hdrs_complete"), Hook("hdrs_complete", b)>>,
                             framed, skipped)

\* emit_target: the hooks of origin-form (without and with a query), absolute-form
\* and authority-form, or the error of a target that is no URI or no known scheme
Targets == [req           |-> <<"path", "uri">>,
            req_args      |-> <<"path", "args", "uri">>,
            req_absolute  |-> <<"scheme", "host", "port", "path", "args", "uri">>,
            req_authority |-> <<"host", "port", "path", "uri">>]

TargetErrors == [bad_uri |-> "inval_reqline", bad_scheme |-> "inval_schema"]

\* an unknown method, a missing part and an unknown version are one kind of line
ParseRequestLine(q, line, next) ==
    CASE Len(line) = 1 /\ line[1] \in DOMAIN Targets ->
           LET target == Targets[line[1]]
           IN  CallHooks(<<Hook("method", 0)>>
                         \o [i \in DOMAIN target |-> Hook(target[i], 0)]
                         \o <<Hook("hdrs_begin", 0)>>, next, next)
      [] Len(line) = 1 /\ line[1] \in DOMAIN TargetErrors ->
           CallHooks(<<Hook("method", 0)>>, q, Fail(q, TargetErrors[line[1]]))
      [] OTHER -> p' = Fail(q, "inval_method") /\ UNCHANGED ev

ParseStatusLine(q, line, next) ==
    IF Len(line) = 1 /\ line[1] \in StatusLines
    THEN LET r == [next EXCEPT !.status = line[1]]
         IN  CallHooks(<<Hook("hdrs_begin", 0)>>, r, r)
    ELSE p' = Fail(q, "status") /\ UNCHANGED ev

HeadLine(q, line) ==
    LET next == [q EXCEPT !.state = "HEADERS"]
    IN  IF Response THEN ParseStatusLine(q, line, next) ELSE ParseRequestLine(q, line, next)

-----------------------------------------------------------------------------
(* htparser_run, one turn of its loop (or of parse_head's) per step.       *)

Looping(s) == run.on /\ p.state \in s /\ "PAUSED" \notin p.flags

Take(n) == run' = [run EXCEPT !.off = @ + n]

Out == run' = [run EXCEPT !.on = FALSE]

Kept == UNCHANGED <<stream, fed, consumed>>

\* S_START: skip empty lines, begin on the first byte of a message
SkipEmpty ==
    /\ Looping({"START"}) /\ Data # << >> /\ Head(Data) \in {"CR", "LF"}
    /\ LET counts == Head(Data) = "LF" /\ MaxEmpty > 0
       IN  /\ p' = IF counts /\ p.empty_lines + 1 >= MaxEmpty
                   THEN Fail([p EXCEPT !.empty_lines = @ + 1], "too_big")
                   ELSE [p EXCEPT !.empty_lines = IF counts THEN @ + 1 ELSE @]
    /\ Take(1)
    /\ UNCHANGED ev /\ Kept

Begin ==
    /\ Looping({"START"}) /\ Data # << >> /\ Head(Data) \notin {"CR", "LF"}
    /\ LET q == [Reset(p.type, p.flags \cap {"PAUSED"}) EXCEPT !.state = "HEAD_LINE"]
       IN  CallHooks(<<Hook("msg_begin", 0)>>, q, q)
    /\ UNCHANGED run /\ Kept

\* parse_head: a complete line
ParseHead ==
    /\ Looping({"HEAD_LINE", "HEADERS", "TRAILERS"})
    /\ LET t == TakeLine(Data) IN
       /\ t.r = 1
       /\ Take(t.used)
       /\ CASE p.state = "HEAD_LINE" -> HeadLine(p, t.line)
            [] t.line = << >> /\ p.state = "TRAILERS" ->
                 p' = [p EXCEPT !.state = "COMPLETE"] /\ UNCHANGED ev
            [] t.line = << >> /\ p.state = "HEADERS" -> EndOfHead(p)
            [] t.line # << >> /\ p.state # "HEAD_LINE"
               /\ MaxHeaders > 0 /\ p.header_count >= MaxHeaders ->
                 p' = Fail(p, "too_big") /\ UNCHANGED ev
            [] OTHER -> ParseHeader([p EXCEPT !.header_count = @ + 1], t.line)
    /\ Kept

\* a line longer than allowed, in the head or where a chunk size is expected
LineTooLong ==
    /\ Looping({"HEAD_LINE", "HEADERS", "TRAILERS", "BODY"}) /\ Data # << >>
    /\ p.state = "BODY" => p.body = "CHUNKED" /\ p.chunk = "SIZE"
    /\ TakeLine(Data).r = -1
    /\ p' = Fail(p, "too_big")
    /\ UNCHANGED <<run, ev>> /\ Kept

\* the bytes at the front of the data, as positions in the stream
Bytes(n) == [i \in 1 .. n |-> consumed + run.off + i]

Least(m, n) == IF m < n THEN m ELSE n

\* B_LENGTH and B_IDENTITY
ParseBody ==
    /\ Looping({"BODY"}) /\ p.body \in {"LENGTH", "IDENTITY"} /\ Data # << >>
    /\ LET n    == IF p.body = "LENGTH" THEN Least(Len(Data), p.content_len)
                                        ELSE Len(Data)
           left == IF p.body = "LENGTH" THEN p.content_len - n ELSE 0
       IN  /\ Take(n)
           /\ CallHooks(<<Hook("body", Bytes(n))>>, p,
                        [p EXCEPT !.content_len = left,
                                  !.state = IF p.body = "LENGTH" /\ left = 0
                                            THEN "COMPLETE" ELSE @])
    /\ Kept

\* B_CHUNKED, C_SIZE
SizeOf(s) == CASE s = "s0" -> 0 [] s = "s1" -> 1 [] s = "s2" -> 2

ChunkSize ==
    /\ Looping({"BODY"}) /\ p.body = "CHUNKED" /\ p.chunk = "SIZE"
    /\ LET t == TakeLine(Data) IN
       /\ t.r = 1
       /\ Take(t.used)
       /\ IF Len(t.line) # 1 \/ t.line[1] \notin {"s0", "s1", "s2"}
          THEN p' = Fail(p, "inval_chunk_sz") /\ UNCHANGED ev
          ELSE LET size  == SizeOf(t.line[1])
                   last  == [p EXCEPT !.state = "TRAILERS", !.header_count = 0]
                   chunk == [p EXCEPT !.chunk = "DATA", !.content_len = size,
                                      !.orig_content_len = size]
               IN  IF size = 0
                   THEN CallHooks(<<Hook("chunks_complete", 0)>>, last, last)
                   ELSE CallHooks(<<Hook("new_chunk", size)>>, chunk, chunk)
    /\ Kept

\* C_DATA
ChunkData ==
    /\ Looping({"BODY"}) /\ p.body = "CHUNKED" /\ p.chunk = "DATA" /\ Data # << >>
    /\ LET n == Least(Len(Data), p.content_len)
       IN  /\ Take(n)
           /\ CallHooks(<<Hook("body", Bytes(n))>>, p,
                        [p EXCEPT !.content_len = @ - n,
                                  !.chunk = IF n = p.content_len THEN "DATA_END" ELSE @])
    /\ Kept

\* C_DATA_END
ChunkEnd ==
    /\ Looping({"BODY"}) /\ p.body = "CHUNKED" /\ p.chunk = "DATA_END" /\ Data # << >>
    /\ LET t    == TakeLine(Data)
           next == [p EXCEPT !.chunk = "SIZE"]
       IN  /\ ~(t.r = 0 /\ Len(Data) < 2)
           /\ IF t.r <= 0 \/ t.line # << >>
              THEN p' = Fail(p, "inval_chunk") /\ UNCHANGED <<run, ev>>
              ELSE Take(t.used) /\ CallHooks(<<Hook("chunk_complete", 0)>>, next, next)
    /\ Kept

\* S_COMPLETE: the run ends with the message
Complete ==
    /\ Looping({"COMPLETE"})
    /\ LET q == [p EXCEPT !.state = "START", !.flags = @ \ {"SKIP_BODY"}]
       IN  CallHooks(<<Hook("msg_complete", 0)>>, q, q)
    /\ Out /\ Kept

\* the loop ends: failed, paused, or waiting for more data
NeedsData ==
    \/ p.state # "COMPLETE" /\ Data = << >>
    \/ p.state \in {"HEAD_LINE", "HEADERS", "TRAILERS"} /\ TakeLine(Data).r = 0
    \/ /\ p.state = "BODY" /\ p.body = "CHUNKED" /\ TakeLine(Data).r = 0
       /\ p.chunk = "SIZE" \/ (p.chunk = "DATA_END" /\ Len(Data) < 2)

RunOut ==
    /\ run.on
    /\ p.state = "ERROR" \/ "PAUSED" \in p.flags \/ NeedsData
    /\ Out
    /\ UNCHANGED <<p, ev>> /\ Kept

Loop == \/ SkipEmpty \/ Begin \/ ParseHead \/ LineTooLong \/ ParseBody
        \/ ChunkSize \/ ChunkData \/ ChunkEnd \/ Complete \/ RunOut

-----------------------------------------------------------------------------
(* The caller: it offers what has arrived, drains what a run consumed, and *)
(* resumes a paused parser.                                                *)

Feed ==
    /\ ~run.on /\ fed < Len(stream) /\ p.state # "ERROR"
    /\ \E n \in fed + 1 .. Len(stream) : fed' = n
    /\ UNCHANGED <<stream, consumed, p, run, ev>>

Call(q) ==
    /\ consumed' = consumed + run.off
    /\ run' = [on |-> TRUE, off |-> 0]
    /\ p' = q
    /\ UNCHANGED <<stream, fed>>

\* runs that would find nothing to do are left out
Run ==
    /\ ~run.on /\ p.state # "ERROR" /\ "PAUSED" \notin p.flags /\ ~NeedsData
    /\ Call(p) /\ UNCHANGED ev

\* Mutant: a paused parser is only run again when there are bytes to read.
ResumeWithData ==
    /\ ~run.on /\ "PAUSED" \in p.flags /\ consumed + run.off < fed
    /\ Call([p EXCEPT !.flags = @ \ {"PAUSED"}]) /\ UNCHANGED ev

\* htparser_resume + htparser_run, also with no new data
Resume ==
    /\ ~run.on /\ "PAUSED" \in p.flags
    /\ Call([p EXCEPT !.flags = @ \ {"PAUSED"}]) /\ UNCHANGED ev

\* htparser_set_skip_body before the run that reads the head; evhtp.c does not
\* call it there, and SkipSpec below is the only specification that does
RunSkipping ==
    /\ ~run.on /\ p.state = "START" /\ ~NeedsData
    /\ Call([p EXCEPT !.flags = @ \cup {"SKIP_BODY"}])
    /\ ev' = Append(ev, [name |-> "set_skip_body", arg |-> "before_run", paused |-> FALSE])

\* htparser_run_eof
Eof ==
    /\ ~run.on /\ fed = Len(stream) /\ consumed + run.off = fed
    /\ p.state = "BODY" /\ p.body = "IDENTITY"
    /\ LET q == [p EXCEPT !.state = "START"]
       IN  CallHooks(<<Hook("msg_complete", 0)>>, q, q)
    /\ UNCHANGED <<stream, fed, consumed, run>>

Next == Loop \/ Feed \/ Run \/ Resume \/ Eof

Spec == Init /\ [][Next]_vars

(* A run goes on to its end, all of the stream arrives, the caller runs    *)
(* the parser on it and resumes it, and the peer closes after the stream.  *)
FairSpec ==
    /\ Spec
    /\ WF_vars(Loop) /\ WF_vars(Feed) /\ WF_vars(Run) /\ WF_vars(Resume) /\ WF_vars(Eof)

-----------------------------------------------------------------------------
(* Properties that need no reference.                                      *)

TypeOK ==
    /\ fed \in 0 .. Len(stream) /\ consumed \in 0 .. fed
    /\ run \in [on : BOOLEAN, off : 0 .. fed - consumed]
    /\ p.state \in {"START", "HEAD_LINE", "HEADERS", "BODY", "TRAILERS",
                    "COMPLETE", "ERROR"}
    /\ p.body \in {"NONE", "LENGTH", "CHUNKED", "IDENTITY"}
    /\ p.chunk \in {"SIZE", "DATA", "DATA_END"}
    /\ p.content_len \in 0 .. 2 /\ p.orig_content_len \in 0 .. 2

(* No hook call from the i-th to the end of its message is a body.         *)
NoBodyFrom(i) ==
    \A j \in DOMAIN ev :
      (i < j /\ ev[j].name = "body") => \E k \in i .. j : ev[k].name = "msg_complete"

SkipsBody(e) == e.name = "set_skip_body"

(* What a hook asks of the parser is done: one that pauses it is the last  *)
(* hook of its run (msgparser.c:35, "A hook that calls htparser_pause()    *)
(* stops the run right after it returns"), and once on_hdrs_complete has   *)
(* said that a message has no body, no body hook is called before that     *)
(* message completes, whether or not the hook also pauses.                 *)
HooksObeyed ==
    /\ \A i \in DOMAIN ev : ~ev[i].paused
    /\ \A i \in DOMAIN ev : SkipsBody(ev[i]) => NoBodyFrom(i)

-----------------------------------------------------------------------------
(* The other place for htparser_set_skip_body that the comment at          *)
(* msgparser.c:1198 allows, "(or before the run that reads the head)".     *)

SkipSpec == Init /\ [][Next \/ RunSkipping]_vars

(* What the comment promises there: the message that run reads has no      *)
(* body.  SkipSpec does not satisfy it: message_reset (msgparser.c:1032)   *)
(* clears the flag when the run meets the first byte of the message.       *)
SkipBeforeRun ==
    \A i \in DOMAIN ev :
      SkipsBody(ev[i]) /\ ev[i].arg = "before_run" => NoBodyFrom(i)

=============================================================================
