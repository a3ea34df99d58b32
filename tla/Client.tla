------------------------------- MODULE Client -------------------------------
(***************************************************************************)
(* A client connection of evhtp.c: evhtp_connection_new and its TLS        *)
(* variant, evhtp_make_request over HTTP/1 and HTTP/2, the callbacks of    *)
(* the bufferevent and of nghttp2 as far as a client takes them, and the   *)
(* end of requests and connection.                                         *)
(*                                                                         *)
(* Over HTTP/1 the connection has one request at a time, in c->request;    *)
(* over HTTP/2 (chosen by ALPN in the TLS handshake) those in c->pending,  *)
(* a list whose order nothing depends on, so a set here; each has a stream *)
(* whose user data points to it.  A response is a head and units of body;  *)
(* a unit is named after the request it answers and its number.  The       *)
(* server answers what it was asked, over HTTP/1 in order, and may send an *)
(* interim response (1xx), reset a stream, refuse streams with GOAWAY or   *)
(* close.                                                                  *)
(*                                                                         *)
(* The application makes its requests when the connection is established,  *)
(* without TLS also before; over HTTP/1 after it has freed the one before. *)
(* It frees a request in the callback, when nothing of it is left to send, *)
(* or later, over HTTP/2 also before the response has come.  It ignores    *)
(* the callback of an interim response, and leaves alone a request that    *)
(* could not be made.                                                      *)
(***************************************************************************)
EXTENDS Integers, Sequences

CONSTANTS
    NumRequests,   \* bound: how many requests are made
    MaxUnits,      \* bound: the units of body of a response
    Methods,       \* the methods: "HEAD", and others
    HookResults    \* what the hooks return: "OK", "ERROR"

ASSUME ClientAssumption == NumRequests \in Nat /\ MaxUnits \in Nat

Requests == 1 .. NumRequests

VARIABLES
    conn,     \* the evhtp_connection_t and its bufferevent
    req,      \* the evhtp_request_t's, and their streams over HTTP/2
    parser,   \* HTTP/1: units of body left to read; -1 between two messages
    asked,    \* HTTP/1: the requests the server has not answered
    answer    \* history: what the server has sent in answer to a request

vars == <<conn, req, parser, asked, answer>>

UntilEof == -2     \* units left of a body that ends with the connection
Between  == -1

NoRequest == [state |-> "none", method |-> "", in |-> << >>, cbs |-> 0, told |-> FALSE,
              user |-> FALSE, stream |-> "idle", upload |-> FALSE]
NoAnswer  == [head |-> FALSE, interim |-> FALSE, units |-> 0, sent |-> << >>, ended |-> FALSE]

\* evhtp_connection_new_dns, evhtp_connection_ssl_new_dns: connecting
Init ==
    /\ \E tls \in BOOLEAN :
         conn = [state |-> "connecting", tls |-> tls, h2 |-> FALSE, request |-> {},
                 pending |-> {}, output |-> FALSE, goaway |-> FALSE]
    /\ req = [r \in Requests |-> NoRequest]
    /\ parser = Between
    /\ asked = << >>
    /\ answer = [r \in Requests |-> NoAnswer]

Up == conn.state = "up"
Live(r) == req[r].state = "live"

-----------------------------------------------------------------------------
(* The end of requests and connection *)

\* Mutant: a request stays in the list.
UnpendKept(pending, r) == pending

\* TAILQ_REMOVE(&conn->pending, request, next)
Unpend(pending, r) == pending \ {r}

\* htp__request_free_, on the connection and on the request
Without(c, r) == [c EXCEPT !.request = @ \ {r}, !.pending = Unpend(@, r)]
RequestFree(q) == [q EXCEPT !.state = "freed", !.user = FALSE]

\* the requests the connection knows
Known == conn.request \cup conn.pending

\* htp__hook_error_ for each, then evhtp_connection_free
Told(S)   == [r \in Requests |-> IF r \in S THEN [req[r] EXCEPT !.told = TRUE] ELSE req[r]]
ConnectionFree(rs) ==
    /\ conn' = [conn EXCEPT !.state = "freed", !.request = {}, !.pending = {}]
    /\ req' = [r \in Requests |-> IF r \in Known THEN [RequestFree(rs[r]) EXCEPT !.upload = FALSE]
                                                  ELSE rs[r]]

-----------------------------------------------------------------------------
(* The application *)

\* evhtp_h2_make_request.  nghttp2 sends no request behind a GOAWAY and closes its
\* stream (external).  When it does not take the request at all (-1), that is in
\* no list and has no stream; htp__request_free_ is not made for such a request.
H2MakeRequest(r, method, upload) ==
    LET sent == ~conn.goaway IN
    \/ /\ req' = [req EXCEPT ![r] = [@ EXCEPT !.state = "live", !.method = method, !.user = sent,
                                              !.upload = upload /\ sent,
                                              !.stream = IF sent THEN "open" ELSE "reset"]]
       /\ conn' = [conn EXCEPT !.pending = @ \cup {r}, !.output = @ \/ sent]
    \/ /\ req' = [req EXCEPT ![r] = [@ EXCEPT !.state = "unsent", !.method = method]]
       /\ UNCHANGED conn

\* evhtp_make_request
MakeRequest(r, method, upload) ==
    /\ conn.state # "freed" /\ (conn.tls => Up)
    /\ req[r].state = "none" /\ \A q \in 1 .. r - 1 : req[q].state # "none"
    /\ conn.h2 \/ conn.request = {}
    /\ upload => conn.h2 /\ method # "HEAD"
    /\ IF conn.h2 THEN H2MakeRequest(r, method, upload) /\ UNCHANGED asked
       ELSE /\ req' = [req EXCEPT ![r] = [@ EXCEPT !.state = "live", !.method = method]]
            /\ conn' = [conn EXCEPT !.request = {r}, !.output = TRUE]
            /\ asked' = Append(asked, r)
    /\ UNCHANGED <<parser, answer>>

\* evhtp_request_free outside a callback
FreeRequest(r) ==
    /\ conn.state # "freed" /\ Live(r) /\ ~req[r].upload
    /\ ~conn.h2 => req[r].cbs > 0
    /\ conn' = Without(conn, r)
    /\ req' = [req EXCEPT ![r] = RequestFree(@)]
    /\ UNCHANGED <<parser, asked, answer>>

\* evhtp_connection_free outside a callback
FreeConnection ==
    /\ conn.state # "freed"
    /\ ConnectionFree(req)
    /\ UNCHANGED <<parser, asked, answer>>

\* the request callback: the application keeps the request or frees it
Callback(c, rs, r, frees) ==
    LET called == [rs EXCEPT ![r].cbs = @ + 1] IN
    /\ frees => ~rs[r].upload
    /\ conn' = IF frees THEN Without(c, r) ELSE c
    /\ req' = IF frees THEN [called EXCEPT ![r] = RequestFree(@)] ELSE called

-----------------------------------------------------------------------------
(* The bufferevent *)

\* htp__connection_eventcb_ with BEV_EVENT_CONNECTED, and with TLS before it
\* htp__ssl_info_cb_ and evhtp_h2_conn_ctx_new, which sends SETTINGS
Connected(h2) ==
    /\ conn.state = "connecting" /\ (h2 => conn.tls)
    /\ conn' = [conn EXCEPT !.state = "up", !.h2 = h2, !.output = @ \/ h2]
    /\ UNCHANGED <<req, parser, asked, answer>>

\* the output has been written: htp__connection_writecb_
Written ==
    /\ Up /\ conn.output
    /\ IF ~conn.h2 /\ conn.request = {} THEN ConnectionFree(req)
       ELSE conn' = [conn EXCEPT !.output = FALSE] /\ UNCHANGED req
    /\ UNCHANGED <<parser, asked, answer>>

\* htp__connection_eventcb_ with an error, a timeout or the end of the input
\* before its time; every request is told, and then freed
SocketError ==
    /\ conn.state # "freed"
    /\ ConnectionFree(Told(Known))
    /\ UNCHANGED <<parser, asked, answer>>

-----------------------------------------------------------------------------
(* HTTP/1: htp__connection_readcb_ and the hooks of the parser, which all  *)
(* work on c->request.  Nothing is read for a request that was freed.      *)

Answered == Head(asked)
Reads == Up /\ ~conn.h2 /\ asked # << >> /\ conn.request # {}
Current == CHOOSE r \in conn.request : TRUE

\* a hook fails: the parser stops, the request is told and all is freed
ReadFails == "ERROR" \in HookResults /\ ConnectionFree(Told(conn.request)) /\ UNCHANGED <<parser, asked>>

\* htp__request_parse_fini_
Complete(rs, frees) ==
    /\ Callback(conn, rs, Current, frees)
    /\ parser' = Between
    /\ asked' = Tail(asked)

\* An interim response is a message of its own, with a callback of its own.
RecvInterim ==
    /\ Reads /\ parser = Between /\ ~answer[Answered].head /\ ~answer[Answered].interim
    /\ answer' = [answer EXCEPT ![Answered].interim = TRUE]
    /\ ReadFails \/ UNCHANGED <<conn, req, parser, asked>>

\* Mutant: the response to HEAD is read like any other.
SkipBodyNever(r) == FALSE

\* htp__request_parse_headers_: the response to HEAD has no body whatever its
\* head says
SkipBody(r) == req[r].method = "HEAD"

\* A head that says how many units follow; the server sends none after HEAD.
RecvHead(units, frees) ==
    /\ Reads /\ parser = Between /\ ~answer[Answered].head
    /\ answer' = [answer EXCEPT ![Answered] = [@ EXCEPT
                    !.head = TRUE, !.units = IF req[Answered].method = "HEAD" THEN 0 ELSE units,
                    !.ended = units = 0 \/ req[Answered].method = "HEAD"]]
    /\ \/ ReadFails
       \/ IF units = 0 \/ SkipBody(Current) THEN Complete(req, frees)
          ELSE parser' = units /\ UNCHANGED <<conn, req, asked>>

NextUnit(r) == <<r, Len(answer[r].sent) + 1>>
MayBody(r)  == answer[r].head /\ ~answer[r].ended /\ Len(answer[r].sent) < answer[r].units

\* htp__request_parse_body_
RecvBody(frees) ==
    /\ Reads /\ parser # Between /\ MayBody(Answered)
    /\ LET u     == NextUnit(Answered)
           taken == [req EXCEPT ![Current].in = Append(@, u)]
           last  == parser # UntilEof /\ u[2] = answer[Answered].units
       IN  /\ answer' = [answer EXCEPT ![Answered].sent = Append(@, u), ![Answered].ended = last]
           /\ \/ ReadFails
              \/ IF parser = 1 THEN Complete(taken, frees)
                 ELSE /\ parser' = IF parser = UntilEof THEN parser ELSE parser - 1
                      /\ req' = taken
                      /\ UNCHANGED <<conn, asked>>

\* A head without a length: the body ends with the connection.
RecvHeadUntilEof ==
    /\ Reads /\ parser = Between /\ ~answer[Answered].head /\ ~SkipBody(Current)
    /\ answer' = [answer EXCEPT ![Answered].head = TRUE, ![Answered].units = MaxUnits]
    /\ ReadFails \/ (parser' = UntilEof /\ UNCHANGED <<conn, req, asked>>)

\* htp__connection_eventcb_ at the end of such a body: htparser_run_eof
\* completes the response, and the connection is freed.  Its request is told of
\* the end unless the callback has freed it.
RecvEof(frees) ==
    /\ Reads /\ parser = UntilEof
    /\ answer' = [answer EXCEPT ![Answered].ended = TRUE]
    /\ ConnectionFree([Told(IF frees THEN {} ELSE {Current}) EXCEPT ![Current].cbs = @ + 1])
    /\ parser' = Between /\ asked' = Tail(asked)

-----------------------------------------------------------------------------
(* HTTP/2: htp__h2_connection_readcb_ and the callbacks of nghttp2 *)

Streaming(r) == Up /\ conn.h2 /\ req[r].stream = "open" /\ ~answer[r].ended

\* a callback fails: the connection is freed and nobody is told
SessionFails == ConnectionFree(req) /\ UNCHANGED <<parser, asked>>

\* The stream is closed when both sides are through; h2__client_on_stream_close_cb_
\* clears its user data and nothing else.
Closed(q) == [q EXCEPT !.stream = "closed", !.user = FALSE]
EndOf(q)  == IF q.upload THEN [q EXCEPT !.stream = "answered"] ELSE Closed(q)

\* h2__client_on_begin_headers_cb_: the user data is set again if the request is
\* still there.
Begun(r) == [req EXCEPT ![r].user = r \in conn.pending]

\* what the server sends in a HEADERS frame: an interim head, the head of the
\* response, or its trailers, which end it
Sends(r, kind, units) ==
    /\ Streaming(r)
    /\ CASE kind = "interim"  -> /\ ~answer[r].head /\ ~answer[r].interim
                                 /\ answer' = [answer EXCEPT ![r].interim = TRUE]
         [] kind = "head"     -> /\ ~answer[r].head
                                 /\ LET n == IF req[r].method = "HEAD" THEN 0 ELSE units IN
                                    answer' = [answer EXCEPT ![r] =
                                                 [@ EXCEPT !.head = TRUE, !.units = n, !.ended = n = 0]]
         [] kind = "trailers" -> /\ answer[r].head /\ Len(answer[r].sent) = answer[r].units
                                 /\ answer' = [answer EXCEPT ![r].ended = TRUE]

\* h2__client_on_header_cb_, handle_h2_headers_frame.  When the hook for the
\* headers fails the stream is reset; when one before it does, all fails.
RecvHeaders(r, kind, units, frees) ==
    LET rs == Begun(r) IN
    /\ Sends(r, kind, units)
    /\ \/ (~rs[r].user \/ "ERROR" \in HookResults) /\ SessionFails
       \/ /\ rs[r].user
          /\ \/ /\ "ERROR" \in HookResults
                /\ req' = [rs EXCEPT ![r] = [Closed(@) EXCEPT !.stream = "reset", !.upload = FALSE]]
                /\ UNCHANGED conn
             \/ IF answer'[r].ended THEN Callback(conn, [rs EXCEPT ![r] = EndOf(@)], r, frees)
                ELSE req' = rs /\ UNCHANGED conn
          /\ UNCHANGED <<parser, asked>>

\* Mutant: the data goes to the request that was made last.
DataForLast(r) == {q \in conn.pending : \A p \in conn.pending : p <= q}

\* the request the data of a stream goes to
DataFor(r) == IF req[r].user THEN {r} ELSE {}

\* h2__on_data_chunk_recv_cb_.  A hook that fails is a callback that fails.
RecvData(r) ==
    /\ Streaming(r) /\ MayBody(r)
    /\ answer' = [answer EXCEPT ![r].sent = Append(@, NextUnit(r))]
    /\ IF DataFor(r) = {} THEN SessionFails
       ELSE \/ "ERROR" \in HookResults /\ SessionFails
            \/ /\ req' = [q \in Requests |-> IF q \in DataFor(r)
                                             THEN [req[q] EXCEPT !.in = Append(@, NextUnit(r))] ELSE req[q]]
               /\ UNCHANGED <<conn, parser, asked>>

\* handle_h2_data_frame with END_STREAM: the user data is cleared, then the
\* callback is called
RecvDataEnd(r, frees) ==
    /\ Streaming(r) /\ answer[r].head /\ Len(answer[r].sent) = answer[r].units
    /\ answer' = [answer EXCEPT ![r].ended = TRUE]
    /\ IF ~req[r].user THEN SessionFails
       ELSE /\ Callback(conn, [req EXCEPT ![r] = [EndOf(@) EXCEPT !.user = FALSE]], r, frees)
            /\ UNCHANGED <<parser, asked>>

\* h2__data_read_cb_ gives nghttp2 the rest of a request body
Upload(r) ==
    /\ Up /\ req[r].upload
    /\ req' = [req EXCEPT ![r] = IF req[r].stream = "answered" THEN [Closed(@) EXCEPT !.upload = FALSE]
                                 ELSE [@ EXCEPT !.upload = FALSE]]
    /\ conn' = [conn EXCEPT !.output = TRUE]
    /\ UNCHANGED <<parser, asked, answer>>

\* RST_STREAM of the server: the stream is closed, nobody is told
RecvRst(r) ==
    /\ Up /\ conn.h2 /\ req[r].stream \in {"open", "answered"}
    /\ req' = [req EXCEPT ![r] = [Closed(@) EXCEPT !.stream = "reset", !.upload = FALSE]]
    /\ UNCHANGED <<conn, parser, asked, answer>>

\* the requests above the last stream the server accepts
Refused(last) == { r \in conn.pending : r > last }

\* handle_h2_goaway_frame; then nghttp2 closes those streams (external).  The
\* hooks may free the requests they are told about.
RecvGoaway(last, frees) ==
    /\ Up /\ conn.h2 /\ ~conn.goaway
    /\ \A r \in Requests : r > last => ~answer[r].head
    /\ LET told   == Told(Refused(last))
           closed == [r \in Requests |-> IF r > last /\ told[r].stream = "open"
                        THEN [Closed(told[r]) EXCEPT !.upload = FALSE] ELSE told[r]]
       IN  /\ conn' = [conn EXCEPT !.goaway = TRUE,
                          !.pending = IF frees THEN @ \ Refused(last) ELSE @]
           /\ req' = [r \in Requests |-> IF frees /\ r \in Refused(last) THEN RequestFree(closed[r])
                                                                         ELSE closed[r]]
    /\ UNCHANGED <<parser, asked, answer>>

-----------------------------------------------------------------------------
\* the server answers
Answers1 ==
    \E frees \in BOOLEAN :
      \/ \E units \in 0 .. MaxUnits : RecvHead(units, frees)
      \/ RecvBody(frees) \/ RecvEof(frees)
Answers2(r) ==
    \E frees \in BOOLEAN :
      \/ \E units \in 0 .. MaxUnits : RecvHeaders(r, "head", units, frees)
      \/ RecvHeaders(r, "trailers", 0, frees)
      \/ RecvData(r)
      \/ RecvDataEnd(r, frees)

Next ==
    \/ \E r \in Requests :
         \/ \E m \in Methods, u \in BOOLEAN : MakeRequest(r, m, u)
         \/ FreeRequest(r) \/ Upload(r) \/ RecvRst(r) \/ Answers2(r)
         \/ RecvHeaders(r, "interim", 0, FALSE)
    \/ FreeConnection \/ Written \/ SocketError
    \/ \E h2 \in BOOLEAN : Connected(h2)
    \/ RecvInterim \/ RecvHeadUntilEof \/ Answers1
    \/ \E last \in 0 .. NumRequests, frees \in BOOLEAN : RecvGoaway(last, frees)

\* The connection is established or fails, what is written is sent, and the
\* server answers what it was asked.  A server that neither answers nor closes
\* is the matter of the timeouts the application sets.
Fairness ==
    /\ WF_vars((\E h2 \in BOOLEAN : Connected(h2)) \/ (conn.state = "connecting" /\ SocketError))
    /\ WF_vars(Written)
    /\ WF_vars(Answers1)
    /\ \A r \in Requests : WF_vars(Answers2(r)) /\ WF_vars(Upload(r))

Spec == Init /\ [][Next]_vars /\ Fairness

-----------------------------------------------------------------------------
\* Whenever requests and connection end, by the application, the server or an
\* error, in whatever order: the connection points to the requests that exist and
\* to no other (so none is linked into c->pending twice), the streams point to
\* requests that exist, and a connection that is gone leaves none behind.
ClientReferences ==
    /\ Known = { r \in Requests : Live(r) }
    /\ \A r \in Requests : req[r].user => r \in conn.pending /\ req[r].stream \in {"open", "answered"}
    /\ \A r \in Requests : req[r].upload => Live(r)
    /\ conn.state = "freed" => \A r \in Requests : ~Live(r)

\* A request is given what the server sent in answer to it and nothing else, in
\* order, and its callback is called once with the whole response (besides the
\* call for an interim one, which the application ignores).
ResponseIntact ==
    \A r \in Requests :
      /\ Len(req[r].in) <= Len(answer[r].sent)
      /\ \A i \in 1 .. Len(req[r].in) : req[r].in[i] = answer[r].sent[i]
      /\ req[r].cbs <= 1
      /\ req[r].cbs = 1 => answer[r].ended /\ req[r].in = answer[r].sent

\* A request that was made is answered, or the application is told (by the error
\* hook, or by the fini hook of a request that is freed with its connection) or
\* has freed it; but for a stream that was reset, which is not told.
RequestSettles ==
    \A r \in Requests :
        Live(r) ~> (req[r].cbs > 0 \/ req[r].told \/ req[r].state = "freed" \/ req[r].stream = "reset")

-----------------------------------------------------------------------------
(* The inductive invariant behind ClientReferences and ResponseIntact *)

ConnRecords ==
    [state : {"connecting", "up", "freed"}, tls : BOOLEAN, h2 : BOOLEAN, request : SUBSET Requests,
     pending : SUBSET Requests, output : BOOLEAN, goaway : BOOLEAN]
RequestRecords ==
    [state : {"none", "unsent", "live", "freed"}, method : Methods \cup {""}, in : Seq(Requests \X Nat), cbs : Nat,
     told : BOOLEAN, user : BOOLEAN, stream : {"idle", "open", "answered", "closed", "reset"},
     upload : BOOLEAN]
AnswerRecords ==
    [head : BOOLEAN, interim : BOOLEAN, units : Nat, sent : Seq(Requests \X Nat), ended : BOOLEAN]

ClientType ==
    /\ conn \in ConnRecords
    /\ req \in [Requests -> RequestRecords]
    /\ parser \in Int
    /\ asked \in Seq(Requests)
    /\ answer \in [Requests -> AnswerRecords]

\* Each list belongs to one protocol, and the protocol is settled before a request
\* is made that it matters for.
ProtocolInv ==
    /\ conn.h2 => conn.state # "connecting" /\ conn.request = {} /\ asked = << >>
    /\ ~conn.h2 => conn.pending = {}
    /\ conn.tls /\ conn.state = "connecting" => conn.request = {} /\ asked = << >>
    /\ conn.state = "freed" => conn.request = {} /\ conn.pending = {}

\* HTTP/1: the server answers the request that c->request points to, and the
\* parser waits for what is left of that answer.
ReadingInv ==
    conn.state # "freed" =>
      /\ parser \in {Between, UntilEof} \cup (Nat \ {0})
      /\ asked = << >> => parser = Between
      /\ asked # << >> =>
           \E r \in Requests :
             /\ asked = <<r>> /\ conn.request = {r} /\ ~answer[r].ended
             /\ parser # Between => answer[r].head
             /\ parser \in Nat => parser = answer[r].units - Len(answer[r].sent)

\* request r, in state q, as the connection c and its stream see it
Linked(c, r, q) ==
    /\ r \in c.request \cup c.pending <=> q.state = "live"
    /\ q.user => r \in c.pending /\ q.stream \in {"open", "answered"}
    /\ q.upload => q.state = "live" /\ q.stream \in {"open", "answered"}
    /\ ~c.h2 \/ q.state = "none" => q.stream = "idle" /\ ~q.upload

\* the last unit that was sent is missing
OneShort(in, sent) == \E u \in Requests \X Nat : sent = Append(in, u)

\* request q has what the server sent in the answer a, but for the unit a hook
\* failed on, with which the connection ended
Delivered(state, q, a) ==
    /\ q.cbs \in {0, 1}
    /\ q.cbs = 1 => a.ended
    /\ a.ended \/ q.stream = "answered" => a.head
    /\ IF a.head THEN q.state # "none" ELSE a.sent = << >>
    /\ \/ q.in = a.sent
       \/ state = "freed" /\ q.cbs = 0 /\ OneShort(q.in, a.sent)

ClientInv ==
    /\ ClientType /\ ProtocolInv /\ ReadingInv
    /\ \A r \in Requests : Linked(conn, r, req[r]) /\ Delivered(conn.state, req[r], answer[r])
=============================================================================
