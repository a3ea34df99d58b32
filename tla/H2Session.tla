----------------------------- MODULE H2Session -----------------------------
(***************************************************************************)
(* An HTTP/2 server connection of evhtp.c: the nghttp2 callbacks that make *)
(* requests of streams, the replies (whole and streamed) an application    *)
(* submits from its callback or later, and the end of streams, requests    *)
(* and connection.                                                         *)
(*                                                                         *)
(* nghttp2 is modelled from how evhtp.c uses it: a session receives frames *)
(* (nghttp2_session_mem_recv) and calls back for each; what is submitted   *)
(* waits until nghttp2_session_send; a stream closes when both sides have  *)
(* ended it, or with a RST_STREAM sent or received; frames that arrive     *)
(* between the submission of a RST_STREAM and its sending are ignored.     *)
(*                                                                         *)
(* The thread of the connection is at one place of the event loop at a     *)
(* time (pc): in nghttp2_session_mem_recv, possibly for several frames, in *)
(* the request callback one of them led to, in nghttp2_session_send, or    *)
(* between two events.  A DATA frame of a request holds one unit of body   *)
(* or none; a unit of a reply is numbered.                                 *)
(***************************************************************************)
EXTENDS Naturals, Sequences, FiniteSets

CONSTANTS
    NumStreams,    \* bound: the streams the client opens
    Host,          \* per stream: the value of :authority
    Main, Vhosts,  \* the evhtp_t of the listener, and its virtual hosts
    MaxBody,       \* max_body_size, 0 for none
    MaxKeepalive,  \* max_keepalive_requests, 0 for none
    MaxData,       \* bound: the units of body a request has
    MaxPieces,     \* bound: the units of body a reply has
    HookResults,   \* what the head hooks do: "OK", "reply", "fail", "abort"
    ReadResults,   \* what the on_read hook returns: "OK", "PAUSE", "ERROR"
    AppCalls,      \* what the application calls: "reply", "start", "reset"
    PeerFrames     \* what else the peer does: "trailers", "rst", "goaway",
                   \* "window" (it lets its window close), "error"

ASSUME H2Assumption ==
    /\ NumStreams \in Nat /\ MaxBody \in Nat /\ MaxKeepalive \in Nat
    /\ MaxData \in Nat /\ MaxPieces \in Nat
    /\ Main \notin Vhosts
    /\ Host \in [1 .. NumStreams -> Vhosts \cup {Main}]
    /\ HookResults \subseteq {"OK", "reply", "fail", "abort"}
    /\ ReadResults \subseteq {"OK", "PAUSE", "ERROR"}

Streams == 1 .. NumStreams

VARIABLES
    conn,       \* the evhtp_connection_t, its h2ctx and the bufferevent
    pc,         \* where the thread is, and the stream of the running callback
    str,        \* nghttp2's streams
    req,        \* the request of every stream
    sent,       \* history: units of body received on a stream
    supplied,   \* history: units of reply body the application supplied
    wire,       \* history: reply units sent on a stream, and whether it ended
    cbs,        \* history: how often req->cb was called for a stream
    gone        \* the streams whose reset the application has queued

vars == <<conn, pc, str, req, sent, supplied, wire, cbs, gone>>

\* evhtp_h2_conn_ctx_new: the SETTINGS are in the output.
Conn == [state |-> "open", htp |-> Main, body_bytes_read |-> 0,
         num_requests |-> 0, scratch |-> <<>>, held |-> 0, window |-> TRUE,
         flush |-> FALSE, output |-> TRUE, goaway |-> FALSE]

\* A stream of the session; user: its user data is the request.
NoStream == [state |-> "idle", user |-> FALSE, remote_end |-> FALSE,
             local_end |-> FALSE, resp |-> "none", prd |-> "none"]

NoRequest == [state |-> "none", flags |-> {}, in |-> <<>>, out |-> <<>>,
              htp |-> Main]

Idle == [at |-> "idle", s |-> 0]

Init ==
    /\ conn = Conn
    /\ pc = Idle
    /\ str = [s \in Streams |-> NoStream]
    /\ req = [s \in Streams |-> NoRequest]
    /\ sent = [s \in Streams |-> 0]
    /\ supplied = [s \in Streams |-> 0]
    /\ wire = [s \in Streams |-> [data |-> <<>>, end |-> FALSE]]
    /\ cbs = [s \in Streams |-> 0]
    /\ gone = {}

-----------------------------------------------------------------------------
(* The end of requests, streams and the connection *)

\* htp__request_free_: the request goes back to the cache of its evhtp_t.  It also
\* clears the user data of its stream; wherever a request is freed its stream is
\* closed in the same step, and StreamClosed clears them.
RequestFree(r) == [r EXCEPT !.state = "freed"]

\* h2__server_on_stream_close_cb_: the request r of the closing stream q.
OnStreamClose(q, r) == IF q.user THEN RequestFree(r) ELSE r

StreamClosed(q) == [q EXCEPT !.state = "closed", !.user = FALSE]

Ended(q) == q.remote_end /\ q.local_end

\* Stream s becomes q and its request r; nghttp2 closes a stream both ended.
Settle(s, q, r) ==
    /\ str' = [str EXCEPT ![s] = IF Ended(q) THEN StreamClosed(q) ELSE q]
    /\ req' = [req EXCEPT ![s] = IF Ended(q) THEN OnStreamClose(q, r) ELSE r]

\* evhtp_connection_free of the connection c: every pending request is freed, then
\* the session.
FreeConn(c) ==
    /\ conn' = [c EXCEPT !.state = "freed", !.flush = FALSE, !.output = FALSE]
    /\ pc' = Idle
    /\ str' = [s \in Streams |-> StreamClosed(str[s])]
    /\ req' = [s \in Streams |-> IF req[s].state = "live" THEN RequestFree(req[s])
                                                         ELSE req[s]]

-----------------------------------------------------------------------------
(* Submitting a reply *)

\* nghttp2_submit_response with or without a data provider.
Submit(q, prd) ==
    IF q.state = "open" /\ q.resp = "none"
    THEN [q EXCEPT !.resp = "queued", !.prd = prd] ELSE q

\* h2__schedule_flush_
Flushing(c) == [c EXCEPT !.flush = TRUE]

Finished(r) == [r EXCEPT !.flags = @ \cup {"FINISHED"}]

-----------------------------------------------------------------------------
(* nghttp2_session_mem_recv and its callbacks *)

Receiving == conn.state = "open" /\ pc.at \in {"idle", "recv"}

Recv == pc' = [at |-> "recv", s |-> 0]

\* htp__request_find_vhost_ from the evhtp_t htp: a virtual host has none.
VhostFor(htp, host) == IF htp = Main /\ host \in Vhosts THEN host ELSE htp

\* req->cb of stream s is called.
Dispatch(s) ==
    /\ pc' = [at |-> "cb", s |-> s]
    /\ cbs' = [cbs EXCEPT ![s] = @ + 1]

\* handle_h2_headers_frame after the host is resolved, for stream q with
\* request r; result is that of the first of the hooks (headers_start, hostname,
\* headers) not to return EVHTP_RES_OK or to reply.
HeadFrame(s, q, r, end, c, result) ==
    LET r1 == IF end THEN [r EXCEPT !.flags = @ \cup {"END_STREAM"}] ELSE r
        r2 == IF result = "reply" THEN Finished(r1) ELSE r1
        q1 == IF result = "reply" THEN Submit(q, "none") ELSE q
        q2 == [q1 EXCEPT !.remote_end = end]
        answered == "FINISHED" \in r2.flags
        stay == UNCHANGED cbs /\ Recv
    IN /\ conn' = IF result = "reply" THEN Flushing(c) ELSE c
       /\ \/ answered /\ Settle(s, q2, r2) /\ stay
          \/ /\ ~answered /\ result = "fail"
             /\ Settle(s, [q2 EXCEPT !.state = "closing"], r2) /\ stay
          \/ /\ ~answered /\ result = "OK" /\ end
             /\ str' = [str EXCEPT ![s] = q1] /\ req' = [req EXCEPT ![s] = r2]
             /\ Dispatch(s)
          \/ ~answered /\ result = "OK" /\ ~end /\ Settle(s, q2, r2) /\ stay

\* A request's HEADERS: h2__server_on_begin_headers_cb_, h2__server_on_header_cb_
\* and h2__on_frame_recv_cb_.
RecvHeaders(s, end, result) ==
    LET htp == VhostFor(conn.htp, Host[s])
        r   == [NoRequest EXCEPT !.state = "live", !.htp = htp]
        q   == [NoStream EXCEPT !.state = "open", !.user = TRUE]
    IN /\ Receiving /\ ~conn.goaway
       /\ str[s].state = "idle" /\ \A t \in 1 .. s - 1 : str[t].state # "idle"
       /\ result # "abort"
       /\ HeadFrame(s, q, r, end, [conn EXCEPT !.htp = htp], result)
       /\ UNCHANGED <<sent, supplied, wire, gone>>

\* A hook's failure that is returned to nghttp2: mem_recv fails.
RecvHeadersAbort(s) ==
    /\ Receiving /\ ~conn.goaway
    /\ str[s].state = "idle" /\ \A t \in 1 .. s - 1 : str[t].state # "idle"
    /\ "abort" \in HookResults
    /\ FreeConn(conn)
    /\ UNCHANGED <<sent, supplied, wire, cbs, gone>>

\* A second HEADERS of a request: the same handler, the host being resolved.
RecvTrailers(s, result) ==
    /\ Receiving /\ "trailers" \in PeerFrames
    /\ str[s].state = "open" /\ ~str[s].remote_end
    /\ result # "abort"
    /\ HeadFrame(s, str[s], req[s], TRUE, conn, result)
    /\ UNCHANGED <<sent, supplied, wire, gone>>

MayData(s) ==
    Receiving /\ str[s].state = "open" /\ ~str[s].remote_end

\* The window a unit takes, and gives back: nghttp2_session_consume.
Held(c) == [c EXCEPT !.held = @ + 1]
Consumed(c) == [c EXCEPT !.held = @ - 1]

\* Mutant: what is ignored is not given back to the window.
DataIgnoredKept(s) ==
    /\ MayData(s) /\ sent[s] < MaxData
    /\ "FINISHED" \in req[s].flags
    /\ conn' = Held(conn)
    /\ sent' = [sent EXCEPT ![s] = @ + 1]
    /\ Recv
    /\ UNCHANGED <<str, req, supplied, wire, cbs, gone>>

\* h2__on_data_chunk_recv_cb_ for a request that is answered: the unit is dropped.
DataIgnored(s) ==
    /\ MayData(s) /\ sent[s] < MaxData
    /\ "FINISHED" \in req[s].flags
    /\ conn' = Consumed(Held(conn))
    /\ sent' = [sent EXCEPT ![s] = @ + 1]
    /\ Recv
    /\ UNCHANGED <<str, req, supplied, wire, cbs, gone>>

TooLong(c) == MaxBody > 0 /\ c.body_bytes_read + 1 >= MaxBody

\* The limit, or the hook's error, is returned to nghttp2, the unit not given back:
\* mem_recv fails and the connection is freed.
DataRefused(s) ==
    /\ MayData(s) /\ sent[s] < MaxData
    /\ "FINISHED" \notin req[s].flags
    /\ TooLong(conn) \/ "ERROR" \in ReadResults
    /\ sent' = [sent EXCEPT ![s] = @ + 1]
    /\ FreeConn(Held(conn))
    /\ UNCHANGED <<supplied, wire, cbs, gone>>

\* DATA of a stream that is being reset or is closed: nghttp2 drops it and gives
\* it back itself, no callback of evhtp.c is called.
DataDropped(s) ==
    /\ Receiving /\ MaxData > 0
    /\ str[s].state \in {"closing", "closed"} /\ ~str[s].remote_end
    /\ conn' = Consumed(Held(conn))
    /\ Recv
    /\ UNCHANGED <<str, req, sent, supplied, wire, cbs, gone>>

\* Mutant: the scratch buffer is copied to the request, not moved.
DataTakenKeepsScratch(s, result) ==
    /\ MayData(s) /\ sent[s] < MaxData
    /\ "FINISHED" \notin req[s].flags /\ ~TooLong(conn)
    /\ result # "ERROR"
    /\ LET buf == Append(conn.scratch, <<s, sent[s] + 1>>)
       IN /\ req' = [req EXCEPT ![s].in = IF result = "OK" THEN @ \o buf ELSE @]
          /\ conn' = [conn EXCEPT !.body_bytes_read = @ + 1, !.scratch = buf]
    /\ sent' = [sent EXCEPT ![s] = @ + 1]
    /\ Recv
    /\ UNCHANGED <<str, supplied, wire, cbs, gone>>

\* The unit is added to the scratch buffer, the hook called, and the scratch
\* buffer moved to the request unless the hook asked for a pause.
DataTaken(s, result) ==
    /\ MayData(s) /\ sent[s] < MaxData
    /\ "FINISHED" \notin req[s].flags /\ ~TooLong(conn)
    /\ result # "ERROR"
    /\ LET buf == Append(conn.scratch, <<s, sent[s] + 1>>)
           c   == Held([conn EXCEPT !.body_bytes_read = @ + 1])
       IN \/ /\ result = "OK"
             /\ req' = [req EXCEPT ![s].in = @ \o buf]
             /\ conn' = Consumed([c EXCEPT !.scratch = <<>>])
          \/ /\ result = "PAUSE"
             /\ conn' = Consumed([c EXCEPT !.scratch = buf])
             /\ UNCHANGED req
    /\ sent' = [sent EXCEPT ![s] = @ + 1]
    /\ Recv
    /\ UNCHANGED <<str, supplied, wire, cbs, gone>>

\* handle_h2_data_frame of the frame that ends the stream, for a request that
\* is answered: the user data stay for on_stream_close.
DataEndAnswered(s) ==
    /\ MayData(s) /\ "FINISHED" \in req[s].flags
    /\ Settle(s, [str[s] EXCEPT !.remote_end = TRUE],
                 [req[s] EXCEPT !.flags = @ \cup {"END_STREAM"}])
    /\ Recv
    /\ UNCHANGED <<conn, sent, supplied, wire, cbs, gone>>

\* Mutant: a request that a hook has answered is dispatched, too.
DataEndAnyway(s) ==
    /\ MayData(s)
    /\ str' = [str EXCEPT ![s].user = FALSE]
    /\ req' = [req EXCEPT ![s].flags = @ \cup {"END_STREAM"}]
    /\ Dispatch(s)
    /\ UNCHANGED <<conn, sent, supplied, wire, gone>>

\* The user data are cleared before the callback is called.
DataEnd(s) ==
    /\ MayData(s) /\ "FINISHED" \notin req[s].flags
    /\ str' = [str EXCEPT ![s].user = FALSE]
    /\ req' = [req EXCEPT ![s].flags = @ \cup {"END_STREAM"}]
    /\ Dispatch(s)
    /\ UNCHANGED <<conn, sent, supplied, wire, gone>>

\* The callback returns, and nghttp2 notes the end of the client's side.
CbReturn ==
    /\ pc.at = "cb"
    /\ Settle(pc.s, [str[pc.s] EXCEPT !.remote_end = TRUE], req[pc.s])
    /\ Recv
    /\ UNCHANGED <<conn, sent, supplied, wire, cbs, gone>>

\* RST_STREAM from the client.
RecvRst(s) ==
    /\ Receiving /\ "rst" \in PeerFrames
    /\ str[s].state \in {"open", "closing"}
    /\ str' = [str EXCEPT ![s] = StreamClosed(@)]
    /\ req' = [req EXCEPT ![s] = OnStreamClose(str[s], @)]
    /\ Recv
    /\ UNCHANGED <<conn, sent, supplied, wire, cbs, gone>>

\* handle_h2_goaway_frame: the last stream id of a client's GOAWAY is one of the
\* streams a server opens, 0 when it opened none.
RecvGoaway ==
    /\ Receiving /\ "goaway" \in PeerFrames
    /\ req' = [s \in Streams |->
                 IF req[s].state = "live"
                 THEN [req[s] EXCEPT !.flags = @ \cup {"ERROR"}] ELSE req[s]]
    /\ Recv
    /\ UNCHANGED <<conn, str, sent, supplied, wire, cbs, gone>>

\* WINDOW_UPDATE
RecvWindow ==
    /\ Receiving /\ ~conn.window
    /\ conn' = [conn EXCEPT !.window = TRUE]
    /\ Recv
    /\ UNCHANGED <<str, req, sent, supplied, wire, cbs, gone>>

\* mem_recv returns to htp__h2_connection_readcb_, which sends.
RecvReturn ==
    /\ pc.at = "recv"
    /\ pc' = [at |-> "send", s |-> 0]
    /\ UNCHANGED <<conn, str, req, sent, supplied, wire, cbs, gone>>

-----------------------------------------------------------------------------
(* nghttp2_session_send *)

Written(c) == [c EXCEPT !.output = TRUE]

\* A queued RST_STREAM goes out and closes its stream.
SendRst(s) ==
    /\ pc.at = "send" /\ str[s].state = "closing"
    /\ str' = [str EXCEPT ![s] = StreamClosed(@)]
    /\ req' = [req EXCEPT ![s] = OnStreamClose(str[s], @)]
    /\ conn' = Written(conn)
    /\ UNCHANGED <<pc, sent, supplied, wire, cbs, gone>>

\* The response HEADERS, with END_STREAM when there is no data provider.
SendHeaders(s) ==
    /\ pc.at = "send" /\ str[s].state = "open" /\ str[s].resp = "queued"
    /\ LET last == str[s].prd = "none"
       IN /\ Settle(s, [str[s] EXCEPT !.resp = "data", !.local_end = last], req[s])
          /\ wire' = [wire EXCEPT ![s].end = last]
    /\ conn' = Written(conn)
    /\ UNCHANGED <<pc, sent, supplied, cbs, gone>>

MaySendData(s) ==
    /\ pc.at = "send" /\ str[s].state = "open"
    /\ str[s].resp = "data" /\ ~str[s].local_end
    /\ conn.window

\* h2__stream_read_cb_ answers NGHTTP2_ERR_DEFERRED: the stream is parked.
SendPark(s) ==
    /\ MaySendData(s)
    /\ str[s].prd = "stream"
    /\ req[s].out = <<>> /\ "FINISHED" \notin req[s].flags
    /\ str' = [str EXCEPT ![s].resp = "parked"]
    /\ UNCHANGED <<conn, pc, req, sent, supplied, wire, cbs, gone>>

\* Mutant: an empty buffer ends the stream, whether or not the reply has ended.
EofWhenEmpty(s, out) == out = <<>>

\* The end-of-data flag the read callback sets when it leaves out in the buffer.
Eof(s, out) ==
    IF str[s].prd = "stream" THEN "FINISHED" \in req[s].flags /\ out = <<>>
                             ELSE out = <<>>

\* h2__stream_read_cb_ and h2__data_read_cb_ give n units of buffer_out, as many
\* as the window and the frame take.
SendData(s, n) ==
    /\ MaySendData(s)
    /\ n \in IF req[s].out = <<>> THEN {0} ELSE 1 .. Len(req[s].out)
    /\ str[s].prd = "reply" \/ n > 0 \/ "FINISHED" \in req[s].flags
    /\ LET out == SubSeq(req[s].out, n + 1, Len(req[s].out))
           eof == Eof(s, out)
       IN /\ wire' = [wire EXCEPT ![s] =
                        [data |-> @.data \o SubSeq(req[s].out, 1, n), end |-> eof]]
          /\ Settle(s, [str[s] EXCEPT !.local_end = eof], [req[s] EXCEPT !.out = out])
    /\ \E w \in IF "window" \in PeerFrames THEN BOOLEAN ELSE {TRUE} :
          conn' = [Written(conn) EXCEPT !.window = w]
    /\ UNCHANGED <<pc, sent, supplied, cbs, gone>>

\* Nothing is left to send that the window lets through.
SendReturn ==
    /\ pc.at = "send"
    /\ \A s \in Streams : /\ str[s].state # "closing"
                          /\ ~(str[s].state = "open" /\ str[s].resp = "queued")
                          /\ ~MaySendData(s)
    /\ pc' = Idle
    /\ UNCHANGED <<conn, str, req, sent, supplied, wire, cbs, gone>>

-----------------------------------------------------------------------------
(* The other events of the connection *)

\* h2__flush_cb_
FlushCb ==
    /\ pc.at = "idle" /\ conn.flush
    /\ conn' = [conn EXCEPT !.flush = FALSE]
    /\ pc' = [at |-> "send", s |-> 0]
    /\ UNCHANGED <<str, req, sent, supplied, wire, cbs, gone>>

\* The count of htp__connection_writecb_, kept at the maximum once there: the
\* code only compares it with the maximum.
Counted(c) == IF c.num_requests < MaxKeepalive THEN c.num_requests + 1
                                               ELSE c.num_requests

\* htp__connection_writecb_, its HTTP/2 branch: the output has been written.
WriteCb ==
    /\ pc.at = "idle" /\ conn.output
    /\ LET c == [conn EXCEPT !.output = FALSE, !.num_requests = Counted(conn)]
       IN IF MaxKeepalive > 0 /\ c.num_requests >= MaxKeepalive
          THEN /\ conn' = Written([c EXCEPT !.goaway = TRUE])
               /\ pc' = [at |-> "send", s |-> 0]
          ELSE conn' = c /\ UNCHANGED pc
    /\ UNCHANGED <<str, req, sent, supplied, wire, cbs, gone>>

\* htp__connection_eventcb_: an error, a timeout or the end of the connection.
EventCb ==
    /\ pc.at = "idle" /\ conn.state = "open" /\ "error" \in PeerFrames
    /\ FreeConn(conn)
    /\ UNCHANGED <<sent, supplied, wire, cbs, gone>>

-----------------------------------------------------------------------------
(* The application, in a request callback or at another event: it has the  *)
(* request from its callback to the request_fini hook or a queued reset.    *)

AppHas(s) ==
    /\ conn.state = "open" /\ pc.at \in {"idle", "cb"}
    /\ cbs[s] > 0 /\ req[s].state = "live"
    /\ s \notin gone

\* evhtp_h2_send_reply of n units
AppReply(s, n) ==
    /\ AppHas(s) /\ "reply" \in AppCalls
    /\ req[s].flags \cap {"FINISHED", "STREAMING"} = {}
    /\ str' = [str EXCEPT ![s] = Submit(@, IF n > 0 THEN "reply" ELSE "none")]
    /\ req' = [req EXCEPT ![s] = [Finished(@) EXCEPT !.out = [i \in 1 .. n |-> i]]]
    /\ supplied' = [supplied EXCEPT ![s] = n]
    /\ conn' = Flushing(conn)
    /\ UNCHANGED <<pc, sent, wire, cbs, gone>>

\* evhtp_h2_send_reply_start, with n units in buffer_out already
AppReplyStart(s, n) ==
    /\ AppHas(s) /\ "start" \in AppCalls
    /\ req[s].flags \cap {"FINISHED", "STREAMING"} = {}
    /\ str' = [str EXCEPT ![s] = Submit(@, "stream")]
    /\ req' = [req EXCEPT ![s].flags = @ \cup {"STREAMING"},
                          ![s].out = [i \in 1 .. n |-> i]]
    /\ supplied' = [supplied EXCEPT ![s] = n]
    /\ conn' = Flushing(conn)
    /\ UNCHANGED <<pc, sent, wire, cbs, gone>>

\* Mutant: the stream is resumed and no flush scheduled.
StreamResumeNoFlush(s) ==
    /\ str' = [str EXCEPT ![s].resp = IF @ = "parked" THEN "data" ELSE @]
    /\ UNCHANGED conn

\* h2__stream_resume_: nghttp2_session_resume_data, then a flush.
StreamResume(s) ==
    /\ str' = [str EXCEPT ![s].resp = IF @ = "parked" THEN "data" ELSE @]
    /\ conn' = Flushing(conn)

\* evhtp_h2_send_reply_body of one unit
AppReplyBody(s) ==
    /\ AppHas(s)
    /\ "STREAMING" \in req[s].flags /\ "FINISHED" \notin req[s].flags
    /\ supplied[s] < MaxPieces
    /\ supplied' = [supplied EXCEPT ![s] = @ + 1]
    /\ req' = [req EXCEPT ![s].out = Append(@, supplied[s] + 1)]
    /\ StreamResume(s)
    /\ UNCHANGED <<pc, sent, wire, cbs, gone>>

\* evhtp_h2_send_reply_end
AppReplyEnd(s) ==
    /\ AppHas(s)
    /\ "STREAMING" \in req[s].flags /\ "FINISHED" \notin req[s].flags
    /\ req' = [req EXCEPT ![s] = Finished(@)]
    /\ StreamResume(s)
    /\ UNCHANGED <<pc, sent, supplied, wire, cbs, gone>>

\* Mutant: the RST_STREAM is sent by the call itself.
AppResetAtOnce(s) ==
    /\ AppHas(s) /\ "reset" \in AppCalls
    /\ str[s].user
    /\ str' = [str EXCEPT ![s] = StreamClosed(@)]
    /\ req' = [req EXCEPT ![s] = OnStreamClose(str[s], Finished(@))]
    /\ conn' = Written(conn)
    /\ gone' = gone \cup {s}
    /\ UNCHANGED <<pc, sent, supplied, wire, cbs>>

\* evhtp_h2_reset_stream; without user data it returns -1 and does nothing.
AppReset(s) ==
    /\ AppHas(s) /\ "reset" \in AppCalls
    /\ str[s].user
    /\ str' = [str EXCEPT ![s].state = "closing"]
    /\ req' = [req EXCEPT ![s].flags = (@ \cup {"FINISHED"}) \ {"STREAMING"}]
    /\ conn' = Flushing(conn)
    /\ gone' = gone \cup {s}
    /\ UNCHANGED <<pc, sent, supplied, wire, cbs>>

-----------------------------------------------------------------------------

Send(s) ==
    \/ SendRst(s) \/ SendHeaders(s) \/ SendPark(s)
    \/ \E n \in 0 .. MaxPieces : SendData(s, n)

Peer(s) ==
    \/ \E end \in BOOLEAN, result \in HookResults : RecvHeaders(s, end, result)
    \/ RecvHeadersAbort(s)
    \/ \E result \in HookResults : RecvTrailers(s, result)
    \/ DataIgnored(s) \/ DataRefused(s) \/ DataDropped(s)
    \/ \E result \in ReadResults : DataTaken(s, result)
    \/ DataEndAnswered(s) \/ DataEnd(s)
    \/ RecvRst(s)

App(s) ==
    \/ \E n \in 0 .. MaxPieces : AppReply(s, n) \/ AppReplyStart(s, n)
    \/ AppReplyBody(s) \/ AppReplyEnd(s)
    \/ AppReset(s)

Next ==
    \/ \E s \in Streams : Peer(s) \/ Send(s) \/ App(s)
    \/ CbReturn \/ RecvReturn \/ SendReturn
    \/ RecvGoaway \/ RecvWindow
    \/ FlushCb \/ WriteCb \/ EventCb

Spec == Init /\ [][Next]_vars

\* The event loop goes on, nghttp2_session_send loops until it is done, and the
\* client opens its window again.  Nothing is asked of the application.
FairSpec ==
    /\ Spec
    /\ WF_vars(CbReturn) /\ WF_vars(RecvReturn) /\ WF_vars(SendReturn)
    /\ WF_vars(FlushCb) /\ WF_vars(WriteCb) /\ WF_vars(RecvWindow)
    /\ \A s \in Streams : WF_vars(Send(s))

-----------------------------------------------------------------------------
(* Properties *)

Conns == [state : {"open", "freed"}, htp : Vhosts \cup {Main}, body_bytes_read : Nat,
          num_requests : Nat, scratch : Seq(Streams \X Nat), held : Nat, window : BOOLEAN,
          flush : BOOLEAN, output : BOOLEAN, goaway : BOOLEAN]
StreamRecords == [state : {"idle", "open", "closing", "closed"}, user : BOOLEAN,
                  remote_end : BOOLEAN, local_end : BOOLEAN,
                  resp : {"none", "queued", "data", "parked"}, prd : {"none", "reply", "stream"}]
Requests == [state : {"none", "live", "freed"},
             flags : SUBSET {"FINISHED", "STREAMING", "END_STREAM", "ERROR"},
             in : Seq(Streams \X Nat), out : Seq(Nat), htp : Vhosts \cup {Main}]
Wires == [data : Seq(Nat), end : BOOLEAN]

\* The types of the variables.
TypeOK ==
    /\ conn \in Conns
    /\ pc \in [at : {"idle", "recv", "cb", "send"}, s : Streams \cup {0}]
    /\ str \in [Streams -> StreamRecords] /\ req \in [Streams -> Requests]
    /\ sent \in [Streams -> Nat] /\ supplied \in [Streams -> Nat]
    /\ wire \in [Streams -> Wires] /\ cbs \in [Streams -> Nat] /\ gone \subseteq Streams

\* nghttp2 holds two pointers to a request, the user data of its stream and the
\* source of its data provider; whenever it may follow one the request has not
\* been freed (h2__server_on_stream_close_cb_, htp__request_free_).  Nor is it
\* freed from the start to the end of its callback: "Running it later ... keeps
\* on_stream_close (which frees the request) from firing while the caller is
\* still using the request" (h2__flush_cb_).
NoDanglingRequest ==
    \A s \in Streams :
      (str[s].user \/ (str[s].state = "open" /\ str[s].prd # "none") \/ (pc.at = "cb" /\ pc.s = s))
        => req[s].state = "live"

\* A request's callback is called once, when the stream has ended, and not when
\* a hook has replied: the frames that lead to it are HEADERS, DATA or trailers.
DispatchedOnce ==
    [][\A s \in Streams : cbs'[s] # cbs[s] =>
         cbs[s] = 0 /\ "END_STREAM" \in req'[s].flags
                    /\ "FINISHED" \notin req'[s].flags]_vars

\* The DATA of a stream is what the application supplied, in order, and the
\* stream ends when the application has ended the reply and all of it is sent
\* (h2__stream_read_cb_, h2__data_read_cb_).
ReplyIntact ==
    \A s \in Streams :
      LET reply == [i \in 1 .. supplied[s] |-> i]
      IN /\ req[s].state = "live" => wire[s].data \o req[s].out = reply
         /\ wire[s].end => wire[s].data = reply

\* The body an application is given is what the client sent on that stream,
\* though all streams share the connection's scratch buffer.
BodyIntact ==
    pc.at = "cb" => req[pc.s].in = [i \in 1 .. sent[pc.s] |-> <<pc.s, i>>]

\* While the connection lives every unit of body received has been given back to
\* the window, or a body longer than the window would stall: a unit that is taken,
\* one that a pausing hook leaves for later and one that is ignored
\* (h2__on_data_chunk_recv_cb_); only a refused one, which ends the connection, is
\* not.
WindowReturned == conn.state = "open" => conn.held = 0

\* A reply the application has ended is sent to its end unless the stream is
\* closed first: a parked stream is always resumed, and a reply submitted
\* outside mem_recv always flushed.
FinishedReplyCompletes ==
    \A s \in Streams :
      (req[s].state = "live" /\ "FINISHED" \in req[s].flags)
        ~> (wire[s].end \/ str[s].state = "closed")

\* The next two are what comments of evhtp.c say of the program; they do not
\* hold of it, and no configuration checks them.

\* On streaming replies: "As for every HTTP/2 request, req is freed when its
\* stream closes".
FreedWithStream ==
    \A s \in Streams : str[s].state = "closed" => req[s].state # "live"

\* On evhtp_add_vhost: "a keep-alive connection [may] make multiple requests with
\* different Host: values".
VhostPerRequest ==
    pc.at = "cb" => req[pc.s].htp = VhostFor(Main, Host[pc.s])

-----------------------------------------------------------------------------
(* The inductive invariant behind NoDanglingRequest, ReplyIntact,          *)
(* BodyIntact and DispatchedOnce.  It says of every stream q, its request  *)
(* r and cb, whether the request's callback is running:                    *)

InCb(s) == pc.at = "cb" /\ pc.s = s

\* who has a pointer to the request
Pointed(q, r, cb) ==
    q.user \/ (q.state = "open" /\ q.prd # "none") \/ cb => r.state = "live"

\* how far it is; n is how often the callback was called
Phase(q, r, n, cb) ==
    /\ q.state = "idle" => q = NoStream /\ r = NoRequest /\ n = 0
    /\ q.state = "open" /\ ~q.remote_end => q.user \/ cb
    /\ n # 0 => cb \/ q.state \in {"closing", "closed"} \/ q.remote_end

\* the units of a reply of length k
Units(k) == [i \in 1 .. k |-> i]

\* the reply; w is what was sent of it, k how much the application supplied
Nothing(r, w, k) == k = 0 /\ r.out = <<>> /\ w.data = <<>>

Replying(q, r, w, n, k) ==
    /\ n = 0 => Nothing(r, w, k) /\ q.prd = "none" /\ "STREAMING" \notin r.flags
    /\ r.flags \cap {"FINISHED", "STREAMING"} = {} =>
         Nothing(r, w, k) /\ ~w.end /\ q.resp = "none"
    /\ w.end \/ (q.resp # "none" /\ q.prd # "stream") => "FINISHED" \in r.flags
    /\ q.resp # "none" /\ q.prd = "none" => Nothing(r, w, k)
    /\ q.resp \in {"data", "parked"} /\ ~q.local_end => q.prd # "none"
    /\ r.state = "live" => w.data \o r.out = Units(k)
    /\ w.end => w.data = Units(k)

\* the first m units of the body of stream s
Body(s, m) == [i \in 1 .. m |-> <<s, i>>]

\* the request's body, of which m units have come; an on_read hook that pauses
\* leaves them in the scratch buffer all streams share
Received(s, q, r, m, cb) ==
    /\ q.state = "idle" => m = 0
    /\ "PAUSE" \notin ReadResults /\ r.state = "live" /\ ("FINISHED" \notin r.flags \/ cb) =>
         r.in = Body(s, m)

Sound(s, q, r, w, m, k, n, cb) ==
    Pointed(q, r, cb) /\ Phase(q, r, n, cb) /\ Replying(q, r, w, n, k) /\ Received(s, q, r, m, cb)

ConnInv ==
    /\ pc.at = "cb" <=> pc.s \in Streams
    /\ "PAUSE" \notin ReadResults => conn.scratch = <<>>
    /\ conn.state = "freed" => pc.at = "idle" /\ ~conn.flush /\ ~conn.output

H2Inv ==
    /\ TypeOK /\ ConnInv
    /\ \A s \in Streams : Sound(s, str[s], req[s], wire[s], sent[s], supplied[s], cbs[s], InCb(s))
=============================================================================
