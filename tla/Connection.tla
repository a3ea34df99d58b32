----------------------------- MODULE Connection -----------------------------
(***************************************************************************)
(* The life of one HTTP/1.x server connection of evhtp.c: the bufferevent  *)
(* callbacks (htp__connection_readcb_, writecb_, eventcb_), the parser     *)
(* hooks they run, pausing and resuming, ownership, and freeing.           *)
(*                                                                         *)
(* Everything here happens on one event loop, so one callback runs at a    *)
(* time: run.pc is "loop" between callbacks, "run" inside htparser_run and *)
(* "done" between its return and the end of htp__connection_readcb_.       *)
(*                                                                         *)
(* A message m of the client is a head followed by Body[m] units of body;  *)
(* a token [msg, part] is the head (part 0) or a unit of the body.         *)
(***************************************************************************)
EXTENDS Naturals, Sequences

CONSTANTS
    NumMsgs,        \* the messages the client sends are 1 .. NumMsgs
    Host,           \* the Host header of each message
    Body,           \* the body length of each message
    KeepAlive,      \* whether each message asks to keep the connection
    Expect,         \* whether each message carries an Expect header
    Stream, Start,  \* the tokens of all messages in their order, and how
                    \* many of them come before each message
    Main, Vhosts,   \* the evhtp_t that accepted, and its virtual hosts
    MaxBody,        \* max_body_size, 0 is unlimited
    MaxKeepalive,   \* max_keepalive_requests, 0 is unlimited
    MaxRead,        \* most tokens one read of the socket returns
    Pipelined,      \* the client sends a request before the last is answered
    MayClose,       \* the client may close its end
    HookResults,    \* what on_headers and on_read hooks may return
    CbActions       \* what a request callback may do

Msgs == 1 .. NumMsgs
Tokens == { t \in [msg : Msgs, part : Nat] : t.part <= Body[t.msg] }

ASSUME ConnectionAssumption ==
    /\ NumMsgs \in Nat /\ MaxBody \in Nat /\ MaxKeepalive \in Nat
    /\ MaxRead \in Nat \ {0}
    /\ Body \in [Msgs -> Nat] /\ KeepAlive \in [Msgs -> BOOLEAN]
    /\ Expect \in [Msgs -> BOOLEAN] /\ Host \in [Msgs -> Vhosts \cup {Main}]
    /\ Pipelined \in BOOLEAN /\ MayClose \in BOOLEAN /\ Main \notin Vhosts
    /\ HookResults \subseteq {"OK", "PAUSE", "ERROR"}
    /\ CbActions \subseteq {"reply", "defer", "pause", "conn_pause",
                            "stream_length", "stream_chunked", "own"}

ASSUME StreamAssumption ==
    /\ Start \in [1 .. NumMsgs + 1 -> Nat] /\ Start[1] = 0
    /\ Stream \in Seq(Tokens) /\ Len(Stream) = Start[NumMsgs + 1]
    /\ \A m \in Msgs :
         /\ Start[m + 1] = Start[m] + Body[m] + 1 /\ Start[m + 1] <= Len(Stream)
         /\ \A k \in 0 .. Body[m] : Stream[Start[m] + 1 + k] = [msg |-> m, part |-> k]

VARIABLES
    c,          \* the evhtp_connection_t
    req,        \* c->request
    p,          \* c->parser
    run,        \* where the event loop is: [pc, off]
    input,      \* the input evbuffer: a sequence of tokens
    output,     \* the output evbuffer: a sequence of [msg, kind]
    next,       \* how many tokens the client has sent
    closed,     \* the client has closed its end
    delivered,  \* what the client has received (history)
    cbs         \* the request callbacks that ran (history)

vars == <<c, req, p, run, input, output, next, closed, delivered, cbs>>

-----------------------------------------------------------------------------
(* The structures.                                                         *)

NoReq == [msg |-> 0, status |-> "OK", finished |-> FALSE, keepalive |-> FALSE,
          htp |-> Main, buf |-> << >>, cb |-> "none"]

\* htp__request_new__: from the cache or fresh, the fields come out the same.
NewReq(m) == [NoReq EXCEPT !.msg = m, !.htp = c.htp]

Parser == [state |-> "start", paused |-> FALSE, left |-> 0]

Failed == [p EXCEPT !.state = "error"]

Conn == [state |-> "live", flags |-> {"OWNER"}, htp |-> Main, reading |-> TRUE,
         writing |-> TRUE, resume_ev |-> FALSE, scratch |-> << >>, body_bytes_read |-> 0,
         num_requests |-> 0]

Loop == [pc |-> "loop", off |-> 0]

Item(m, k) == [msg |-> m, kind |-> k]

Items == [msg : Msgs, kind : {"continue", "part", "final"}]

Init ==
    /\ c = Conn
    /\ req = NoReq
    /\ p = Parser
    /\ run = Loop
    /\ input = << >> /\ output = << >>
    /\ next = 0
    /\ closed = FALSE
    /\ delivered = << >> /\ cbs = << >>

Idle == run.pc = "loop" /\ c.state = "live"

(* evhtp_connection_free: the request goes with the connection.  Output    *)
(* that is still queued is written first, and freecb frees the bufferevent *)
(* when it has been; no event callback is left on it.                      *)
FreeConn(out, writing) ==
    /\ c' = [Conn EXCEPT !.state = IF out = << >> THEN "freed" ELSE "draining",
                         !.reading = FALSE, !.writing = writing]
    /\ req' = NoReq
    /\ p' = Parser
    /\ run' = Loop

-----------------------------------------------------------------------------
(* The entry of htp__connection_readcb_, with in, r and f the input, the   *)
(* request and the connection flags it finds.                              *)

ReadReturnsAtOnce(in, r, f) ==
    \/ in = << >> /\ r # NoReq /\ r.status # "PAUSE"
    \/ "PAUSED" \in f

ReadCb(in, r, f) ==
    IF ReadReturnsAtOnce(in, r, f)
    THEN run' = Loop /\ req' = r
    ELSE run' = [pc |-> "run", off |-> 0] /\ req' = [r EXCEPT !.status = "OK"]

(***************************************************************************)
(* htparser_run with request_psets: one step per hook.                     *)
(***************************************************************************)

Running(s) == run.pc = "run" /\ p.state = s /\ ~p.paused

Tok == input[run.off + 1]

\* Mutant: a new request is begun although the last one is not finished.
RunBeginAnyway ==
    /\ Running("start") /\ run.off < Len(input)
    /\ \/ /\ "PAUSED" \in c.flags
          /\ p' = Failed
          /\ UNCHANGED req
       \/ /\ "PAUSED" \notin c.flags
          /\ p' = [Parser EXCEPT !.state = "head"]
          /\ req' = NewReq(Tok.msg)
    /\ UNCHANGED <<c, run, input, output, next, closed, delivered, cbs>>

\* on_msg_begin: htp__request_parse_start_
RunBegin ==
    /\ Running("start") /\ run.off < Len(input)
    /\ \/ /\ "PAUSED" \in c.flags \/ (req # NoReq /\ ~req.finished)
          /\ p' = Failed
          /\ UNCHANGED req
       \/ /\ "PAUSED" \notin c.flags /\ (req = NoReq \/ req.finished)
          /\ p' = [Parser EXCEPT !.state = "head"]
          /\ req' = NewReq(Tok.msg)
    /\ UNCHANGED <<c, run, input, output, next, closed, delivered, cbs>>

\* htp__request_parse_hostname_: virtual hosts are looked up in c->htp, and
\* a virtual host has none of its own.
VhostFor(m) == IF c.htp = Main /\ Host[m] \in Vhosts THEN Host[m] ELSE c.htp

\* hostname and on_hdrs_complete: htp__request_parse_headers_
RunHead ==
    /\ Running("head") /\ run.off < Len(input)
    /\ run' = [run EXCEPT !.off = @ + 1]
    /\ LET m == Tok.msg IN
       \E r \in HookResults :
         /\ c' = [c EXCEPT !.htp = VhostFor(m)]
         /\ req' = [req EXCEPT !.htp = VhostFor(m), !.status = r,
                               !.keepalive = KeepAlive[m]]
         /\ p' = IF r = "ERROR" THEN Failed
                 ELSE [state |-> IF Body[m] = 0 THEN "complete" ELSE "body",
                       paused |-> r = "PAUSE", left |-> Body[m]]
         /\ output' = IF r # "ERROR" /\ Expect[m]
                      THEN Append(output, Item(m, "continue")) ELSE output
    /\ UNCHANGED <<input, next, closed, delivered, cbs>>

\* body: parse_body of the parser, then htp__request_parse_body_
BodyLen == IF Len(input) - run.off < p.left THEN Len(input) - run.off ELSE p.left

TooLong(len) == MaxBody > 0 /\ c.body_bytes_read + len >= MaxBody

RunBody ==
    /\ Running("body") /\ run.off < Len(input)
    /\ run' = [run EXCEPT !.off = @ + BodyLen]
    /\ LET buf == c.scratch \o SubSeq(input, run.off + 1, run.off + BodyLen)
           rest == [p EXCEPT !.left = @ - BodyLen,
                             !.state = IF p.left = BodyLen THEN "complete"
                                                           ELSE "body"]
       IN \/ /\ TooLong(BodyLen)
             /\ c' = [c EXCEPT !.flags = @ \cup {"ERROR"}]
             /\ req' = [req EXCEPT !.status = "TOO_LONG"]
             /\ p' = Failed
          \/ /\ ~TooLong(BodyLen)
             /\ \E r \in HookResults :
                  /\ req' = [req EXCEPT !.status = r,
                                        !.buf = IF r = "OK" THEN @ \o buf ELSE @]
                  /\ c' = [c EXCEPT !.scratch = IF r = "OK" THEN << >> ELSE buf,
                                    !.body_bytes_read = @ + BodyLen]
                  /\ p' = IF r = "ERROR" THEN Failed
                          ELSE [rest EXCEPT !.paused = r = "PAUSE"]
    /\ UNCHANGED <<input, output, next, closed, delivered, cbs>>

(* on_msg_complete: htp__request_parse_fini_ and the request callback.     *)
(* "reply" calls evhtp_send_reply; "defer" replies from a later event;     *)
(* "pause" calls evhtp_request_pause, "conn_pause" evhtp_connection_pause; *)
(* the stream callbacks call evhtp_send_reply_start and pause, with a      *)
(* length announced (nothing is left to write at the end) or chunked;      *)
(* "own" calls evhtp_request_take_ownership.                               *)
Pauses(a) == a \in {"pause", "conn_pause", "stream_length", "stream_chunked"}

Reply(a, m) ==
    CASE a \in {"reply", "stream_length"} -> <<Item(m, "final")>>
      [] a = "stream_chunked"             -> <<Item(m, "part")>>
      [] OTHER                            -> << >>

RunComplete ==
    /\ Running("complete")
    /\ run' = [run EXCEPT !.pc = "done"]
    /\ \/ /\ "PAUSED" \in c.flags
          /\ p' = Failed
          /\ UNCHANGED <<c, req, output, cbs>>
       \/ /\ "PAUSED" \notin c.flags
          /\ \E a \in CbActions :
               /\ req' = [req EXCEPT !.cb = a, !.finished = a = "reply",
                                     !.status = IF Pauses(a) /\ a # "conn_pause"
                                                THEN "PAUSE" ELSE @]
               /\ c' = CASE Pauses(a) -> [c EXCEPT !.flags = @ \cup {"PAUSED"},
                                                   !.reading = FALSE]
                         [] a = "own" -> [c EXCEPT !.flags = @ \ {"OWNER"},
                                                   !.reading = FALSE]
                         [] OTHER     -> c
               /\ p' = IF Pauses(a) THEN Failed ELSE [p EXCEPT !.state = "start"]
               /\ output' = output \o Reply(a, req.msg)
               /\ cbs' = Append(cbs, [msg |-> req.msg, htp |-> req.htp,
                                      body |-> req.buf])
    /\ UNCHANGED <<input, next, closed, delivered>>

\* the run stops: paused, failed, or out of data
RunOut ==
    /\ run.pc = "run"
    /\ p.paused \/ p.state = "error" \/ (p.state # "complete" /\ run.off = Len(input))
    /\ run' = [run EXCEPT !.pc = "done"]
    /\ UNCHANGED <<c, req, p, input, output, next, closed, delivered, cbs>>

-----------------------------------------------------------------------------
(* The rest of htp__connection_readcb_, after htparser_run returned.       *)

\* Mutant: what was available is drained, not what the parser has read.
AllDrained == << >>

Drained == SubSeq(input, run.off + 1, Len(input))

ReadHandover ==
    /\ run.pc = "done" /\ "OWNER" \notin c.flags
    /\ input' = Drained
    /\ c' = [Conn EXCEPT !.state = "owned", !.reading = FALSE]
    /\ req' = NoReq /\ p' = Parser /\ run' = Loop
    /\ UNCHANGED <<output, next, closed, delivered, cbs>>

ReadTooLong ==
    /\ run.pc = "done" /\ "OWNER" \in c.flags
    /\ req.status = "TOO_LONG"
    /\ FreeConn(output, c.writing)
    /\ UNCHANGED <<input, output, next, closed, delivered, cbs>>

\* evhtp_request_pause
ReadPause ==
    /\ run.pc = "done" /\ "OWNER" \in c.flags
    /\ req.status = "PAUSE"
    /\ c' = [c EXCEPT !.flags = @ \cup {"PAUSED"}, !.reading = FALSE]
    /\ input' = Drained
    /\ run' = Loop
    /\ UNCHANGED <<req, p, output, next, closed, delivered, cbs>>

ReadError ==
    /\ run.pc = "done" /\ "OWNER" \in c.flags
    /\ req.status \notin {"TOO_LONG", "PAUSE"} /\ p.state = "error"
    /\ input' = Drained
    /\ FreeConn(output, c.writing)
    /\ UNCHANGED <<output, next, closed, delivered, cbs>>

\* evhtp_connection_resume
Resumed(cn) ==
    IF "PAUSED" \in cn.flags
    THEN [cn EXCEPT !.flags = @ \ {"PAUSED"}, !.resume_ev = TRUE]
    ELSE cn

ReadReturn ==
    /\ run.pc = "done" /\ "OWNER" \in c.flags
    /\ req.status \notin {"TOO_LONG", "PAUSE"} /\ p.state # "error"
    /\ input' = Drained
    /\ c' = IF Drained # << >> THEN Resumed(c) ELSE c
    /\ run' = Loop
    /\ UNCHANGED <<req, p, output, next, closed, delivered, cbs>>

RunParser == RunBegin \/ RunHead \/ RunBody \/ RunComplete \/ RunOut
ReadDone == ReadHandover \/ ReadTooLong \/ ReadPause \/ ReadError \/ ReadReturn

-----------------------------------------------------------------------------
(* htp__connection_writecb_, called by libevent when the output has been   *)
(* written.  Flush is a write that leaves something in the buffer.         *)

Flush ==
    /\ run.pc = "loop" /\ c.state \in {"live", "draining"} /\ c.writing
    /\ Len(output) > 1
    /\ delivered' = Append(delivered, Head(output))
    /\ output' = Tail(output)
    /\ UNCHANGED <<c, req, p, run, input, next, closed, cbs>>

FlushLast ==
    /\ run.pc = "loop" /\ c.writing
    /\ output # << >>
    /\ delivered' = delivered \o output
    /\ output' = << >>

\* freecb
WriteDraining ==
    /\ FlushLast /\ c.state = "draining"
    /\ c' = [c EXCEPT !.state = "freed"]
    /\ UNCHANGED <<req, p, run, input, next, closed, cbs>>

WritePaused ==
    /\ FlushLast /\ c.state = "live"
    /\ req # NoReq /\ "PAUSED" \in c.flags
    /\ UNCHANGED <<c, req, p, run, input, next, closed, cbs>>

Unpaused == req # NoReq /\ "PAUSED" \notin c.flags

\* what the WAITING branch does before it looks at the input
NotWaiting == [c EXCEPT !.flags = @ \ {"WAITING"},
                        !.reading = @ \/ "WAITING" \in c.flags]

WriteReads ==
    /\ FlushLast /\ c.state = "live" /\ Unpaused
    /\ "WAITING" \in c.flags /\ input # << >>
    /\ c' = NotWaiting
    /\ ReadCb(input, req, c'.flags)
    /\ UNCHANGED <<p, input, next, closed, cbs>>

Falls == Unpaused /\ ("WAITING" \notin c.flags \/ input = << >>)

WriteUnfinished ==
    /\ FlushLast /\ c.state = "live" /\ Falls
    /\ ~req.finished
    /\ c' = NotWaiting
    /\ UNCHANGED <<req, p, run, input, next, closed, cbs>>

Served == IF MaxKeepalive > 0 THEN c.num_requests + 1 ELSE c.num_requests

KeepsAlive == req.keepalive /\ (MaxKeepalive = 0 \/ Served < MaxKeepalive)

\* Mutant: body_bytes_read is not reset.
WriteKeepAliveKeepsCount ==
    /\ FlushLast /\ c.state = "live" /\ Falls
    /\ req.finished /\ KeepsAlive
    /\ c' = [NotWaiting EXCEPT !.num_requests = Served, !.htp = Main,
                               !.flags = @ \cup {"KEEPALIVE"}]
    /\ req' = NoReq
    /\ p' = Parser
    /\ UNCHANGED <<run, input, next, closed, cbs>>

WriteKeepAlive ==
    /\ FlushLast /\ c.state = "live" /\ Falls
    /\ req.finished /\ KeepsAlive
    /\ c' = [NotWaiting EXCEPT !.num_requests = Served, !.body_bytes_read = 0,
                               !.htp = Main, !.flags = @ \cup {"KEEPALIVE"}]
    /\ req' = NoReq
    /\ p' = Parser
    /\ UNCHANGED <<run, input, next, closed, cbs>>

WriteClose ==
    /\ FlushLast /\ c.state = "live" /\ Falls
    /\ req.finished /\ ~KeepsAlive
    /\ FreeConn(<< >>, c.writing)
    /\ UNCHANGED <<input, next, closed, cbs>>

\* The exit for a connection without a request is not here: a request is
\* replaced, or dropped when its output is gone, so no write callback finds none.
WriteCb == \/ WriteDraining \/ WritePaused \/ WriteReads \/ WriteUnfinished
           \/ WriteKeepAlive \/ WriteClose

-----------------------------------------------------------------------------
(* htp__connection_eventcb_.  libevent has turned off the side of the      *)
(* bufferevent that met the end of file or the error.                      *)

\* Mutant: an error frees the connection, paused or not.
EventCbFrees(reading, writing) ==
    /\ FreeConn(output, writing)
    /\ UNCHANGED <<input, output, next, closed, delivered, cbs>>

EventCb(reading, writing) ==
    /\ \/ /\ "PAUSED" \in c.flags
          /\ c' = [c EXCEPT !.flags = @ \cup {"ERROR", "FREE_CONN"},
                            !.reading = reading, !.writing = writing]
          /\ UNCHANGED <<req, p, run>>
       \/ /\ "PAUSED" \notin c.flags
          /\ FreeConn(output, writing)
    /\ UNCHANGED <<input, output, next, closed, delivered, cbs>>

ReadEof == Idle /\ closed /\ c.reading /\ EventCb(FALSE, c.writing)

WriteFails ==
    /\ Idle /\ closed /\ c.writing /\ output # << >>
    /\ EventCb(c.reading, FALSE)

\* the same with the callbacks of evhtp_connection_free
DrainFails ==
    /\ c.state = "draining" /\ closed /\ c.writing
    /\ c' = [c EXCEPT !.writing = FALSE]
    /\ UNCHANGED <<req, p, run, input, output, next, closed, delivered, cbs>>

(* htp__connection_resumecb_, run by the event that                        *)
(* evhtp_connection_resume activated.                                      *)

\* Mutant: what a paused body hook left in the scratch buffer is dropped.
RequeuedWithoutScratch == IF req = NoReq THEN req ELSE [req EXCEPT !.status = "OK"]

\* the request after its status is reset and the scratch buffer moved to it
Requeued == IF req = NoReq THEN req
            ELSE [req EXCEPT !.status = "OK", !.buf = @ \o c.scratch]

Unscratched == [c EXCEPT !.flags = @ \ {"PAUSED"}, !.resume_ev = FALSE,
                         !.scratch = IF req = NoReq THEN @ ELSE << >>]

\* Mutant: the request to free a paused connection is forgotten.
ResumeKeeps ==
    /\ Idle /\ c.resume_ev /\ "FREE_CONN" \in c.flags
    /\ c' = Unscratched
    /\ req' = Requeued
    /\ UNCHANGED <<p, run, input, output, next, closed, delivered, cbs>>

ResumeFrees ==
    /\ Idle /\ c.resume_ev /\ "FREE_CONN" \in c.flags
    /\ FreeConn(output, c.writing)
    /\ UNCHANGED <<input, output, next, closed, delivered, cbs>>

ResumeWaits ==
    /\ Idle /\ c.resume_ev /\ "FREE_CONN" \notin c.flags
    /\ output # << >>
    /\ c' = [Unscratched EXCEPT !.flags = @ \cup {"WAITING"}, !.writing = TRUE]
    /\ req' = Requeued
    /\ UNCHANGED <<p, run, input, output, next, closed, delivered, cbs>>

\* Mutant: the parser is not taken out of its pause.
ResumeReadsParserPaused ==
    /\ Idle /\ c.resume_ev /\ "FREE_CONN" \notin c.flags
    /\ output = << >>
    /\ c' = [Unscratched EXCEPT !.reading = TRUE]
    /\ \/ /\ input # << >>
          /\ ReadCb(input, Requeued, c'.flags)
       \/ /\ input = << >>
          /\ req' = Requeued
          /\ UNCHANGED run
    /\ UNCHANGED <<p, input, output, next, closed, delivered, cbs>>

ResumeReads ==
    /\ Idle /\ c.resume_ev /\ "FREE_CONN" \notin c.flags
    /\ output = << >>
    /\ c' = [Unscratched EXCEPT !.reading = TRUE]
    /\ \/ /\ p.paused
          /\ p' = [p EXCEPT !.paused = FALSE]
          /\ ReadCb(input, [Requeued EXCEPT !.status =
                              IF req = NoReq THEN @ ELSE "PAUSE"], c'.flags)
       \/ /\ ~p.paused /\ input # << >>
          /\ ReadCb(input, Requeued, c'.flags)
          /\ UNCHANGED p
       \/ /\ ~p.paused /\ input = << >>
          /\ req' = Requeued
          /\ UNCHANGED <<p, run>>
    /\ UNCHANGED <<input, output, next, closed, delivered, cbs>>

ResumeCb == ResumeFrees \/ ResumeWaits \/ ResumeReads

-----------------------------------------------------------------------------
(* The application between callbacks.  A deferred reply and the resumption *)
(* are made by one callback of the application's, as in the examples       *)
(* (test_proxy.c backend_cb, test_h2_streaming.c finish).                  *)

AppFinish ==
    /\ Idle
    /\ req.cb \in {"defer", "pause", "conn_pause", "stream_length", "stream_chunked"}
    /\ ~req.finished
    /\ req' = [req EXCEPT !.finished = TRUE]
    /\ output' = IF req.cb = "stream_length" THEN output
                 ELSE Append(output, Item(req.msg, "final"))
    /\ c' = Resumed(c)
    /\ UNCHANGED <<p, run, input, next, closed, delivered, cbs>>

\* after a hook returned EVHTP_RES_PAUSE
AppResume ==
    /\ Idle /\ req.cb = "none" /\ "PAUSED" \in c.flags
    /\ c' = Resumed(c)
    /\ UNCHANGED <<req, p, run, input, output, next, closed, delivered, cbs>>

-----------------------------------------------------------------------------
(* The client and the socket: libevent reads what has arrived and calls    *)
(* htp__connection_readcb_.                                                *)

Answered == { m \in Msgs : \E i \in DOMAIN delivered : delivered[i] = Item(m, "final") }

MaySend(t) == Pipelined \/ 1 .. t.msg - 1 \subseteq Answered

\* the read takes n tokens of those the client has sent or sends now
Recv ==
    /\ Idle /\ c.reading
    /\ \E n \in 1 .. MaxRead :
         /\ next + n <= Len(Stream)
         /\ \A i \in next + 1 .. next + n : MaySend(Stream[i])
         /\ next' = next + n
         /\ input' = input \o SubSeq(Stream, next + 1, next + n)
         /\ ReadCb(input', req, c.flags)
    /\ UNCHANGED <<c, p, output, closed, delivered, cbs>>

Close ==
    /\ MayClose /\ ~closed
    /\ closed' = TRUE
    /\ UNCHANGED <<c, req, p, run, input, output, next, delivered, cbs>>

Next == \/ RunParser \/ ReadDone \/ Flush \/ WriteCb
        \/ ReadEof \/ WriteFails \/ DrainFails \/ ResumeCb
        \/ AppFinish \/ AppResume \/ Recv \/ Close

Spec == Init /\ [][Next]_vars

(* The loop runs every event that is ready; the application answers what   *)
(* it was given and resumes what it paused; the client sends its messages. *)
FairSpec ==
    /\ Spec
    /\ WF_vars(RunParser) /\ WF_vars(ReadDone) /\ WF_vars(WriteCb)
    /\ WF_vars(ReadEof) /\ WF_vars(ResumeCb)
    /\ WF_vars(AppFinish) /\ WF_vars(AppResume) /\ WF_vars(Recv)

-----------------------------------------------------------------------------
(* Properties.                                                             *)

TypeOK ==
    /\ c \in [state : {"live", "draining", "freed", "owned"},
              flags : SUBSET {"OWNER", "PAUSED", "WAITING", "FREE_CONN",
                              "ERROR", "KEEPALIVE"},
              htp : Vhosts \cup {Main}, reading : BOOLEAN, writing : BOOLEAN,
              resume_ev : BOOLEAN, scratch : Seq(Tokens),
              body_bytes_read : Nat, num_requests : Nat]
    /\ req \in [msg : Msgs \cup {0}, status : {"OK", "PAUSE", "ERROR", "TOO_LONG"},
                finished : BOOLEAN, keepalive : BOOLEAN,
                htp : Vhosts \cup {Main}, buf : Seq(Tokens),
                cb : CbActions \cup {"none"}]
    /\ p \in [state : {"start", "head", "body", "complete", "error"},
              paused : BOOLEAN, left : Nat]
    /\ run \in [pc : {"loop", "run", "done"}, off : 0 .. Len(input)]
    /\ input \in Seq(Tokens)
    /\ next \in 0 .. Len(Stream) /\ closed \in BOOLEAN
    /\ output \in Seq(Items) /\ delivered \in Seq(Items)
    /\ cbs \in Seq([msg : Msgs, htp : Vhosts \cup {Main}, body : Seq(Tokens)])

IsFinal(item) == item.kind = "final"

\* in s, the final replies are those of 1, 2, 3 and so on, each there once
InOrder(s) ==
    \A i \in DOMAIN s : IsFinal(s[i]) =>
        /\ \A j \in 1 .. i - 1 : IsFinal(s[j]) => s[j].msg < s[i].msg
        /\ \A m \in 1 .. s[i].msg - 1 : \E j \in 1 .. i - 1 : s[j] = Item(m, "final")

(* Whatever the callbacks pause, defer or stream, the client receives the  *)
(* replies in the order of its requests, one to a request: a new request   *)
(* is only begun when the one before it is finished (parse_start).         *)
RepliesInOrder == InOrder(delivered \o output)

(* A request callback finds the whole body of its own message, and nothing *)
(* else, in request->buffer_in, however the body was cut into reads and    *)
(* however often the body hook paused the connection: the scratch buffer   *)
(* of a paused hook is neither lost nor given to the next request.         *)
BodyIntact ==
    \A i \in DOMAIN cbs :
        cbs[i].body = [k \in 1 .. Body[cbs[i].msg] |->
                         [msg |-> cbs[i].msg, part |-> k]]

(* From evhtp_request_pause until the application resumes, the connection  *)
(* and the request it holds on to stay: the read callback in which it was  *)
(* called does not free them, nor does an error of the socket, and later   *)
(* events parse nothing and call nothing.                                  *)
PauseHolds ==
    [][("PAUSED" \in c.flags) =>
        /\ c'.state = "live" /\ req'.msg = req.msg
        /\ Idle => cbs' = cbs /\ p' = p]_vars

(* What the connection keeps for one request does not outlive it: every    *)
(* request is dispatched to the virtual host its own Host header names,    *)
(* also after requests to other hosts; a body is refused for its own size, *)
(* the bytes of earlier requests do not count; and no connection makes     *)
(* more requests than max_keepalive_requests.                              *)
PerRequestState ==
    /\ \A i \in DOMAIN cbs : cbs[i].htp = Host[cbs[i].msg]
    /\ req.status = "TOO_LONG" => Body[req.msg] >= MaxBody
    /\ MaxKeepalive > 0 => Len(cbs) <= MaxKeepalive

(* What evhtp_request_take_ownership hands over is the bufferevent with    *)
(* exactly the bytes that arrived after the request: none lost, none seen  *)
(* twice, whatever else the read that brought the request had brought.     *)
HandoverExact ==
    c.state = "owned" =>
        LET end == Start[cbs[Len(cbs)].msg + 1]
        IN  /\ end + Len(input) = next
            /\ \A i \in 1 .. Len(input) : input[i] = Stream[end + i]

-----------------------------------------------------------------------------
(* The inductive invariant.                                                *)

(* Pausing, waiting for a write and being resumed exclude each other, and  *)
(* nothing is read meanwhile.  A run of the parser starts from none of     *)
(* them, and when it ends with the connection paused the read callback     *)
(* knows it from the request, save after evhtp_connection_pause.           *)
PauseInv ==
    /\ run.pc # "loop" \/ "PAUSED" \in c.flags \/ c.resume_ev => c.state = "live"
    /\ run.pc = "loop" => run.off = 0
    /\ run.pc # "loop" /\ req.status = "PAUSE" =>
         ~req.finished /\ (p.paused \/ p.state = "error")
    /\ "PAUSED" \in c.flags =>
         /\ ~c.reading /\ ~c.resume_ev /\ run.pc # "run" /\ ~req.finished
         /\ "OWNER" \in c.flags /\ "WAITING" \notin c.flags
         /\ run.pc = "done" => \/ req.status = "PAUSE"
                               \/ req.cb = "conn_pause" /\ p.state = "error"
    /\ c.resume_ev => ~c.reading /\ run.pc = "loop" /\ "WAITING" \notin c.flags
    /\ "WAITING" \in c.flags => ~c.reading /\ run.pc = "loop"
    /\ "OWNER" \notin c.flags => run.pc = "done" /\ req.cb = "own"

\* the input holds the end of what the client has sent
InputInv ==
    /\ Len(input) <= next
    /\ \A i \in 1 .. Len(input) : input[i] = Stream[next - Len(input) + i]

\* how many tokens the parser has read
Parsed == (next - Len(input)) + run.off

\* s is the first n units of the body of m
Holds(s, m, n) == Len(s) = n /\ \A k \in 1 .. n : s[k] = [msg |-> m, part |-> k]

\* one callback for each message, in order, with its body
CbsInv ==
    /\ Len(cbs) <= NumMsgs
    /\ \A i \in 1 .. Len(cbs) : cbs[i].msg = i /\ Holds(cbs[i].body, i, Body[i])

\* between two messages: no request, and a fresh parser
NoRequestInv ==
    /\ req = NoReq /\ p = Parser /\ c.scratch = << >>
    /\ Parsed = Start[Len(cbs) + 1]

\* inside a message: what was read of its body is in buffer_in and, after a
\* hook that paused, in the scratch buffer
ParsingInv ==
    /\ req.msg = Len(cbs) + 1 /\ ~req.finished /\ p.state # "start"
    /\ p.state = "head" =>
         Parsed = Start[req.msg] /\ req.buf = << >> /\ c.scratch = << >>
    /\ p.state \in {"body", "complete"} =>
         /\ p.left <= Body[req.msg] /\ (p.state = "complete" => p.left = 0)
         /\ Parsed = Start[req.msg] + 1 + (Body[req.msg] - p.left)
         /\ Holds(req.buf \o c.scratch, req.msg, Body[req.msg] - p.left)
         /\ ~p.paused => c.scratch = << >>
    /\ p.state = "error" => run.pc # "loop" /\ req.status \in {"ERROR", "TOO_LONG"}

\* after the callback: the parser is at the end of the message
DispatchedInv ==
    /\ req.msg = Len(cbs) /\ c.scratch = << >> /\ p.state \in {"start", "error"}
    /\ Parsed = Start[Len(cbs) + 1]

ParserInv ==
    c.state = "live" =>
        /\ req.msg = 0 => NoRequestInv
        /\ req.msg # 0 /\ req.cb = "none" => ParsingInv
        /\ req.msg # 0 /\ req.cb # "none" => DispatchedInv

\* the final replies in s are those of 1 .. n
Finals(s, n) ==
    /\ \A i \in DOMAIN s : IsFinal(s[i]) => s[i].msg <= n
    /\ \A m \in 1 .. n : \E i \in DOMAIN s : s[i] = Item(m, "final")

\* the callback of the request has run and its final reply is not queued yet
Unanswered == req.cb \notin {"none", "stream_length"} /\ ~req.finished

AnswerInv ==
    c.state = "live" =>
        Finals(delivered \o output, IF Unanswered THEN Len(cbs) - 1 ELSE Len(cbs))

ConnInv ==
    /\ TypeOK /\ PauseInv /\ InputInv /\ CbsInv /\ ParserInv
    /\ AnswerInv /\ RepliesInOrder /\ HandoverExact

(* With a client that waits for each reply, and no reply complete before   *)
(* the application says so, the final reply of a request is the last thing *)
(* in the output until the write callback drops the request, and nothing   *)
(* of the next message has been sent until then.                           *)
TurnInv ==
    c.state = "live" =>
        /\ \A i \in DOMAIN output :
             IsFinal(output[i]) => req.finished /\ i = Len(output)
        /\ req.finished => output # << >> /\ output[Len(output)] = Item(Len(cbs), "final")
        /\ req.cb # "none" => next <= Start[Len(cbs) + 1]
        /\ req.cb = "none" /\ Len(cbs) < NumMsgs => next <= Start[Len(cbs) + 2]

\* so what the connection keeps is reset before the next request begins
FreshInv ==
    c.state = "live" =>
        /\ req.msg = 0 \/ p.state = "head" => c.htp = Main /\ c.body_bytes_read = 0
        /\ p.state \in {"body", "complete"} =>
             req.htp = Host[req.msg] /\ c.body_bytes_read = Body[req.msg] - p.left
        /\ MaxKeepalive > 0 =>
             IF req.cb = "none"
             THEN c.num_requests = Len(cbs) /\ Len(cbs) < MaxKeepalive
             ELSE c.num_requests = Len(cbs) - 1

SequentialInv == TurnInv /\ FreshInv /\ PerRequestState

-----------------------------------------------------------------------------
(* Liveness.                                                               *)

\* the messages a server that honours the limits has to answer
Due == { m \in Msgs : /\ \A k \in 1 .. m - 1 : KeepAlive[k]
                      /\ MaxKeepalive = 0 \/ m <= MaxKeepalive }

(* Every request the client sends is answered, unless the client goes away *)
(* first: no pause, resumption or write leaves the connection waiting for  *)
(* an event that never comes.                                              *)
EveryRequestAnswered == \A m \in Msgs : <>(m \in Due => m \in Answered \/ closed)

(* Once the client is gone the connection and its request are freed, also  *)
(* if it left while the connection was paused.                             *)
ClosedIsFreed == closed ~> c.state # "live"

=============================================================================
