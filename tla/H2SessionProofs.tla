-------------------------- MODULE H2SessionProofs --------------------------
(****************************************************************************)
(* NoDanglingRequest, DispatchedOnce, ReplyIntact and BodyIntact of         *)
(* H2Session, for any number of streams and any length of requests and      *)
(* replies.                                                                 *)
(*                                                                          *)
(* H2Inv speaks of one stream at a time, and so does a step: what it makes  *)
(* of a stream q and its request r is shown to be Sound by lemmas about the *)
(* records alone; StreamStep then puts that stream among the others.        *)
(****************************************************************************)
EXTENDS H2Session, SequenceTheorems, TLAPS

-----------------------------------------------------------------------------
(* Units of replies and bodies *)

\* The order in which units are put together does not matter.
LEMMA ConcatAssoc ==
    ASSUME NEW a \in Seq(Nat), NEW b \in Seq(Nat), NEW d \in Seq(Nat)
    PROVE  (a \o b) \o d = a \o (b \o d) /\ a \o b \in Seq(Nat)
OBVIOUS

\* One more unit behind the ones an application has supplied is the next one.
LEMMA UnitsAppend ==
    ASSUME NEW k \in Nat, NEW a \in Seq(Nat), NEW b \in Seq(Nat), a \o b = Units(k)
    PROVE  a \o Append(b, k + 1) = Units(k + 1)
<1> DEFINE u == Units(k)
           e == k + 1
<1>1. u \in Seq(Nat) /\ Len(u) = k /\ \A i \in 1 .. k : u[i] = i
  BY DEF Units
<1>2. Units(k + 1) \in Seq(Nat) /\ Len(Units(k + 1)) = k + 1 /\ \A i \in 1 .. k + 1 : Units(k + 1)[i] = i
  BY DEF Units
<1>3. e \in Nat /\ e = k + 1
  OBVIOUS
<1> HIDE DEF u, e
<1>4. Append(b, e) = b \o <<e>> /\ Append(u, e) = u \o <<e>>
  BY <1>1, <1>3, AppendIsConcat, Zenon
<1>s. <<e>> \in Seq(Nat)
  BY <1>3
<1>5. a \o (b \o <<e>>) = (a \o b) \o <<e>>
  BY <1>s, ConcatAssoc, Zenon
<1>6. Append(u, e) \in Seq(Nat) /\ Len(Append(u, e)) = k + 1 /\ \A i \in 1 .. k + 1 : Append(u, e)[i] = i
  BY <1>1, <1>3
<1>7. Append(u, e) = Units(k + 1)
  BY <1>2, <1>6, SeqEqual, Zenon
<1> QED
  BY <1>4, <1>5, <1>7, Zenon DEF u, e

\* What h2__stream_read_cb_ takes from the front of buffer_out follows what was sent.
LEMMA CutOut ==
    ASSUME NEW a \in Seq(Nat), NEW b \in Seq(Nat), NEW n \in 0 .. Len(b)
    PROVE  /\ a \o SubSeq(b, 1, n) \in Seq(Nat) /\ SubSeq(b, n + 1, Len(b)) \in Seq(Nat)
           /\ (a \o SubSeq(b, 1, n)) \o SubSeq(b, n + 1, Len(b)) = a \o b
<1> DEFINE x == SubSeq(b, 1, n)
           y == SubSeq(b, n + 1, Len(b))
<1>1. x \in Seq(Nat) /\ y \in Seq(Nat)
  OBVIOUS
<1>2. x \o y = SubSeq(b, 1, Len(b))
  <2>1. 1 \in 1 .. Len(b) + 1 /\ n \in 1 - 1 .. Len(b) /\ Len(b) \in n .. Len(b)
    OBVIOUS
  <2> QED
    BY <2>1, ConcatAdjacentSubSeq, Zenon
<1>3. SubSeq(b, 1, Len(b)) = b
  BY SubSeqFull, Zenon
<1> HIDE DEF x, y
<1>4. (a \o x) \o y = a \o (x \o y) /\ a \o x \in Seq(Nat)
  BY <1>1, ConcatAssoc, Zenon
<1> QED
  BY <1>1, <1>2, <1>3, <1>4, Zenon DEF x, y

\* One more unit of a request's body.
LEMMA BodyAppend ==
    ASSUME NEW s \in Streams, NEW m \in Nat
    PROVE  Body(s, m) \o Append(<<>>, <<s, m + 1>>) = Body(s, m + 1)
<1> DEFINE S == Streams \X Nat
           u == Body(s, m)
           e == <<s, m + 1>>
           v == Body(s, m + 1)
<1>1. u \in Seq(S) /\ Len(u) = m /\ \A i \in 1 .. m : u[i] = <<s, i>>
  BY DEF Body
<1>2. v \in Seq(S) /\ Len(v) = m + 1 /\ \A i \in 1 .. m + 1 : v[i] = <<s, i>>
  BY DEF Body
<1>3. e \in S
  OBVIOUS
<1>e. e = <<s, m + 1>> /\ m + 1 \in 1 .. m + 1 /\ 1 .. m \subseteq 1 .. m + 1
  OBVIOUS
<1> HIDE DEF S, u, e, v
<1>4. v[m + 1] = e /\ \A i \in 1 .. m : v[i] = u[i]
  BY <1>1, <1>2, <1>e, Zenon
<1>5. Append(<<>>, e) = <<e>> /\ <<e>> \in Seq(S)
  BY <1>3
<1>6. u \o <<e>> \in Seq(S) /\ Len(u \o <<e>>) = m + 1
  <2>1. u \o <<e>> \in Seq(S) /\ Len(u \o <<e>>) = Len(u) + Len(<<e>>)
    BY <1>1, <1>5, ConcatProperties, Zenon
  <2> QED
    BY <2>1, <1>1
<1>7. \A i \in 1 .. m + 1 : (u \o <<e>>)[i] = v[i]
  BY <1>1, <1>4, <1>5
<1>8. u \o <<e>> = v
  BY <1>2, <1>6, <1>7, SeqEqual, Zenon
<1> QED
  BY <1>5, <1>8, Zenon DEF u, e, v

-----------------------------------------------------------------------------
(* Streams and requests *)

\* A stream and what belongs to it.
Fits(s, q, r, w, m, k, n, cb) ==
    /\ q \in StreamRecords /\ r \in Requests /\ w \in Wires
    /\ m \in Nat /\ k \in Nat /\ n \in Nat /\ cb \in BOOLEAN
    /\ Sound(s, q, r, w, m, k, n, cb)

\* A stream with a live request is open.
LEMMA LiveFits ==
    ASSUME NEW s \in Streams, NEW q, NEW r, NEW w, NEW m, NEW k, NEW n, NEW cb,
           Fits(s, q, r, w, m, k, n, cb), r.state = "live"
    PROVE  q.state # "idle"
BY DEF Fits, Sound, Phase, NoRequest

\* A stream that ends and the request it frees, if it still has the user data:
\* h2__server_on_stream_close_cb_.
LEMMA CloseFits ==
    ASSUME NEW s \in Streams, NEW q, NEW r, NEW w, NEW m, NEW k, NEW n, NEW cb,
           Fits(s, q, r, w, m, k, n, cb), q.state # "idle"
    PROVE  Fits(s, StreamClosed(q), OnStreamClose(q, r), w, m, k, n, FALSE)
<1> DEFINE q1 == StreamClosed(q)
           r1 == OnStreamClose(q, r)
<1>1. /\ q1 \in StreamRecords /\ q1.state = "closed" /\ q1.user = FALSE /\ q1.resp = q.resp
      /\ q1.prd = q.prd /\ q1.local_end = q.local_end
  BY Zenon DEF Fits, StreamClosed, StreamRecords
<1>2. /\ r1 \in Requests /\ r1.flags = r.flags /\ r1.in = r.in /\ r1.out = r.out
      /\ r1.state = r.state \/ r1.state = "freed"
  BY Zenon DEF Fits, OnStreamClose, RequestFree, Requests
<1> HIDE DEF q1, r1
<1>3. Pointed(q1, r1, FALSE) /\ Phase(q1, r1, n, FALSE)
  BY <1>1 DEF Pointed, Phase
<1>4. Replying(q1, r1, w, n, k)
  BY <1>1, <1>2, Zenon DEF Fits, Sound, Replying, Nothing
<1>5. Received(s, q1, r1, m, FALSE)
  BY <1>1, <1>2 DEF Fits, Sound, Received
<1> QED
  BY <1>1, <1>2, <1>3, <1>4, <1>5, Zenon DEF Fits, Sound, q1, r1

\* nghttp2 closes a stream that both sides have ended.
LEMMA SettleFits ==
    ASSUME NEW s \in Streams, NEW q, NEW r, NEW w, NEW m, NEW k, NEW n,
           Fits(s, q, r, w, m, k, n, FALSE), q.state # "idle"
    PROVE  Fits(s, IF Ended(q) THEN StreamClosed(q) ELSE q, IF Ended(q) THEN OnStreamClose(q, r) ELSE r,
                w, m, k, n, FALSE)
<1>1. CASE Ended(q)
  BY <1>1, CloseFits, Zenon
<1>2. CASE ~Ended(q)
  BY <1>2, Zenon
<1> QED
  BY <1>1, <1>2, Zenon

\* evhtp_connection_free, whatever the stream was doing.
LEMMA FreeFits ==
    ASSUME NEW s \in Streams, NEW q, NEW r, NEW w, NEW m, NEW k, NEW n, NEW cb, NEW m1 \in Nat,
           Fits(s, q, r, w, m, k, n, cb)
    PROVE  Fits(s, StreamClosed(q), IF r.state = "live" THEN RequestFree(r) ELSE r, w, m1, k, n, FALSE)
<1> DEFINE q1 == StreamClosed(q)
           r1 == IF r.state = "live" THEN RequestFree(r) ELSE r
<1>1. /\ q1 \in StreamRecords /\ q1.state = "closed" /\ q1.user = FALSE /\ q1.resp = q.resp
      /\ q1.prd = q.prd /\ q1.local_end = q.local_end
  BY Zenon DEF Fits, StreamClosed, StreamRecords
<1>2. r1 \in Requests /\ r1.flags = r.flags /\ r1.in = r.in /\ r1.out = r.out /\ r1.state # "live"
  BY Zenon DEF Fits, RequestFree, Requests
<1> HIDE DEF q1, r1
<1>3. Pointed(q1, r1, FALSE) /\ Phase(q1, r1, n, FALSE)
  BY <1>1 DEF Pointed, Phase
<1>4. Replying(q1, r1, w, n, k)
  BY <1>1, <1>2, Zenon DEF Fits, Sound, Replying, Nothing
<1>5. Received(s, q1, r1, m1, FALSE)
  BY <1>1, <1>2 DEF Received
<1> QED
  BY <1>1, <1>2, <1>3, <1>4, <1>5, Zenon DEF Fits, Sound, q1, r1

\* A new stream and its request: h2__server_on_begin_headers_cb_.
LEMMA OpenFits ==
    ASSUME NEW s \in Streams, NEW q, NEW r, NEW w, NEW m, NEW k, NEW n, NEW h \in Vhosts \cup {Main},
           Fits(s, q, r, w, m, k, n, FALSE), q.state = "idle"
    PROVE  /\ n = 0
           /\ Fits(s, [NoStream EXCEPT !.state = "open", !.user = TRUE],
                   [NoRequest EXCEPT !.state = "live", !.htp = h], w, m, k, n, FALSE)
<1> DEFINE q1 == [NoStream EXCEPT !.state = "open", !.user = TRUE]
           r1 == [NoRequest EXCEPT !.state = "live", !.htp = h]
<1>1. q = NoStream /\ r = NoRequest /\ n = 0 /\ m = 0
  BY DEF Fits, Sound, Phase, Received
<1>2. /\ q1 \in StreamRecords /\ q1.state = "open" /\ q1.user = TRUE /\ q1.remote_end = FALSE
      /\ q1.local_end = FALSE /\ q1.resp = "none" /\ q1.prd = "none"
  BY Zenon DEF NoStream, StreamRecords
<1>3. r1 \in Requests /\ r1.state = "live" /\ r1.flags = {} /\ r1.in = <<>> /\ r1.out = <<>>
  <2>1. /\ NoRequest \in Requests
        /\ NoRequest.flags = {} /\ NoRequest.in = <<>> /\ NoRequest.out = <<>>
    BY <1>1 DEF Fits, NoRequest
  <2> QED
    BY <2>1, Zenon DEF Requests
<1>4. w \in Wires /\ w.data = <<>> /\ w.end = FALSE /\ k = 0
  BY <1>1, Zenon DEF Fits, Sound, Replying, Nothing, NoRequest, Wires
<1>5. w.data \o r1.out = Units(0) /\ r1.in = Body(s, 0)
  BY <1>3, <1>4 DEF Units, Body
<1> HIDE DEF q1, r1
<1>6. Pointed(q1, r1, FALSE) /\ Phase(q1, r1, n, FALSE)
  BY <1>1, <1>2, <1>3 DEF Pointed, Phase
<1>7. Replying(q1, r1, w, n, k)
  BY <1>2, <1>3, <1>4, <1>5 DEF Replying, Nothing
<1>8. Received(s, q1, r1, m, FALSE)
  BY <1>1, <1>2, <1>5 DEF Received
<1> QED
  BY <1>1, <1>2, <1>3, <1>6, <1>7, <1>8, Zenon DEF Fits, Sound, q1, r1

\* A flag of a request other than FINISHED and STREAMING.
LEMMA FlagFits ==
    ASSUME NEW s \in Streams, NEW q, NEW r, NEW w, NEW m, NEW k, NEW n, NEW cb,
           NEW f \in {"END_STREAM", "ERROR"},
           Fits(s, q, r, w, m, k, n, cb), q.state # "idle"
    PROVE  Fits(s, q, [r EXCEPT !.flags = r.flags \cup {f}], w, m, k, n, cb)
<1> DEFINE r1 == [r EXCEPT !.flags = r.flags \cup {f}]
<1>1. /\ r1 \in Requests /\ r1.state = r.state /\ r1.in = r.in /\ r1.out = r.out
      /\ r1.flags = r.flags \cup {f}
  BY Zenon DEF Fits, Requests
<1> HIDE DEF r1
<1>2. /\ "FINISHED" \in r1.flags <=> "FINISHED" \in r.flags
      /\ "STREAMING" \in r1.flags <=> "STREAMING" \in r.flags
      /\ r1.flags \cap {"FINISHED", "STREAMING"} = {} => r.flags \cap {"FINISHED", "STREAMING"} = {}
  BY <1>1
<1>3. Pointed(q, r1, cb) /\ Phase(q, r1, n, cb)
  BY <1>1 DEF Fits, Sound, Pointed, Phase
<1>4. Replying(q, r1, w, n, k)
  BY <1>1, <1>2, Zenon DEF Fits, Sound, Replying, Nothing
<1>5. Received(s, q, r1, m, cb)
  BY <1>1, <1>2 DEF Fits, Sound, Received
<1> QED
  BY <1>1, <1>3, <1>4, <1>5 DEF Fits, Sound, r1

\* A hook of a request that was not dispatched replies: h2__send_reply_.
LEMMA HookReplyFits ==
    ASSUME NEW s \in Streams, NEW q, NEW r, NEW w, NEW m, NEW k, NEW n,
           Fits(s, q, r, w, m, k, n, FALSE), q.state = "open", n = 0
    PROVE  Fits(s, Submit(q, "none"), Finished(r), w, m, k, n, FALSE)
<1> DEFINE q1 == Submit(q, "none")
           r1 == Finished(r)
<1>1. /\ q1 \in StreamRecords /\ q1.state = q.state /\ q1.user = q.user /\ q1.remote_end = q.remote_end
      /\ q1.local_end = q.local_end /\ q1.prd \in {q.prd, "none"}
      /\ (q1.resp = q.resp /\ q1.prd = q.prd) \/ q1.resp = "queued"
  BY Zenon DEF Fits, Submit, StreamRecords
<1>2. /\ r1 \in Requests /\ r1.state = r.state /\ r1.in = r.in /\ r1.out = r.out
      /\ r1.flags = r.flags \cup {"FINISHED"}
  BY Zenon DEF Fits, Finished, Requests
<1> HIDE DEF q1, r1
<1>3. "FINISHED" \in r1.flags /\ ("STREAMING" \in r1.flags => "STREAMING" \in r.flags)
  BY <1>2, Zenon
<1>4. Pointed(q1, r1, FALSE) /\ Phase(q1, r1, n, FALSE)
  BY <1>1, <1>2, Zenon DEF Fits, Sound, Pointed, Phase
<1>5. Replying(q1, r1, w, n, k)
  BY <1>1, <1>2, <1>3, Zenon DEF Fits, Sound, Replying, Nothing
<1>6. Received(s, q1, r1, m, FALSE)
  BY <1>1, <1>3, Zenon DEF Received
<1> QED
  BY <1>1, <1>2, <1>4, <1>5, <1>6, Zenon DEF Fits, Sound, q1, r1

\* The client's side of a stream has ended, or nghttp2 notes that it has not.
LEMMA RemoteEndFits ==
    ASSUME NEW s \in Streams, NEW q, NEW r, NEW w, NEW m, NEW k, NEW n, NEW cb, NEW e \in BOOLEAN,
           Fits(s, q, r, w, m, k, n, cb), q.state # "idle",
           e \/ (~cb /\ ~q.remote_end)
    PROVE  Fits(s, [q EXCEPT !.remote_end = e], r, w, m, k, n, FALSE)
<1> DEFINE q1 == [q EXCEPT !.remote_end = e]
<1>1. /\ q1 \in StreamRecords /\ q1.state = q.state /\ q1.user = q.user /\ q1.remote_end = e
      /\ q1.local_end = q.local_end /\ q1.prd = q.prd /\ q1.resp = q.resp
  BY DEF Fits, StreamRecords
<1> HIDE DEF q1
<1>4. Pointed(q1, r, FALSE) /\ Phase(q1, r, n, FALSE)
  BY <1>1 DEF Fits, Sound, Pointed, Phase
<1>5. Replying(q1, r, w, n, k)
  BY <1>1, Zenon DEF Fits, Sound, Replying
<1>6. Received(s, q1, r, m, FALSE)
  BY <1>1, Zenon DEF Fits, Sound, Received
<1> QED
  BY <1>1, <1>4, <1>5, <1>6, Zenon DEF Fits, Sound, q1

\* A RST_STREAM is queued for the stream.
LEMMA ClosingFits ==
    ASSUME NEW s \in Streams, NEW q, NEW r, NEW w, NEW m, NEW k, NEW n, NEW cb,
           Fits(s, q, r, w, m, k, n, cb), q.state # "idle"
    PROVE  Fits(s, [q EXCEPT !.state = "closing"], r, w, m, k, n, cb)
<1> DEFINE q1 == [q EXCEPT !.state = "closing"]
<1>1. /\ q1 \in StreamRecords /\ q1.state = "closing" /\ q1.user = q.user /\ q1.remote_end = q.remote_end
      /\ q1.local_end = q.local_end /\ q1.prd = q.prd /\ q1.resp = q.resp
  BY DEF Fits, StreamRecords
<1> HIDE DEF q1
<1>4. Pointed(q1, r, cb) /\ Phase(q1, r, n, cb)
  BY <1>1 DEF Fits, Sound, Pointed, Phase
<1>5. Replying(q1, r, w, n, k)
  BY <1>1, Zenon DEF Fits, Sound, Replying
<1>6. Received(s, q1, r, m, cb)
  BY <1>1, Zenon DEF Fits, Sound, Received
<1> QED
  BY <1>1, <1>4, <1>5, <1>6 DEF Fits, Sound, q1

\* The callback is called for a request that is not answered.
LEMMA DispatchFits ==
    ASSUME NEW s \in Streams, NEW q, NEW r, NEW w, NEW m, NEW k, NEW n,
           Fits(s, q, r, w, m, k, n, FALSE), q.state = "open", q.user, "FINISHED" \notin r.flags
    PROVE  Fits(s, q, r, w, m, k, n + 1, TRUE)
<1>1. n \in Nat /\ n + 1 \in Nat /\ n + 1 # 0
  BY DEF Fits
<1>2. Pointed(q, r, TRUE) /\ Phase(q, r, n + 1, TRUE)
  BY DEF Fits, Sound, Pointed, Phase
<1>3. Replying(q, r, w, n + 1, k)
  BY <1>1, Zenon DEF Fits, Sound, Replying
<1>4. Received(s, q, r, m, TRUE)
  BY Zenon DEF Fits, Sound, Received
<1> QED
  BY <1>1, <1>2, <1>3, <1>4, Zenon DEF Fits, Sound

\* handle_h2_data_frame clears the user data of the stream it dispatches.
LEMMA ClearUserFits ==
    ASSUME NEW s \in Streams, NEW q, NEW r, NEW w, NEW m, NEW k, NEW n,
           Fits(s, q, r, w, m, k, n, TRUE), q.state # "idle"
    PROVE  Fits(s, [q EXCEPT !.user = FALSE], r, w, m, k, n, TRUE)
<1> DEFINE q1 == [q EXCEPT !.user = FALSE]
<1>1. /\ q1 \in StreamRecords /\ q1.state = q.state /\ q1.user = FALSE /\ q1.remote_end = q.remote_end
      /\ q1.local_end = q.local_end /\ q1.prd = q.prd /\ q1.resp = q.resp
  BY Zenon DEF Fits, StreamRecords
<1> HIDE DEF q1
<1>4. Pointed(q1, r, TRUE) /\ Phase(q1, r, n, TRUE)
  BY <1>1, Zenon DEF Fits, Sound, Pointed, Phase
<1>5. Replying(q1, r, w, n, k)
  BY <1>1, Zenon DEF Fits, Sound, Replying
<1>6. Received(s, q1, r, m, TRUE)
  BY <1>1, Zenon DEF Fits, Sound, Received
<1> QED
  BY <1>1, <1>4, <1>5, <1>6, Zenon DEF Fits, Sound, q1

\* A unit of body for a request that is answered is dropped.
LEMMA IgnoredFits ==
    ASSUME NEW s \in Streams, NEW q, NEW r, NEW w, NEW m, NEW k, NEW n,
           Fits(s, q, r, w, m, k, n, FALSE), q.state # "idle",
           "FINISHED" \in r.flags \/ "PAUSE" \in ReadResults
    PROVE  Fits(s, q, r, w, m + 1, k, n, FALSE)
<1>1. m \in Nat /\ m + 1 \in Nat
  BY DEF Fits
<1>2. Received(s, q, r, m + 1, FALSE)
  BY Zenon DEF Received
<1> QED
  BY <1>1, <1>2, Zenon DEF Fits, Sound

\* A unit of body is moved to its request: the scratch buffer was empty unless a
\* hook pauses.
LEMMA TakenFits ==
    ASSUME NEW s \in Streams, NEW q, NEW r, NEW w, NEW m, NEW k, NEW n,
           NEW c \in Seq(Streams \X Nat), "PAUSE" \notin ReadResults => c = <<>>,
           Fits(s, q, r, w, m, k, n, FALSE), q.state # "idle", "FINISHED" \notin r.flags
    PROVE  Fits(s, q, [r EXCEPT !.in = r.in \o Append(c, <<s, m + 1>>)], w, m + 1, k, n, FALSE)
<1> DEFINE buf == Append(c, <<s, m + 1>>)
           in1 == r.in \o buf
           r1 == [r EXCEPT !.in = in1]
<1>1. m \in Nat /\ m + 1 \in Nat /\ r \in Requests
  BY DEF Fits
<1>2. r.in \in Seq(Streams \X Nat)
  BY <1>1 DEF Requests
<1>3. in1 \in Seq(Streams \X Nat)
  <2>1. buf \in Seq(Streams \X Nat)
    BY <1>1
  <2> HIDE DEF buf
  <2> QED
    BY <1>2, <2>1
<1>4. "PAUSE" \notin ReadResults /\ r.state = "live" => in1 = Body(s, m + 1)
  <2> SUFFICES ASSUME "PAUSE" \notin ReadResults, r.state = "live" PROVE in1 = Body(s, m + 1)
    BY Zenon
  <2>1. r.in = Body(s, m) /\ c = <<>>
    BY Zenon DEF Fits, Sound, Received
  <2> QED
    BY <1>1, <2>1, BodyAppend
<1> HIDE DEF in1
<1>5. /\ r1 \in Requests /\ r1.state = r.state /\ r1.flags = r.flags /\ r1.out = r.out
      /\ r1.in = in1
  BY <1>1, <1>3, Zenon DEF Requests
<1> HIDE DEF r1
<1>6. Pointed(q, r1, FALSE) /\ Phase(q, r1, n, FALSE)
  BY <1>5, Zenon DEF Fits, Sound, Pointed, Phase
<1>7. Replying(q, r1, w, n, k)
  BY <1>5, Zenon DEF Fits, Sound, Replying, Nothing
<1>8. Received(s, q, r1, m + 1, FALSE)
  BY <1>4, <1>5, Zenon DEF Received
<1> QED
  BY <1>1, <1>5, <1>6, <1>7, <1>8, Zenon DEF Fits, Sound, r1, in1

\* The HEADERS of a reply, which end the stream when there is nothing to follow.
LEMMA HeadersFits ==
    ASSUME NEW s \in Streams, NEW q, NEW r, NEW w, NEW m, NEW k, NEW n, NEW e \in BOOLEAN,
           Fits(s, q, r, w, m, k, n, FALSE), q.state = "open", q.resp = "queued", e <=> q.prd = "none"
    PROVE  Fits(s, [q EXCEPT !.resp = "data", !.local_end = e], r, [w EXCEPT !.end = e], m, k, n, FALSE)
<1> DEFINE q1 == [q EXCEPT !.resp = "data", !.local_end = e]
           w1 == [w EXCEPT !.end = e]
<1>1. /\ q1 \in StreamRecords /\ q1.state = q.state /\ q1.user = q.user /\ q1.remote_end = q.remote_end
      /\ q1.local_end = e /\ q1.prd = q.prd /\ q1.resp = "data"
  BY Zenon DEF Fits, StreamRecords
<1>2. w1 \in Wires /\ w1.data = w.data /\ w1.end = e
  BY DEF Fits, Wires
<1> HIDE DEF q1, w1
<1>3. Pointed(q1, r, FALSE) /\ Phase(q1, r, n, FALSE)
  BY <1>1 DEF Fits, Sound, Pointed, Phase
<1>4. Replying(q1, r, w1, n, k)
  <2>1. Replying(q, r, w, n, k) /\ Units(0) = <<>>
    BY DEF Fits, Sound, Units
  <2> QED
    BY <1>1, <1>2, <2>1, Zenon DEF Replying, Nothing
<1>5. Received(s, q1, r, m, FALSE)
  BY <1>1 DEF Fits, Sound, Received
<1> QED
  BY <1>1, <1>2, <1>3, <1>4, <1>5, Zenon DEF Fits, Sound, q1, w1

\* A streamed reply with nothing to send is parked, or resumed.
LEMMA ParkFits ==
    ASSUME NEW s \in Streams, NEW q, NEW r, NEW w, NEW m, NEW k, NEW n, NEW cb,
           NEW p \in {"data", "parked"},
           Fits(s, q, r, w, m, k, n, cb), q.state # "idle", q.resp \in {"data", "parked"}
    PROVE  Fits(s, [q EXCEPT !.resp = p], r, w, m, k, n, cb)
<1> DEFINE q1 == [q EXCEPT !.resp = p]
<1>1. /\ q1 \in StreamRecords /\ q1.state = q.state /\ q1.user = q.user /\ q1.remote_end = q.remote_end
      /\ q1.local_end = q.local_end /\ q1.prd = q.prd /\ q1.resp = p
  BY DEF Fits, StreamRecords
<1> HIDE DEF q1
<1>2. Pointed(q1, r, cb) /\ Phase(q1, r, n, cb)
  BY <1>1 DEF Fits, Sound, Pointed, Phase
<1>3. Replying(q1, r, w, n, k)
  BY <1>1, Zenon DEF Fits, Sound, Replying
<1>4. Received(s, q1, r, m, cb)
  BY <1>1, Zenon DEF Fits, Sound, Received
<1> QED
  BY <1>1, <1>2, <1>3, <1>4 DEF Fits, Sound, q1

\* h2__stream_read_cb_ and h2__data_read_cb_ take j units from buffer_out; they end
\* the stream only when it is empty and, for a streamed reply, the reply has ended.
LEMMA DataFits ==
    ASSUME NEW s \in Streams, NEW q, NEW r, NEW w, NEW m, NEW k, NEW n,
           NEW j \in 0 .. Len(r.out), NEW e \in BOOLEAN,
           Fits(s, q, r, w, m, k, n, FALSE), q.state = "open", q.resp = "data", ~q.local_end,
           e => /\ SubSeq(r.out, j + 1, Len(r.out)) = <<>>
                /\ q.prd = "stream" => "FINISHED" \in r.flags
    PROVE  Fits(s, [q EXCEPT !.local_end = e], [r EXCEPT !.out = SubSeq(r.out, j + 1, Len(r.out))],
                [data |-> w.data \o SubSeq(r.out, 1, j), end |-> e], m, k, n, FALSE)
<1> DEFINE out == SubSeq(r.out, j + 1, Len(r.out))
           data == w.data \o SubSeq(r.out, 1, j)
           q1 == [q EXCEPT !.local_end = e]
           r1 == [r EXCEPT !.out = out]
           w1 == [data |-> data, end |-> e]
<1>1. q \in StreamRecords /\ r \in Requests /\ w \in Wires /\ n \in Nat /\ Replying(q, r, w, n, k)
  BY Zenon DEF Fits, Sound
<1>2. q.prd # "none" /\ n # 0 /\ r.state = "live" /\ w.data \o r.out = Units(k)
  BY <1>1, Zenon DEF Fits, Sound, Pointed, Replying
<1>3. r.out \in Seq(Nat) /\ w.data \in Seq(Nat)
  BY <1>1 DEF Requests, Wires
<1>4. data \in Seq(Nat) /\ out \in Seq(Nat) /\ data \o out = Units(k)
  BY <1>2, <1>3, CutOut, Zenon
<1>5. e => out = <<>> /\ (q.prd = "stream" => "FINISHED" \in r.flags)
  OBVIOUS
<1> HIDE DEF out, data
<1>6. e => data = Units(k)
  BY <1>4, <1>5, EmptySeq, ConcatEmptySeq, Zenon
<1>7. /\ q1 \in StreamRecords /\ q1.state = q.state /\ q1.user = q.user /\ q1.remote_end = q.remote_end
      /\ q1.local_end = e /\ q1.prd = q.prd /\ q1.resp = q.resp
  BY <1>1 DEF StreamRecords
<1>8. /\ r1 \in Requests /\ r1.state = r.state /\ r1.flags = r.flags /\ r1.in = r.in /\ r1.out = out
  BY <1>1, <1>4, Zenon DEF Requests
<1>9. w1 \in Wires /\ w1.data = data /\ w1.end = e
  BY <1>4, Zenon DEF Wires
<1> HIDE DEF q1, r1, w1
<1>a. Pointed(q1, r1, FALSE) /\ Phase(q1, r1, n, FALSE)
  BY <1>7, <1>8, Zenon DEF Fits, Sound, Pointed, Phase
<1>b. Replying(q1, r1, w1, n, k)
  BY <1>1, <1>2, <1>4, <1>5, <1>6, <1>7, <1>8, <1>9, Zenon DEF Replying
<1>c. Received(s, q1, r1, m, FALSE)
  BY <1>7, <1>8, Zenon DEF Fits, Sound, Received
<1> QED
  BY <1>7, <1>8, <1>9, <1>a, <1>b, <1>c, Zenon DEF Fits, Sound, q1, r1, w1, out, data

\* nghttp2_submit_response keeps all of a stream but its reply.
LEMMA SubmitFields ==
    ASSUME NEW q \in StreamRecords, NEW p \in {"none", "reply", "stream"}
    PROVE  LET q1 == Submit(q, p)
           IN  /\ q1 \in StreamRecords /\ q1.state = q.state /\ q1.user = q.user
               /\ q1.remote_end = q.remote_end /\ q1.local_end = q.local_end
               /\ (q1.resp = q.resp /\ q1.prd = q.prd) \/ (q1.resp = "queued" /\ q1.prd = p)
BY Zenon DEF Submit, StreamRecords

\* evhtp_h2_send_reply and evhtp_h2_send_reply_start of j units, for a request
\* neither was called for; f are the flags they leave.
LEMMA AppReplyFits ==
    ASSUME NEW s \in Streams, NEW q, NEW r, NEW w, NEW m, NEW k, NEW n, NEW cb,
           NEW j \in Nat, NEW p \in {"none", "reply", "stream"}, NEW f \in {"FINISHED", "STREAMING"},
           Fits(s, q, r, w, m, k, n, cb), n # 0, r.state = "live",
           r.flags \cap {"FINISHED", "STREAMING"} = {},
           p = "none" => j = 0, p = "stream" \/ f = "FINISHED"
    PROVE  Fits(s, Submit(q, p), [r EXCEPT !.flags = r.flags \cup {f}, !.out = Units(j)],
                w, m, j, n, cb)
<1> DEFINE q1 == Submit(q, p)
           r1 == [r EXCEPT !.flags = r.flags \cup {f}, !.out = Units(j)]
<1>1. q \in StreamRecords /\ r \in Requests /\ w \in Wires /\ Replying(q, r, w, n, k)
  BY Zenon DEF Fits, Sound
<1>2. /\ q1 \in StreamRecords /\ q1.state = q.state /\ q1.user = q.user
      /\ q1.remote_end = q.remote_end /\ q1.local_end = q.local_end
      /\ (q1.resp = q.resp /\ q1.prd = q.prd) \/ (q1.resp = "queued" /\ q1.prd = p)
  BY <1>1, SubmitFields
<1>3. Units(j) \in Seq(Nat) /\ <<>> \o Units(j) = Units(j) /\ (j = 0 => Units(j) = <<>>)
  BY DEF Units
<1>4. /\ r1 \in Requests /\ r1.state = r.state /\ r1.in = r.in /\ r1.out = Units(j)
      /\ r1.flags = r.flags \cup {f}
  BY <1>1, <1>3, Zenon DEF Requests
<1>5. w.data = <<>> /\ ~w.end /\ q.resp = "none"
  BY <1>1, Zenon DEF Replying, Nothing
<1> HIDE DEF q1, r1
<1>6. /\ f \in r1.flags /\ r1.flags \cap {"FINISHED", "STREAMING"} # {}
      /\ "FINISHED" \notin r.flags
  BY <1>4
<1>7. Pointed(q1, r1, cb)
  BY <1>4 DEF Pointed
<1>8. Phase(q1, r1, n, cb)
  <2>1. Phase(q, r, n, cb) /\ q.state # "idle"
    BY Zenon DEF Fits, Sound, Phase, NoRequest
  <2> QED
    BY <1>2, <2>1, Zenon DEF Phase
<1>9. Replying(q1, r1, w, n, j)
  BY <1>2, <1>3, <1>4, <1>5, <1>6, Zenon DEF Replying, Nothing
<1>a. Received(s, q1, r1, m, cb)
  BY <1>2, <1>4, <1>6 DEF Fits, Sound, Received
<1> QED
  BY <1>2, <1>4, <1>7, <1>8, <1>9, <1>a DEF Fits, Sound, q1, r1

\* evhtp_h2_send_reply_body
LEMMA AppBodyFits ==
    ASSUME NEW s \in Streams, NEW q, NEW r, NEW w, NEW m, NEW k, NEW n, NEW cb,
           Fits(s, q, r, w, m, k, n, cb), n # 0, r.state = "live",
           "STREAMING" \in r.flags, "FINISHED" \notin r.flags
    PROVE  Fits(s, q, [r EXCEPT !.out = Append(r.out, k + 1)], w, m, k + 1, n, cb)
<1> DEFINE out == Append(r.out, k + 1)
           r1 == [r EXCEPT !.out = out]
<1>1. q \in StreamRecords /\ r \in Requests /\ w \in Wires /\ k \in Nat /\ Replying(q, r, w, n, k)
  BY Zenon DEF Fits, Sound
<1>2. r.out \in Seq(Nat) /\ w.data \in Seq(Nat) /\ k + 1 \in Nat /\ w.data \o r.out = Units(k)
  BY <1>1 DEF Requests, Wires, Replying
<1>3. out \in Seq(Nat) /\ w.data \o out = Units(k + 1)
  <2>1. out \in Seq(Nat)
    BY <1>2
  <2> QED
    BY <1>1, <1>2, <2>1, UnitsAppend, Zenon
<1> HIDE DEF out
<1>4. /\ r1 \in Requests /\ r1.state = r.state /\ r1.in = r.in /\ r1.out = out /\ r1.flags = r.flags
  BY <1>1, <1>3, Zenon DEF Requests
<1> HIDE DEF r1
<1>5. ~w.end /\ (q.resp # "none" => q.prd = "stream") /\ r1.flags \cap {"FINISHED", "STREAMING"} # {}
  BY <1>1, <1>4, Zenon DEF Replying
<1>6. Pointed(q, r1, cb)
  BY <1>4, Zenon DEF Pointed
<1>7. Phase(q, r1, n, cb)
  BY <1>4 DEF Fits, Sound, Phase, NoRequest
<1>8. Replying(q, r1, w, n, k + 1)
  BY <1>1, <1>3, <1>4, <1>5, Zenon DEF Replying
<1>9. Received(s, q, r1, m, cb)
  BY <1>4, Zenon DEF Fits, Sound, Received
<1> QED
  BY <1>2, <1>4, <1>6, <1>7, <1>8, <1>9, Zenon DEF Fits, Sound, r1, out

\* evhtp_h2_send_reply_end
LEMMA AppEndFits ==
    ASSUME NEW s \in Streams, NEW q, NEW r, NEW w, NEW m, NEW k, NEW n, NEW cb,
           Fits(s, q, r, w, m, k, n, cb), n # 0, r.state = "live"
    PROVE  Fits(s, q, Finished(r), w, m, k, n, cb)
<1> DEFINE r1 == Finished(r)
<1>1. q \in StreamRecords /\ r \in Requests /\ Replying(q, r, w, n, k)
  BY DEF Fits, Sound
<1>2. /\ r1 \in Requests /\ r1.state = r.state /\ r1.in = r.in /\ r1.out = r.out
      /\ r1.flags = r.flags \cup {"FINISHED"}
  BY <1>1, Zenon DEF Requests, Finished
<1> HIDE DEF r1
<1>3. "FINISHED" \in r1.flags /\ r1.flags \cap {"FINISHED", "STREAMING"} # {}
  BY <1>2, Zenon
<1>6. Pointed(q, r1, cb)
  BY <1>2, Zenon DEF Pointed
<1>7. Phase(q, r1, n, cb)
  BY DEF Fits, Sound, Phase, NoRequest
<1>8. Replying(q, r1, w, n, k)
  BY <1>1, <1>2, <1>3, Zenon DEF Replying, Nothing
<1>9. Received(s, q, r1, m, cb)
  BY <1>2, <1>3, Zenon DEF Fits, Sound, Received
<1> QED
  BY <1>2, <1>6, <1>7, <1>8, <1>9, Zenon DEF Fits, Sound, r1

\* evhtp_h2_reset_stream
LEMMA AppResetFits ==
    ASSUME NEW s \in Streams, NEW q, NEW r, NEW w, NEW m, NEW k, NEW n, NEW cb,
           Fits(s, q, r, w, m, k, n, cb), n # 0, r.state = "live"
    PROVE  Fits(s, [q EXCEPT !.state = "closing"],
                [r EXCEPT !.flags = (r.flags \cup {"FINISHED"}) \ {"STREAMING"}], w, m, k, n, cb)
<1> DEFINE r1 == [r EXCEPT !.flags = (r.flags \cup {"FINISHED"}) \ {"STREAMING"}]
<1>1. q \in StreamRecords /\ r \in Requests /\ Replying(q, r, w, n, k)
  BY DEF Fits, Sound
<1>2. /\ r1 \in Requests /\ r1.state = r.state /\ r1.in = r.in /\ r1.out = r.out
      /\ r1.flags = (r.flags \cup {"FINISHED"}) \ {"STREAMING"}
  BY <1>1, Zenon DEF Requests
<1> HIDE DEF r1
<1>3. "FINISHED" \in r1.flags /\ r1.flags \cap {"FINISHED", "STREAMING"} # {}
  BY <1>2
<1>6. Pointed(q, r1, cb)
  BY <1>2, Zenon DEF Pointed
<1>7. Phase(q, r1, n, cb) /\ q.state # "idle"
  BY Zenon DEF Fits, Sound, Phase, NoRequest
<1>8. Replying(q, r1, w, n, k)
  BY <1>1, <1>2, <1>3, Zenon DEF Replying, Nothing
<1>9. Received(s, q, r1, m, cb)
  BY <1>2, <1>3, Zenon DEF Fits, Sound, Received
<1>a. Fits(s, q, r1, w, m, k, n, cb)
  BY <1>2, <1>6, <1>7, <1>8, <1>9 DEF Fits, Sound
<1> QED
  BY <1>7, <1>a, ClosingFits DEF r1

-----------------------------------------------------------------------------
(* One stream among the others *)

\* Of the invariant: what it says of one stream.
LEMMA StreamFits ==
    ASSUME H2Inv, NEW s \in Streams
    PROVE  Fits(s, str[s], req[s], wire[s], sent[s], supplied[s], cbs[s], InCb(s))
BY DEF H2Inv, TypeOK, Fits, InCb

\* A function that is not changed, as one that is.
LEMMA Kept ==
    ASSUME TypeOK, NEW s \in Streams
    PROVE  /\ str = [str EXCEPT ![s] = str[s]] /\ req = [req EXCEPT ![s] = req[s]]
           /\ wire = [wire EXCEPT ![s] = wire[s]] /\ sent = [sent EXCEPT ![s] = sent[s]]
           /\ supplied = [supplied EXCEPT ![s] = supplied[s]] /\ cbs = [cbs EXCEPT ![s] = cbs[s]]
BY DEF TypeOK

\* A function that is changed at one place.
LEMMA Put ==
    ASSUME NEW T, NEW f \in [Streams -> T], NEW s \in Streams, NEW v \in T, NEW g,
           g = [f EXCEPT ![s] = v]
    PROVE  g \in [Streams -> T] /\ g[s] = v /\ \A t \in Streams : t # s => g[t] = f[t]
OBVIOUS

\* A step changes one stream, its request and its histories.
Changes(s, q, r, w, m, k, n) ==
    /\ str' = [str EXCEPT ![s] = q] /\ req' = [req EXCEPT ![s] = r]
    /\ wire' = [wire EXCEPT ![s] = w] /\ sent' = [sent EXCEPT ![s] = m]
    /\ supplied' = [supplied EXCEPT ![s] = k] /\ cbs' = [cbs EXCEPT ![s] = n]
    /\ \A t \in Streams : t # s => (InCb(t))' = InCb(t)

\* Such a step keeps the invariant if it does for that stream and the connection.
LEMMA StreamStep ==
    ASSUME H2Inv, NEW s \in Streams, NEW q, NEW r, NEW w, NEW m, NEW k, NEW n,
           Fits(s, q, r, w, m, k, n, (InCb(s))'), Changes(s, q, r, w, m, k, n),
           conn' \in Conns, pc' \in [at : {"idle", "recv", "cb", "send"}, s : Streams \cup {0}],
           gone' \subseteq Streams, ConnInv'
    PROVE  H2Inv'
<1>0. /\ str' = [str EXCEPT ![s] = q] /\ req' = [req EXCEPT ![s] = r]
      /\ wire' = [wire EXCEPT ![s] = w] /\ sent' = [sent EXCEPT ![s] = m]
      /\ supplied' = [supplied EXCEPT ![s] = k] /\ cbs' = [cbs EXCEPT ![s] = n]
      /\ \A t \in Streams : t # s => (InCb(t))' = InCb(t)
  BY DEF Changes
<1>1. /\ q \in StreamRecords /\ r \in Requests /\ w \in Wires /\ m \in Nat /\ k \in Nat /\ n \in Nat
      /\ Sound(s, q, r, w, m, k, n, (InCb(s))')
  BY Zenon DEF Fits
<1>2. /\ str \in [Streams -> StreamRecords] /\ req \in [Streams -> Requests]
      /\ sent \in [Streams -> Nat] /\ supplied \in [Streams -> Nat]
      /\ wire \in [Streams -> Wires] /\ cbs \in [Streams -> Nat]
  BY DEF H2Inv, TypeOK
<1>3. /\ str' \in [Streams -> StreamRecords] /\ str'[s] = q
      /\ \A t \in Streams : t # s => str'[t] = str[t]
  BY <1>0, <1>1, <1>2, Put, Zenon
<1>4. /\ req' \in [Streams -> Requests] /\ req'[s] = r
      /\ \A t \in Streams : t # s => req'[t] = req[t]
  BY <1>0, <1>1, <1>2, Put, Zenon
<1>5. /\ wire' \in [Streams -> Wires] /\ wire'[s] = w
      /\ \A t \in Streams : t # s => wire'[t] = wire[t]
  BY <1>0, <1>1, <1>2, Put, Zenon
<1>6. /\ sent' \in [Streams -> Nat] /\ sent'[s] = m
      /\ \A t \in Streams : t # s => sent'[t] = sent[t]
  BY <1>0, <1>1, <1>2, Put, Zenon
<1>7. /\ supplied' \in [Streams -> Nat] /\ supplied'[s] = k
      /\ \A t \in Streams : t # s => supplied'[t] = supplied[t]
  BY <1>0, <1>1, <1>2, Put, Zenon
<1>8. /\ cbs' \in [Streams -> Nat] /\ cbs'[s] = n
      /\ \A t \in Streams : t # s => cbs'[t] = cbs[t]
  BY <1>0, <1>1, <1>2, Put, Zenon
<1>9. TypeOK'
  BY <1>3, <1>4, <1>5, <1>6, <1>7, <1>8, Zenon DEF TypeOK
<1>10. ASSUME NEW t \in Streams
       PROVE  Sound(t, str'[t], req'[t], wire'[t], sent'[t], supplied'[t], cbs'[t], (InCb(t))')
  <2>1. CASE t = s
    BY <1>1, <1>3, <1>4, <1>5, <1>6, <1>7, <1>8, <2>1, Zenon
  <2>2. CASE t # s
    <3>1. Sound(t, str[t], req[t], wire[t], sent[t], supplied[t], cbs[t], InCb(t))
      BY DEF H2Inv
    <3> QED
      BY <1>0, <1>3, <1>4, <1>5, <1>6, <1>7, <1>8, <2>2, <3>1, Zenon
  <2> QED
    BY <2>1, <2>2
<1> QED
  BY <1>9, <1>10 DEF H2Inv

\* What most steps make of the connection.
SameConn(c, d) ==
    d \in Conns /\ d.held = c.held /\ d.scratch = c.scratch /\ d.state = c.state

\* A unit of body takes a place of the window and changes nothing else.
LEMMA HeldConn ==
    ASSUME NEW c \in Conns
    PROVE  /\ Held(c) \in Conns /\ Held(c).held = c.held + 1 /\ c.held \in Nat
           /\ Held(c).scratch = c.scratch /\ Held(c).state = c.state
<1>1. c.held \in Nat
  BY Zenon DEF Conns
<1>2. c.held + 1 \in Nat
  BY <1>1
<1> QED
  BY <1>1, <1>2, Zenon DEF Held, Conns

\* The steps that note something of a connection: a flush, output, a window.
LEMMA ConnNotes ==
    ASSUME NEW c \in Conns, NEW h \in Vhosts \cup {Main}, NEW w \in BOOLEAN
    PROVE  /\ SameConn(c, c) /\ SameConn(c, Flushing(c)) /\ SameConn(c, Written(c))
           /\ SameConn(c, [c EXCEPT !.htp = h]) /\ SameConn(c, Flushing([c EXCEPT !.htp = h]))
           /\ SameConn(c, [c EXCEPT !.window = w]) /\ SameConn(c, [Written(c) EXCEPT !.window = w])
           /\ SameConn(c, Consumed(Held(c)))
<1>1. ASSUME NEW d \in Conns
      PROVE  /\ SameConn(d, d) /\ SameConn(d, Flushing(d)) /\ SameConn(d, Written(d))
             /\ SameConn(d, [d EXCEPT !.htp = h]) /\ SameConn(d, [d EXCEPT !.window = w])
  BY Zenon DEF SameConn, Flushing, Written, Conns
<1>2. SameConn(c, Flushing([c EXCEPT !.htp = h]))
  BY <1>1, Zenon DEF SameConn
<1>3. SameConn(c, [Written(c) EXCEPT !.window = w])
  BY <1>1, Zenon DEF SameConn
<1>4. SameConn(c, Consumed(Held(c)))
  <2>1. /\ Held(c) \in Conns /\ Held(c).held = c.held + 1 /\ c.held \in Nat
        /\ Held(c).scratch = c.scratch /\ Held(c).state = c.state
    BY HeldConn, Zenon
  <2>2. ASSUME NEW d \in Conns, NEW i \in Nat, d.held = i + 1
        PROVE  /\ Consumed(d) \in Conns /\ Consumed(d).held = i
               /\ Consumed(d).scratch = d.scratch /\ Consumed(d).state = d.state
    <3>1. d.held - 1 = i
      BY <2>2
    <3>2. Consumed(d) = [d EXCEPT !.held = i]
      BY <3>1, Zenon DEF Consumed
    <3> QED
      BY <3>2, Zenon DEF Conns
  <2> QED
    BY <2>1, <2>2 DEF SameConn
<1> QED
  BY <1>1, <1>2, <1>3, <1>4

\* What the client's frames change of a stream, and what replies do.
Takes(s, q, r, m) ==
    str' = [str EXCEPT ![s] = q] /\ req' = [req EXCEPT ![s] = r] /\ sent' = [sent EXCEPT ![s] = m]
Gives(s, q, r, w, k) ==
    /\ str' = [str EXCEPT ![s] = q] /\ req' = [req EXCEPT ![s] = r]
    /\ wire' = [wire EXCEPT ![s] = w] /\ supplied' = [supplied EXCEPT ![s] = k]

\* A step in nghttp2_session_mem_recv that changes one stream and calls no callback.
LEMMA RecvStep ==
    ASSUME H2Inv, NEW s \in Streams, NEW q, NEW r, NEW m, Receiving, Recv,
           Fits(s, q, r, wire[s], m, supplied[s], cbs[s], FALSE), Takes(s, q, r, m),
           conn' \in Conns, conn'.held = conn.held, conn'.state = conn.state,
           "PAUSE" \notin ReadResults => conn'.scratch = <<>>,
           UNCHANGED <<wire, supplied, cbs, gone>>
    PROVE  H2Inv'
<1>1. TypeOK /\ ConnInv /\ 0 \notin Streams
  BY H2Assumption DEF H2Inv, Streams
<1>2. /\ wire' = [wire EXCEPT ![s] = wire[s]] /\ supplied' = [supplied EXCEPT ![s] = supplied[s]]
      /\ cbs' = [cbs EXCEPT ![s] = cbs[s]]
  BY <1>1, Kept, Zenon
<1>3. /\ pc' \in [at : {"idle", "recv", "cb", "send"}, s : Streams \cup {0}]
      /\ pc'.at = "recv" /\ pc'.s \notin Streams
  BY <1>1, Zenon DEF Recv
<1>4. (InCb(s))' = FALSE /\ \A t \in Streams : t # s => (InCb(t))' = InCb(t)
  BY <1>3, Zenon DEF Receiving, InCb
<1>5. ConnInv'
  BY <1>1, <1>3, Zenon DEF ConnInv, Receiving
<1>6. gone' \subseteq Streams
  BY <1>1 DEF TypeOK
<1>7. Fits(s, q, r, wire[s], m, supplied[s], cbs[s], (InCb(s))')
  BY <1>4, Zenon
<1>8. Changes(s, q, r, wire[s], m, supplied[s], cbs[s])
  BY <1>2, <1>4, Zenon DEF Changes, Takes
<1> QED
  BY <1>3, <1>5, <1>6, <1>7, <1>8, StreamStep

\* A step that changes one stream and leaves the thread where it is.
LEMMA KeptStep ==
    ASSUME H2Inv, NEW s \in Streams, NEW q, NEW r, NEW w, NEW k,
           Fits(s, q, r, w, sent[s], k, cbs[s], InCb(s)), Gives(s, q, r, w, k),
           conn.state = "open", SameConn(conn, conn'),
           gone' \subseteq Streams, UNCHANGED <<pc, sent, cbs>>
    PROVE  H2Inv'
<1>1. TypeOK /\ ConnInv
  BY DEF H2Inv
<1>2. sent' = [sent EXCEPT ![s] = sent[s]] /\ cbs' = [cbs EXCEPT ![s] = cbs[s]]
  BY <1>1, Kept, Zenon
<1>3. pc' \in [at : {"idle", "recv", "cb", "send"}, s : Streams \cup {0}]
  BY <1>1, Zenon DEF TypeOK
<1>4. (InCb(s))' = InCb(s) /\ \A t \in Streams : t # s => (InCb(t))' = InCb(t)
  BY Zenon DEF InCb
<1>5. ConnInv' /\ conn' \in Conns
  BY <1>1 DEF ConnInv, SameConn
<1>6. Fits(s, q, r, w, sent[s], k, cbs[s], (InCb(s))')
  BY <1>4, Zenon
<1>7. Changes(s, q, r, w, sent[s], k, cbs[s])
  BY <1>2, <1>4, Zenon DEF Changes, Gives
<1> QED
  BY <1>3, <1>5, <1>6, <1>7, StreamStep, Zenon

-----------------------------------------------------------------------------
(* The frames of the client *)

\* A stream for which nghttp2_session_mem_recv is called: no callback runs.
LEMMA RecvFits ==
    ASSUME H2Inv, NEW s \in Streams, Receiving
    PROVE  /\ Fits(s, str[s], req[s], wire[s], sent[s], supplied[s], cbs[s], FALSE)
           /\ str[s].state = "open" /\ ~str[s].remote_end => str[s].user /\ cbs[s] = 0
           /\ SameConn(conn, conn) /\ conn \in Conns
           /\ "PAUSE" \notin ReadResults => conn.scratch = <<>>
<1>1. InCb(s) = FALSE
  BY DEF Receiving, InCb
<1>2. Fits(s, str[s], req[s], wire[s], sent[s], supplied[s], cbs[s], FALSE)
  BY <1>1, StreamFits, Zenon
<1>3. str[s].state = "open" /\ ~str[s].remote_end => str[s].user /\ cbs[s] = 0
  BY <1>2 DEF Fits, Sound, Phase
<1>4. conn \in Conns /\ ("PAUSE" \notin ReadResults => conn.scratch = <<>>)
  BY Zenon DEF H2Inv, TypeOK, ConnInv
<1> QED
  BY <1>2, <1>3, <1>4, Zenon DEF SameConn

\* DATA that nghttp2 drops changes nothing of the stream.
LEMMA DataDroppedStep ==
    ASSUME H2Inv, NEW s \in Streams, DataDropped(s)
    PROVE  H2Inv'
<1>1. /\ Receiving /\ Recv /\ conn' = Consumed(Held(conn))
      /\ UNCHANGED <<str, req, sent, supplied, wire, cbs, gone>>
  BY DEF DataDropped
<1>2. /\ Fits(s, str[s], req[s], wire[s], sent[s], supplied[s], cbs[s], FALSE)
      /\ conn \in Conns /\ ("PAUSE" \notin ReadResults => conn.scratch = <<>>)
  BY <1>1, RecvFits, Zenon
<1>3. SameConn(conn, conn')
  <2>1. Main \in Vhosts \cup {Main} /\ TRUE \in BOOLEAN
    OBVIOUS
  <2> QED
    BY <1>1, <1>2, <2>1, ConnNotes, Zenon
<1>4. /\ str' = [str EXCEPT ![s] = str[s]] /\ req' = [req EXCEPT ![s] = req[s]]
      /\ sent' = [sent EXCEPT ![s] = sent[s]]
  BY <1>1, Kept, Zenon DEF H2Inv
<1>5. Takes(s, str[s], req[s], sent[s])
  BY <1>4, Zenon DEF Takes
<1> QED
  BY <1>1, <1>2, <1>3, <1>5, RecvStep, Zenon DEF SameConn

\* h2__on_data_chunk_recv_cb_ for a request that is answered keeps H2Inv.
LEMMA DataIgnoredStep ==
    ASSUME H2Inv, NEW s \in Streams, DataIgnored(s)
    PROVE  H2Inv'
<1>1. /\ Receiving /\ str[s].state # "idle" /\ "FINISHED" \in req[s].flags /\ Recv
      /\ conn' = Consumed(Held(conn)) /\ sent' = [sent EXCEPT ![s] = sent[s] + 1]
      /\ UNCHANGED <<str, req, supplied, wire, cbs, gone>>
  BY DEF DataIgnored, MayData
<1>2. /\ Fits(s, str[s], req[s], wire[s], sent[s], supplied[s], cbs[s], FALSE)
      /\ conn \in Conns /\ ("PAUSE" \notin ReadResults => conn.scratch = <<>>)
  BY <1>1, RecvFits, Zenon
<1>3. Fits(s, str[s], req[s], wire[s], sent[s] + 1, supplied[s], cbs[s], FALSE)
  BY <1>1, <1>2, IgnoredFits, Zenon
<1>4. SameConn(conn, conn')
  BY <1>1, <1>2, ConnNotes, Zenon
<1>5. TypeOK
  BY Zenon DEF H2Inv
<1>6. Takes(s, str[s], req[s], sent[s] + 1)
  BY <1>1, <1>5, Kept, Zenon DEF Takes
<1> QED
  BY <1>1, <1>2, <1>3, <1>4, <1>6, RecvStep, Zenon DEF SameConn

\* The connection after a unit that was accepted: its window is given back.
LEMMA TakenConn ==
    ASSUME NEW c \in Conns, NEW d \in Seq(Streams \X Nat)
    PROVE  LET e == Consumed([Held([c EXCEPT !.body_bytes_read = c.body_bytes_read + 1])
                                EXCEPT !.scratch = d])
           IN  e \in Conns /\ e.held = c.held /\ e.scratch = d /\ e.state = c.state
<1> DEFINE c1 == [c EXCEPT !.body_bytes_read = c.body_bytes_read + 1]
           c2 == Held(c1)
           c3 == [c2 EXCEPT !.scratch = d]
           c4 == Consumed(c3)
<1>1. ASSUME NEW x \in Conns, NEW j \in Nat, NEW y, y = [x EXCEPT !.body_bytes_read = j]
      PROVE  y \in Conns /\ y.held = x.held /\ y.state = x.state
  BY <1>1, Zenon DEF Conns
<1>2. ASSUME NEW x \in Conns, NEW j \in Nat, NEW y, y = [x EXCEPT !.held = j]
      PROVE  y \in Conns /\ y.held = j /\ y.state = x.state /\ y.scratch = x.scratch
  BY <1>2, Zenon DEF Conns
<1>3. c.body_bytes_read + 1 \in Nat /\ c.held \in Nat /\ c.held + 1 \in Nat
  BY DEF Conns
<1>4. c1 \in Conns /\ c1.held = c.held /\ c1.state = c.state
  BY <1>1, <1>3, Zenon
<1> HIDE DEF c1
<1>5. c2 = [c1 EXCEPT !.held = c.held + 1]
  BY <1>4, Zenon DEF Held
<1> HIDE DEF c2
<1>6. c2 \in Conns /\ c2.held = c.held + 1 /\ c2.state = c.state
  BY <1>2, <1>3, <1>4, <1>5
<1>7. c3 \in Conns /\ c3.held = c.held + 1 /\ c3.state = c.state /\ c3.scratch = d
  BY <1>6, Zenon DEF Conns
<1> HIDE DEF c3
<1>8. c3.held - 1 = c.held
  BY <1>3, <1>7
<1>9. c4 = [c3 EXCEPT !.held = c.held]
  BY <1>8, Zenon DEF Consumed
<1> HIDE DEF c4
<1>10. c4 \in Conns /\ c4.held = c.held /\ c4.state = c.state /\ c4.scratch = d
  BY <1>2, <1>3, <1>7, <1>9
<1> QED
  BY <1>10 DEF c1, c2, c3, c4

\* A unit of body that is accepted keeps H2Inv.
LEMMA DataTakenStep ==
    ASSUME H2Inv, NEW s \in Streams, NEW result \in ReadResults, DataTaken(s, result)
    PROVE  H2Inv'
<1> DEFINE buf == Append(conn.scratch, <<s, sent[s] + 1>>)
           c == Held([conn EXCEPT !.body_bytes_read = conn.body_bytes_read + 1])
<1>1. /\ Receiving /\ str[s].state # "idle" /\ "FINISHED" \notin req[s].flags /\ Recv
      /\ sent' = [sent EXCEPT ![s] = sent[s] + 1] /\ UNCHANGED <<str, supplied, wire, cbs, gone>>
      /\ \/ /\ req' = [req EXCEPT ![s].in = req[s].in \o buf]
            /\ conn' = Consumed([c EXCEPT !.scratch = <<>>])
         \/ result = "PAUSE" /\ conn' = Consumed([c EXCEPT !.scratch = buf]) /\ UNCHANGED req
  BY Zenon DEF DataTaken, MayData
<1>2. /\ Fits(s, str[s], req[s], wire[s], sent[s], supplied[s], cbs[s], FALSE)
      /\ conn \in Conns /\ ("PAUSE" \notin ReadResults => conn.scratch = <<>>)
  BY <1>1, RecvFits, Zenon
<1>t. TypeOK /\ conn.scratch \in Seq(Streams \X Nat) /\ sent[s] \in Nat
  BY DEF H2Inv, TypeOK, Conns
<1>3. buf \in Seq(Streams \X Nat) /\ <<>> \in Seq(Streams \X Nat)
  BY <1>t
<1>4. ASSUME NEW d \in Seq(Streams \X Nat)
      PROVE  LET e == Consumed([c EXCEPT !.scratch = d])
             IN  e \in Conns /\ e.held = conn.held /\ e.scratch = d /\ e.state = conn.state
  BY <1>2, TakenConn, Zenon
<1>5. CASE req' = [req EXCEPT ![s].in = req[s].in \o buf] /\ conn' = Consumed([c EXCEPT !.scratch = <<>>])
  <2> DEFINE r1 == [req[s] EXCEPT !.in = req[s].in \o buf]
  <2>1. Fits(s, str[s], r1, wire[s], sent[s] + 1, supplied[s], cbs[s], FALSE)
    BY <1>1, <1>2, <1>t, TakenFits, Zenon
  <2>2. req' = [req EXCEPT ![s] = r1]
    BY <1>5
  <2>3. Takes(s, str[s], r1, sent[s] + 1)
    BY <1>1, <1>t, <2>2, Kept, Zenon DEF Takes
  <2>4. conn' \in Conns /\ conn'.held = conn.held /\ conn'.scratch = <<>> /\ conn'.state = conn.state
    BY <1>3, <1>4, <1>5, Zenon
  <2> HIDE DEF r1
  <2> QED
    BY <1>1, <2>1, <2>3, <2>4, RecvStep, Zenon
<1>6. CASE result = "PAUSE" /\ conn' = Consumed([c EXCEPT !.scratch = buf]) /\ UNCHANGED req
  <2>1. Fits(s, str[s], req[s], wire[s], sent[s] + 1, supplied[s], cbs[s], FALSE)
    BY <1>1, <1>2, <1>6, IgnoredFits, Zenon
  <2>2. Takes(s, str[s], req[s], sent[s] + 1)
    BY <1>1, <1>6, <1>t, Kept, Zenon DEF Takes
  <2>3. conn' \in Conns /\ conn'.held = conn.held /\ conn'.state = conn.state
    BY <1>3, <1>4, <1>6, Zenon
  <2>4. "PAUSE" \in ReadResults
    BY <1>6, Zenon
  <2> QED
    BY <1>1, <2>1, <2>2, <2>3, <2>4, RecvStep, Zenon
<1> QED
  BY <1>1, <1>5, <1>6, Zenon

\* A frame that ends a stream or is answered: nghttp2 settles it.
LEMMA SettleStep ==
    ASSUME H2Inv, NEW s \in Streams, NEW q, NEW r, Receiving, Recv,
           Fits(s, q, r, wire[s], sent[s], supplied[s], cbs[s], FALSE), q.state # "idle",
           Settle(s, q, r), SameConn(conn, conn'), UNCHANGED <<sent, supplied, wire, cbs, gone>>
    PROVE  H2Inv'
<1> DEFINE q1 == IF Ended(q) THEN StreamClosed(q) ELSE q
           r1 == IF Ended(q) THEN OnStreamClose(q, r) ELSE r
<1>1. Fits(s, q1, r1, wire[s], sent[s], supplied[s], cbs[s], FALSE)
  BY SettleFits, Zenon
<1>2. str' = [str EXCEPT ![s] = q1] /\ req' = [req EXCEPT ![s] = r1]
  BY Zenon DEF Settle
<1>3. "PAUSE" \notin ReadResults => conn.scratch = <<>>
  BY DEF H2Inv, ConnInv
<1> HIDE DEF q1, r1
<1>4. TypeOK
  BY DEF H2Inv
<1>5. Takes(s, q1, r1, sent[s])
  BY <1>2, <1>4, Kept, Zenon DEF Takes
<1>6. /\ conn' \in Conns /\ conn'.held = conn.held /\ conn'.state = conn.state
      /\ "PAUSE" \notin ReadResults => conn'.scratch = <<>>
  BY <1>3, Zenon DEF SameConn
<1> QED
  BY <1>1, <1>5, <1>6, RecvStep, Zenon

\* A frame that leads to the request's callback.
LEMMA DispatchStep ==
    ASSUME H2Inv, NEW s \in Streams, NEW q, NEW r, Receiving, Dispatch(s),
           Fits(s, q, r, wire[s], sent[s], supplied[s], cbs[s] + 1, TRUE),
           str' = [str EXCEPT ![s] = q], req' = [req EXCEPT ![s] = r],
           SameConn(conn, conn'), UNCHANGED <<sent, supplied, wire, gone>>
    PROVE  H2Inv'
<1>1. TypeOK /\ ConnInv
  BY Zenon DEF H2Inv
<1>2. /\ pc' \in [at : {"idle", "recv", "cb", "send"}, s : Streams \cup {0}]
      /\ pc'.at = "cb" /\ pc'.s = s /\ cbs' = [cbs EXCEPT ![s] = cbs[s] + 1]
  BY Zenon DEF Dispatch
<1>3. (InCb(s))' = TRUE /\ \A t \in Streams : t # s => (InCb(t))' = InCb(t)
  BY <1>2, Zenon DEF InCb, Receiving
<1>4. ConnInv' /\ conn' \in Conns
  BY <1>1, <1>2, Zenon DEF ConnInv, SameConn, Receiving
<1>5. gone' \subseteq Streams
  BY <1>1 DEF TypeOK
<1>6. Fits(s, q, r, wire[s], sent[s], supplied[s], cbs[s] + 1, (InCb(s))')
  BY <1>3, Zenon
<1>7. /\ wire' = [wire EXCEPT ![s] = wire[s]] /\ supplied' = [supplied EXCEPT ![s] = supplied[s]]
      /\ sent' = [sent EXCEPT ![s] = sent[s]]
  BY <1>1, Kept, Zenon
<1>8. Changes(s, q, r, wire[s], sent[s], supplied[s], cbs[s] + 1)
  BY <1>2, <1>3, <1>7, Zenon DEF Changes
<1> QED
  BY <1>2, <1>4, <1>5, <1>6, <1>8, StreamStep, Zenon

\* handle_h2_headers_frame, for a stream whose HEADERS or trailers these are.
LEMMA HeadFrameStep ==
    ASSUME H2Inv, NEW s \in Streams, NEW q, NEW r, NEW end \in BOOLEAN, NEW c, NEW result,
           Receiving, Fits(s, q, r, wire[s], sent[s], supplied[s], cbs[s], FALSE),
           q.state = "open", q.user, ~q.remote_end, cbs[s] = 0,
           SameConn(conn, c), HeadFrame(s, q, r, end, c, result),
           UNCHANGED <<sent, supplied, wire, gone>>
    PROVE  H2Inv'
<1> DEFINE r1 == IF end THEN [r EXCEPT !.flags = r.flags \cup {"END_STREAM"}] ELSE r
           r2 == IF result = "reply" THEN Finished(r1) ELSE r1
           q1 == IF result = "reply" THEN Submit(q, "none") ELSE q
           q2 == [q1 EXCEPT !.remote_end = end]
           q3 == [q2 EXCEPT !.state = "closing"]
<1>1. /\ conn' = IF result = "reply" THEN Flushing(c) ELSE c
      /\ \/ Settle(s, q2, r2) /\ UNCHANGED cbs /\ Recv
         \/ Settle(s, q3, r2) /\ UNCHANGED cbs /\ Recv
         \/ /\ "FINISHED" \notin r2.flags /\ Dispatch(s)
            /\ str' = [str EXCEPT ![s] = q1] /\ req' = [req EXCEPT ![s] = r2]
  BY Zenon DEF HeadFrame
<1>2. SameConn(conn, conn')
  BY <1>1, ConnNotes, Zenon DEF SameConn
<1>3. Fits(s, q, r1, wire[s], sent[s], supplied[s], cbs[s], FALSE)
  BY FlagFits, Zenon
<1> HIDE DEF r1
<1>4. Fits(s, q1, r2, wire[s], sent[s], supplied[s], cbs[s], FALSE)
  BY <1>3, HookReplyFits, Zenon
<1>5. q1.state = "open" /\ q1.user /\ ~q1.remote_end
  <2>1. q \in StreamRecords
    BY DEF Fits
  <2> QED
    BY <2>1, SubmitFields
<1> HIDE DEF r2, q1
<1>6. Fits(s, q2, r2, wire[s], sent[s], supplied[s], cbs[s], FALSE)
  BY <1>4, <1>5, RemoteEndFits, Zenon
<1>7. q1 \in StreamRecords
  BY <1>4 DEF Fits
<1>8. q2.state = "open" /\ q3.state = "closing"
  BY <1>5, <1>7 DEF StreamRecords
<1> HIDE DEF q2
<1>9. Fits(s, q3, r2, wire[s], sent[s], supplied[s], cbs[s], FALSE)
  BY <1>6, <1>8, ClosingFits, Zenon
<1> HIDE DEF q3
<1>10. CASE Settle(s, q2, r2) /\ UNCHANGED cbs /\ Recv
  BY <1>2, <1>6, <1>8, <1>10, SettleStep, Zenon
<1>11. CASE Settle(s, q3, r2) /\ UNCHANGED cbs /\ Recv
  BY <1>2, <1>9, <1>8, <1>11, SettleStep, Zenon
<1>12. CASE /\ "FINISHED" \notin r2.flags /\ Dispatch(s)
            /\ str' = [str EXCEPT ![s] = q1] /\ req' = [req EXCEPT ![s] = r2]
  <2>1. Fits(s, q1, r2, wire[s], sent[s], supplied[s], cbs[s] + 1, TRUE)
    BY <1>4, <1>5, <1>12, DispatchFits, Zenon
  <2> QED
    BY <1>2, <1>12, <2>1, DispatchStep, Zenon
<1> QED
  BY <1>1, <1>10, <1>11, <1>12

\* The HEADERS of a request.
LEMMA RecvHeadersStep ==
    ASSUME H2Inv, NEW s \in Streams, NEW end \in BOOLEAN, NEW result, RecvHeaders(s, end, result)
    PROVE  H2Inv'
<1> DEFINE htp == VhostFor(conn.htp, Host[s])
           r == [NoRequest EXCEPT !.state = "live", !.htp = htp]
           q == [NoStream EXCEPT !.state = "open", !.user = TRUE]
           c == [conn EXCEPT !.htp = htp]
<1>1. /\ Receiving /\ str[s].state = "idle" /\ HeadFrame(s, q, r, end, c, result)
      /\ UNCHANGED <<sent, supplied, wire, gone>>
  BY Zenon DEF RecvHeaders
<1>2. Fits(s, str[s], req[s], wire[s], sent[s], supplied[s], cbs[s], FALSE) /\ conn \in Conns
  BY <1>1, RecvFits, Zenon
<1>3. htp \in Vhosts \cup {Main}
  BY <1>2, H2Assumption, Zenon DEF VhostFor, Conns, Streams
<1>4. SameConn(conn, c)
  BY <1>2, <1>3, ConnNotes, Zenon
<1>5. q.state = "open" /\ q.user /\ ~q.remote_end
  BY DEF NoStream
<1> HIDE DEF htp
<1>6. cbs[s] = 0 /\ Fits(s, q, r, wire[s], sent[s], supplied[s], cbs[s], FALSE)
  BY <1>1, <1>2, <1>3, OpenFits, Zenon
<1> HIDE DEF r, q, c
<1> QED
  BY <1>1, <1>4, <1>5, <1>6, HeadFrameStep, Zenon

\* The trailers of a request.
LEMMA RecvTrailersStep ==
    ASSUME H2Inv, NEW s \in Streams, NEW result, RecvTrailers(s, result)
    PROVE  H2Inv'
<1>1. /\ Receiving /\ str[s].state = "open" /\ ~str[s].remote_end
      /\ HeadFrame(s, str[s], req[s], TRUE, conn, result)
      /\ UNCHANGED <<sent, supplied, wire, gone>>
  BY Zenon DEF RecvTrailers
<1>2. /\ Fits(s, str[s], req[s], wire[s], sent[s], supplied[s], cbs[s], FALSE)
      /\ str[s].user /\ cbs[s] = 0 /\ SameConn(conn, conn)
  BY <1>1, RecvFits, Zenon
<1> QED
  BY <1>1, <1>2, HeadFrameStep, Zenon

\* The end of the body of a request that is answered.
LEMMA DataEndAnsweredStep ==
    ASSUME H2Inv, NEW s \in Streams, DataEndAnswered(s)
    PROVE  H2Inv'
<1> DEFINE q == [str[s] EXCEPT !.remote_end = TRUE]
           r == [req[s] EXCEPT !.flags = req[s].flags \cup {"END_STREAM"}]
<1>1. /\ Receiving /\ str[s].state = "open" /\ Settle(s, q, r) /\ Recv
      /\ UNCHANGED <<conn, sent, supplied, wire, cbs, gone>>
  BY Zenon DEF DataEndAnswered, MayData
<1>2. /\ Fits(s, str[s], req[s], wire[s], sent[s], supplied[s], cbs[s], FALSE)
      /\ SameConn(conn, conn)
  BY <1>1, RecvFits, Zenon
<1>3. Fits(s, str[s], r, wire[s], sent[s], supplied[s], cbs[s], FALSE)
  BY <1>1, <1>2, FlagFits, Zenon
<1> HIDE DEF r
<1>4. Fits(s, q, r, wire[s], sent[s], supplied[s], cbs[s], FALSE)
  BY <1>1, <1>3, RemoteEndFits, Zenon
<1>5. q.state # "idle"
  BY <1>1, <1>2 DEF Fits, StreamRecords
<1> HIDE DEF q
<1>6. SameConn(conn, conn')
  BY <1>1, <1>2, Zenon
<1> QED
  BY <1>1, <1>4, <1>5, <1>6, SettleStep, Zenon

\* The end of the body of a request, which leads to its callback.
LEMMA DataEndStep ==
    ASSUME H2Inv, NEW s \in Streams, DataEnd(s)
    PROVE  H2Inv'
<1> DEFINE q == [str[s] EXCEPT !.user = FALSE]
           r == [req[s] EXCEPT !.flags = req[s].flags \cup {"END_STREAM"}]
<1>1. /\ Receiving /\ str[s].state = "open" /\ ~str[s].remote_end /\ "FINISHED" \notin req[s].flags
      /\ str' = [str EXCEPT ![s].user = FALSE]
      /\ req' = [req EXCEPT ![s].flags = req[s].flags \cup {"END_STREAM"}]
      /\ Dispatch(s) /\ UNCHANGED <<conn, sent, supplied, wire, gone>>
  BY DEF DataEnd, MayData
<1>2. /\ Fits(s, str[s], req[s], wire[s], sent[s], supplied[s], cbs[s], FALSE)
      /\ SameConn(conn, conn) /\ str[s].user
  BY <1>1, RecvFits, Zenon
<1>3. Fits(s, str[s], r, wire[s], sent[s], supplied[s], cbs[s], FALSE)
  BY <1>1, <1>2, FlagFits, Zenon
<1>4. "FINISHED" \notin r.flags
  BY <1>1, <1>2 DEF Fits, Requests
<1>5. str' = [str EXCEPT ![s] = q] /\ req' = [req EXCEPT ![s] = r]
  BY <1>1
<1> HIDE DEF r
<1>6. Fits(s, str[s], r, wire[s], sent[s], supplied[s], cbs[s] + 1, TRUE)
  BY <1>1, <1>2, <1>3, <1>4, DispatchFits, Zenon
<1>7. Fits(s, q, r, wire[s], sent[s], supplied[s], cbs[s] + 1, TRUE)
  BY <1>1, <1>6, ClearUserFits, Zenon
<1> HIDE DEF q
<1>8. SameConn(conn, conn')
  BY <1>1, <1>2, Zenon
<1> QED
  BY <1>1, <1>5, <1>7, <1>8, DispatchStep, Zenon

\* RST_STREAM from the client.
LEMMA RecvRstStep ==
    ASSUME H2Inv, NEW s \in Streams, RecvRst(s)
    PROVE  H2Inv'
<1> DEFINE q == StreamClosed(str[s])
           r == OnStreamClose(str[s], req[s])
<1>1. /\ Receiving /\ str[s].state # "idle" /\ Recv
      /\ str' = [str EXCEPT ![s] = q] /\ req' = [req EXCEPT ![s] = r]
      /\ UNCHANGED <<conn, sent, supplied, wire, cbs, gone>>
  BY Zenon DEF RecvRst
<1>2. /\ Fits(s, str[s], req[s], wire[s], sent[s], supplied[s], cbs[s], FALSE)
      /\ conn \in Conns /\ ("PAUSE" \notin ReadResults => conn.scratch = <<>>)
  BY <1>1, RecvFits, Zenon
<1>3. Fits(s, q, r, wire[s], sent[s], supplied[s], cbs[s], FALSE)
  BY <1>1, <1>2, CloseFits, Zenon
<1>4. TypeOK
  BY DEF H2Inv
<1> HIDE DEF q, r
<1>5. Takes(s, q, r, sent[s])
  BY <1>1, <1>4, Kept, Zenon DEF Takes
<1> QED
  BY <1>1, <1>2, <1>3, <1>5, RecvStep, Zenon

\* The callback returns to nghttp2.
LEMMA CbReturnStep ==
    ASSUME H2Inv, CbReturn
    PROVE  H2Inv'
<1>1. ConnInv /\ TypeOK
  BY DEF H2Inv
<1>2. PICK s \in Streams : s = pc.s
  BY <1>1 DEF CbReturn, ConnInv
<1> DEFINE q == [str[s] EXCEPT !.remote_end = TRUE]
           q1 == IF Ended(q) THEN StreamClosed(q) ELSE q
           r1 == IF Ended(q) THEN OnStreamClose(q, req[s]) ELSE req[s]
<1>3. /\ pc.at = "cb" /\ str' = [str EXCEPT ![s] = q1] /\ req' = [req EXCEPT ![s] = r1] /\ Recv
      /\ UNCHANGED <<conn, sent, supplied, wire, cbs, gone>>
  BY <1>2, Zenon DEF CbReturn, Settle
<1>4. InCb(s) = TRUE /\ \A t \in Streams : t # s => InCb(t) = FALSE
  BY <1>2, <1>3 DEF InCb
<1>5. Fits(s, str[s], req[s], wire[s], sent[s], supplied[s], cbs[s], TRUE)
  BY <1>4, StreamFits, Zenon
<1>6. str[s].state # "idle"
  BY <1>5 DEF Fits, Sound, Pointed, Phase, NoRequest
<1>7. Fits(s, q, req[s], wire[s], sent[s], supplied[s], cbs[s], FALSE)
  BY <1>5, <1>6, RemoteEndFits, Zenon
<1>8. q.state # "idle"
  BY <1>5, <1>6 DEF Fits, StreamRecords
<1> HIDE DEF q
<1>9. Fits(s, q1, r1, wire[s], sent[s], supplied[s], cbs[s], FALSE)
  BY <1>7, <1>8, SettleFits, Zenon
<1> HIDE DEF q1, r1
<1>10. /\ pc' \in [at : {"idle", "recv", "cb", "send"}, s : Streams \cup {0}]
       /\ pc'.at = "recv" /\ pc'.s \notin Streams
  BY <1>3, H2Assumption DEF Recv, Streams
<1>11. (InCb(s))' = FALSE /\ \A t \in Streams : t # s => (InCb(t))' = InCb(t)
  BY <1>4, <1>10, Zenon DEF InCb
<1>12. ConnInv' /\ conn' \in Conns /\ gone' \subseteq Streams
  BY <1>1, <1>3, <1>10 DEF ConnInv, TypeOK
<1>13. Fits(s, q1, r1, wire[s], sent[s], supplied[s], cbs[s], (InCb(s))')
  BY <1>9, <1>11, Zenon
<1>14. /\ wire' = [wire EXCEPT ![s] = wire[s]] /\ supplied' = [supplied EXCEPT ![s] = supplied[s]]
       /\ sent' = [sent EXCEPT ![s] = sent[s]] /\ cbs' = [cbs EXCEPT ![s] = cbs[s]]
  BY <1>1, <1>3, Kept, Zenon
<1>15. Changes(s, q1, r1, wire[s], sent[s], supplied[s], cbs[s])
  BY <1>3, <1>11, <1>14, Zenon DEF Changes
<1> QED
  BY <1>10, <1>12, <1>13, <1>15, StreamStep

\* A step after which every stream is sound, one by one.
LEMMA EachStream ==
    ASSUME ConnInv', conn' \in Conns, gone' \subseteq Streams,
           pc' \in [at : {"idle", "recv", "cb", "send"}, s : Streams \cup {0}],
           str' \in [Streams -> StreamRecords], req' \in [Streams -> Requests],
           wire' \in [Streams -> Wires], sent' \in [Streams -> Nat],
           supplied' \in [Streams -> Nat], cbs' \in [Streams -> Nat],
           \A t \in Streams :
             Fits(t, str'[t], req'[t], wire'[t], sent'[t], supplied'[t], cbs'[t], (InCb(t))')
    PROVE  H2Inv'
<1>1. TypeOK'
  BY Zenon DEF TypeOK
<1>2. \A t \in Streams :
        Sound(t, str'[t], req'[t], wire'[t], sent'[t], supplied'[t], cbs'[t], (InCb(t))')
  BY Zenon DEF Fits
<1> QED
  BY <1>1, <1>2, Zenon DEF H2Inv

\* evhtp_connection_free, for whatever reason.
LEMMA FreeConnStep ==
    ASSUME H2Inv, NEW c \in Conns, c.scratch = conn.scratch, FreeConn(c), sent' \in [Streams -> Nat], UNCHANGED <<supplied, wire, cbs, gone>>
    PROVE  H2Inv'
<1> DEFINE r(t) == IF req[t].state = "live" THEN RequestFree(req[t]) ELSE req[t]
<1>1. TypeOK /\ ConnInv /\ conn \in Conns
  BY Zenon DEF H2Inv, TypeOK
<1>2. /\ conn' \in Conns /\ conn'.scratch = conn.scratch
      /\ conn'.flush = FALSE /\ conn'.output = FALSE
  BY <1>1, Zenon DEF FreeConn, Conns
<1>3. /\ pc' \in [at : {"idle", "recv", "cb", "send"}, s : Streams \cup {0}]
      /\ pc'.at = "idle" /\ pc'.s \notin Streams
  BY H2Assumption DEF FreeConn, Idle, Streams
<1>4. ConnInv'
  BY <1>1, <1>2, <1>3, Zenon DEF ConnInv
<1>5. str' = [t \in Streams |-> StreamClosed(str[t])] /\ req' = [t \in Streams |-> r(t)]
  BY DEF FreeConn
<1>6. ASSUME NEW t \in Streams
      PROVE  Fits(t, StreamClosed(str[t]), r(t), wire[t], sent'[t], supplied[t], cbs[t], FALSE)
  BY StreamFits, FreeFits, Zenon
<1>7. \A t \in Streams : StreamClosed(str[t]) \in StreamRecords /\ r(t) \in Requests
  BY <1>6, Zenon DEF Fits
<1> HIDE DEF r
<1>8. str' \in [Streams -> StreamRecords] /\ req' \in [Streams -> Requests]
  BY <1>5, <1>7, Zenon
<1>9. ASSUME NEW t \in Streams
      PROVE  Fits(t, str'[t], req'[t], wire'[t], sent'[t], supplied'[t], cbs'[t], (InCb(t))')
  <2>1. str'[t] = StreamClosed(str[t]) /\ req'[t] = r(t)
    BY <1>5
  <2>2. (InCb(t))' = FALSE
    BY <1>3 DEF InCb
  <2> QED
    BY <1>6, <2>1, <2>2, Zenon
<1>10. /\ wire' \in [Streams -> Wires] /\ supplied' \in [Streams -> Nat] /\ cbs' \in [Streams -> Nat]
       /\ gone' \subseteq Streams
  BY <1>1, Zenon DEF TypeOK
<1> QED
  BY <1>2, <1>3, <1>4, <1>8, <1>9, <1>10, EachStream, Zenon

\* The ways to evhtp_connection_free.
LEMMA EndStep ==
    ASSUME H2Inv, EventCb \/ \E s \in Streams : RecvHeadersAbort(s) \/ DataRefused(s)
    PROVE  H2Inv'
<1>1. sent \in [Streams -> Nat]
  BY Zenon DEF H2Inv, TypeOK
<1>2. /\ FreeConn(conn) \/ FreeConn(Held(conn))
      /\ UNCHANGED <<supplied, wire, cbs, gone>>
      /\ \/ UNCHANGED sent
         \/ \E s \in Streams : sent' = [sent EXCEPT ![s] = sent[s] + 1]
  <2>1. CASE EventCb
    BY <2>1, Zenon DEF EventCb
  <2>2. CASE \E s \in Streams : RecvHeadersAbort(s)
    BY <2>2, Zenon DEF RecvHeadersAbort
  <2>3. CASE \E s \in Streams : DataRefused(s)
    BY <2>3, Zenon DEF DataRefused
  <2> QED
    BY <2>1, <2>2, <2>3, Zenon
<1>3. sent' \in [Streams -> Nat]
  BY <1>1, <1>2
<1>4. conn \in Conns
  BY Zenon DEF H2Inv, TypeOK
<1>5. Held(conn) \in Conns /\ Held(conn).scratch = conn.scratch
  BY <1>4, HeldConn, Zenon
<1> QED
  BY <1>2, <1>3, <1>4, <1>5, FreeConnStep, Zenon

\* GOAWAY marks the requests that are live.
LEMMA RecvGoawayStep ==
    ASSUME H2Inv, RecvGoaway
    PROVE  H2Inv'
<1> DEFINE r(t) == IF req[t].state = "live" THEN [req[t] EXCEPT !.flags = req[t].flags \cup {"ERROR"}]
                                            ELSE req[t]
<1>1. /\ Receiving /\ Recv /\ req' = [t \in Streams |-> r(t)]
      /\ UNCHANGED <<conn, str, sent, supplied, wire, cbs, gone>>
  BY Zenon DEF RecvGoaway
<1>2. TypeOK /\ ConnInv
  BY DEF H2Inv
<1>3. /\ pc' \in [at : {"idle", "recv", "cb", "send"}, s : Streams \cup {0}]
      /\ pc'.at = "recv" /\ pc'.s \notin Streams
  BY <1>1, H2Assumption DEF Recv, Streams
<1>4. ConnInv'
  BY <1>1, <1>2, <1>3 DEF ConnInv, Receiving
<1>5. ASSUME NEW t \in Streams
      PROVE  Fits(t, str[t], r(t), wire[t], sent[t], supplied[t], cbs[t], FALSE)
  <2>1. Fits(t, str[t], req[t], wire[t], sent[t], supplied[t], cbs[t], FALSE)
    BY <1>1, RecvFits, Zenon
  <2>2. CASE req[t].state = "live"
    <3>1. str[t].state # "idle"
      BY <2>1, <2>2, LiveFits, Zenon
    <3>2. r(t) = [req[t] EXCEPT !.flags = req[t].flags \cup {"ERROR"}]
      BY <2>2
    <3> QED
      BY <2>1, <3>1, <3>2, FlagFits, Zenon
  <2>3. CASE req[t].state # "live"
    BY <2>1, <2>3, Zenon
  <2> QED
    BY <2>2, <2>3, Zenon
<1>6. \A t \in Streams : r(t) \in Requests
  BY <1>5, Zenon DEF Fits
<1> HIDE DEF r
<1>7. req' \in [Streams -> Requests]
  BY <1>1, <1>6
<1>8. ASSUME NEW t \in Streams
      PROVE  Fits(t, str'[t], req'[t], wire'[t], sent'[t], supplied'[t], cbs'[t], (InCb(t))')
  <2>1. req'[t] = r(t)
    BY <1>1
  <2>2. (InCb(t))' = FALSE
    BY <1>3 DEF InCb
  <2> QED
    BY <1>1, <1>5, <2>1, <2>2, Zenon
<1>9. /\ wire' \in [Streams -> Wires] /\ supplied' \in [Streams -> Nat] /\ cbs' \in [Streams -> Nat]
      /\ gone' \subseteq Streams /\ sent' \in [Streams -> Nat] /\ str' \in [Streams -> StreamRecords]
      /\ conn' \in Conns
  BY <1>1, <1>2 DEF TypeOK
<1> QED
  BY <1>3, <1>4, <1>7, <1>8, <1>9, EachStream, Zenon

\* A step of the event loop that touches no stream, when no callback runs.
LEMMA LoopStep ==
    ASSUME H2Inv, UNCHANGED <<str, req, sent, supplied, wire, cbs, gone>>,
           pc.at # "cb", pc'.at # "cb",
           pc' \in [at : {"idle", "recv", "cb", "send"}, s : Streams \cup {0}],
           conn' \in Conns, ConnInv'
    PROVE  H2Inv'
<1>1. TypeOK
  BY DEF H2Inv
<1>2. ASSUME NEW t \in Streams
      PROVE  Fits(t, str'[t], req'[t], wire'[t], sent'[t], supplied'[t], cbs'[t], (InCb(t))')
  <2>1. (InCb(t))' = InCb(t)
    BY DEF InCb
  <2>2. Fits(t, str[t], req[t], wire[t], sent[t], supplied[t], cbs[t], InCb(t))
    BY StreamFits, Zenon
  <2> QED
    BY <2>1, <2>2, Zenon
<1>3. /\ wire' \in [Streams -> Wires] /\ supplied' \in [Streams -> Nat] /\ cbs' \in [Streams -> Nat]
      /\ gone' \subseteq Streams /\ sent' \in [Streams -> Nat]
      /\ str' \in [Streams -> StreamRecords] /\ req' \in [Streams -> Requests]
  BY <1>1, Zenon DEF TypeOK
<1> QED
  BY <1>2, <1>3, EachStream, Zenon

\* The places of the event loop, which are not a callback's.
LEMMA LoopPlace ==
    ASSUME NEW a \in {"idle", "recv", "send"}, NEW p, p = [at |-> a, s |-> 0]
    PROVE  /\ p \in [at : {"idle", "recv", "cb", "send"}, s : Streams \cup {0}]
           /\ p.at = a /\ p.s \notin Streams
BY H2Assumption DEF Streams

\* A connection that is written to or flushed is not freed.
LEMMA OutputConn ==
    ASSUME NEW c \in Conns
    PROVE  LET d == [c EXCEPT !.output = FALSE, !.num_requests = Counted(c)]
               e == Written([d EXCEPT !.goaway = TRUE])
               f == [c EXCEPT !.flush = FALSE]
           IN  SameConn(c, d) /\ SameConn(c, e) /\ SameConn(c, f) /\ d.flush = c.flush
<1> DEFINE d == [c EXCEPT !.output = FALSE, !.num_requests = Counted(c)]
           g == [d EXCEPT !.goaway = TRUE]
           e == Written(g)
           f == [c EXCEPT !.flush = FALSE]
<1>1. Counted(c) \in Nat
  BY DEF Counted, Conns
<1>2. SameConn(c, d) /\ d.flush = c.flush
  BY <1>1, Zenon DEF SameConn, Conns
<1>3. SameConn(c, f)
  BY Zenon DEF SameConn, Conns
<1> HIDE DEF d
<1>4. g \in Conns /\ g.held = d.held /\ g.scratch = d.scratch /\ g.state = d.state
  BY <1>2, Zenon DEF SameConn, Conns
<1> HIDE DEF g
<1>5. SameConn(c, e)
  BY <1>2, <1>4, Zenon DEF SameConn, Written, Conns
<1> QED
  BY <1>2, <1>3, <1>5 DEF d, g

\* The loop's own steps: a WINDOW_UPDATE, the ends of mem_recv and of send, and
\* the flush and write callbacks.
LEMMA LoopSteps ==
    ASSUME H2Inv, RecvReturn \/ SendReturn \/ RecvWindow \/ FlushCb \/ WriteCb
    PROVE  H2Inv'
<1>1. TypeOK /\ ConnInv /\ conn \in Conns
      /\ pc \in [at : {"idle", "recv", "cb", "send"}, s : Streams \cup {0}]
  BY Zenon DEF H2Inv, TypeOK
<1>2. ASSUME NEW a \in {"idle", "recv", "send"}, pc' = [at |-> a, s |-> 0], pc.at # "cb",
             SameConn(conn, conn'), conn.state = "open",
             UNCHANGED <<str, req, sent, supplied, wire, cbs, gone>>
      PROVE  H2Inv'
  <2>1. /\ pc' \in [at : {"idle", "recv", "cb", "send"}, s : Streams \cup {0}]
        /\ pc'.at # "cb" /\ pc'.s \notin Streams
    BY <1>2, LoopPlace, Zenon
  <2>2. ConnInv' /\ conn' \in Conns
    BY <1>1, <1>2, <2>1, Zenon DEF ConnInv, SameConn
  <2> QED
    BY <1>2, <2>1, <2>2, LoopStep, Zenon
<1>3. CASE RecvReturn \/ SendReturn
  <2>1. /\ pc.at \in {"recv", "send"}
        /\ pc' = [at |-> "send", s |-> 0] \/ pc' = [at |-> "idle", s |-> 0]
        /\ UNCHANGED <<conn, str, req, sent, supplied, wire, cbs, gone>>
    BY <1>3, Zenon DEF RecvReturn, SendReturn, Idle
  <2>2. conn.state = "open" /\ SameConn(conn, conn')
    BY <1>1, <2>1 DEF ConnInv, Conns, SameConn
  <2> QED
    BY <1>2, <2>1, <2>2
<1>4. CASE RecvWindow
  <2>1. /\ pc.at # "cb" /\ pc' = [at |-> "recv", s |-> 0] /\ conn.state = "open"
        /\ conn' = [conn EXCEPT !.window = TRUE]
        /\ UNCHANGED <<str, req, sent, supplied, wire, cbs, gone>>
    BY <1>4 DEF RecvWindow, Receiving, Recv
  <2>2. SameConn(conn, conn')
    BY <1>1, <2>1, Zenon DEF SameConn, Conns
  <2> QED
    BY <1>2, <2>1, <2>2
<1>5. CASE FlushCb
  <2>1. /\ pc.at = "idle" /\ pc' = [at |-> "send", s |-> 0] /\ conn.flush
        /\ conn' = [conn EXCEPT !.flush = FALSE]
        /\ UNCHANGED <<str, req, sent, supplied, wire, cbs, gone>>
    BY <1>5 DEF FlushCb
  <2>2. SameConn(conn, conn')
    BY <1>1, <2>1, OutputConn, Zenon
  <2>3. conn.state = "open"
    BY <1>1, <2>1, Zenon DEF ConnInv, Conns
  <2> QED
    BY <1>2, <2>1, <2>2, <2>3
<1>6. CASE WriteCb
  <2> DEFINE d == [conn EXCEPT !.output = FALSE, !.num_requests = Counted(conn)]
             e == Written([d EXCEPT !.goaway = TRUE])
  <2>1. /\ pc.at = "idle" /\ conn.output
        /\ \/ conn' = e /\ pc' = [at |-> "send", s |-> 0]
           \/ conn' = d /\ UNCHANGED pc
        /\ UNCHANGED <<str, req, sent, supplied, wire, cbs, gone>>
    BY <1>6, Zenon DEF WriteCb
  <2>2. SameConn(conn, d) /\ SameConn(conn, e)
    BY <1>1, OutputConn, Zenon
  <2> HIDE DEF d, e
  <2>3. conn.state = "open" /\ SameConn(conn, conn')
    BY <1>1, <2>1, <2>2, Zenon DEF ConnInv, Conns
  <2>4. CASE pc' = [at |-> "send", s |-> 0]
    BY <1>2, <2>1, <2>3, <2>4, Zenon
  <2>5. CASE UNCHANGED pc
    <3>1. ConnInv' /\ conn' \in Conns
      BY <1>1, <2>3, <2>5, Zenon DEF ConnInv, SameConn
    <3> QED
      BY <1>1, <2>1, <2>5, <3>1, LoopStep, Zenon
  <2> QED
    BY <2>1, <2>4, <2>5
<1> QED
  BY <1>3, <1>4, <1>5, <1>6

-----------------------------------------------------------------------------
(* nghttp2_session_send *)

\* While it sends no callback runs, and the connection is open.
LEMMA SendFits ==
    ASSUME H2Inv, NEW s \in Streams, pc.at = "send"
    PROVE  /\ Fits(s, str[s], req[s], wire[s], sent[s], supplied[s], cbs[s], FALSE)
           /\ InCb(s) = FALSE /\ TypeOK /\ gone \subseteq Streams
           /\ conn.state = "open" /\ conn \in Conns /\ SameConn(conn, conn)
<1>1. InCb(s) = FALSE
  BY DEF InCb
<1>2. Fits(s, str[s], req[s], wire[s], sent[s], supplied[s], cbs[s], FALSE)
  BY <1>1, StreamFits, Zenon
<1>3. TypeOK /\ gone \subseteq Streams /\ conn \in Conns /\ conn.state = "open"
  BY DEF H2Inv, TypeOK, ConnInv, Conns
<1> QED
  BY <1>1, <1>2, <1>3, Zenon DEF SameConn

\* A frame of a reply, after which nghttp2 settles the stream.
LEMMA SendSettle ==
    ASSUME H2Inv, NEW s \in Streams, NEW q, NEW r, NEW w, pc.at = "send",
           Fits(s, q, r, w, sent[s], supplied[s], cbs[s], FALSE), q.state # "idle",
           Settle(s, q, r), wire' = [wire EXCEPT ![s] = w], SameConn(conn, conn'),
           UNCHANGED <<pc, sent, supplied, cbs, gone>>
    PROVE  H2Inv'
<1> DEFINE q1 == IF Ended(q) THEN StreamClosed(q) ELSE q
           r1 == IF Ended(q) THEN OnStreamClose(q, r) ELSE r
<1>1. InCb(s) = FALSE /\ TypeOK /\ gone' \subseteq Streams /\ conn.state = "open"
  BY SendFits, Zenon
<1>2. Fits(s, q1, r1, w, sent[s], supplied[s], cbs[s], FALSE)
  BY SettleFits, Zenon
<1>3. str' = [str EXCEPT ![s] = q1] /\ req' = [req EXCEPT ![s] = r1]
  BY Zenon DEF Settle
<1> HIDE DEF q1, r1
<1>4. Fits(s, q1, r1, w, sent[s], supplied[s], cbs[s], InCb(s))
  BY <1>1, <1>2, Zenon
<1>5. Gives(s, q1, r1, w, supplied[s])
  BY <1>1, <1>3, Kept, Zenon DEF Gives
<1> QED
  BY <1>1, <1>4, <1>5, KeptStep, Zenon

\* A RST_STREAM goes out.
LEMMA SendRstStep ==
    ASSUME H2Inv, NEW s \in Streams, SendRst(s)
    PROVE  H2Inv'
<1> DEFINE q == StreamClosed(str[s])
           r == OnStreamClose(str[s], req[s])
<1>1. /\ pc.at = "send" /\ str[s].state # "idle"
      /\ str' = [str EXCEPT ![s] = q] /\ req' = [req EXCEPT ![s] = r]
      /\ conn' = Written(conn) /\ UNCHANGED <<pc, sent, supplied, wire, cbs, gone>>
  BY Zenon DEF SendRst
<1>2. /\ Fits(s, str[s], req[s], wire[s], sent[s], supplied[s], cbs[s], FALSE)
      /\ InCb(s) = FALSE /\ TypeOK /\ gone' \subseteq Streams /\ conn.state = "open" /\ conn \in Conns
  BY <1>1, SendFits, Zenon
<1>3. SameConn(conn, conn')
  BY <1>1, <1>2, ConnNotes, Zenon
<1>4. Fits(s, q, r, wire[s], sent[s], supplied[s], cbs[s], FALSE)
  BY <1>1, <1>2, CloseFits, Zenon
<1> HIDE DEF q, r
<1>5. Fits(s, q, r, wire[s], sent[s], supplied[s], cbs[s], InCb(s))
  BY <1>2, <1>4, Zenon
<1>6. Gives(s, q, r, wire[s], supplied[s])
  BY <1>1, <1>2, Kept, Zenon DEF Gives
<1> QED
  BY <1>1, <1>2, <1>3, <1>5, <1>6, KeptStep

\* The HEADERS of a reply go out.
LEMMA SendHeadersStep ==
    ASSUME H2Inv, NEW s \in Streams, SendHeaders(s)
    PROVE  H2Inv'
<1> DEFINE e == str[s].prd = "none"
           q == [str[s] EXCEPT !.resp = "data", !.local_end = e]
           w == [wire[s] EXCEPT !.end = e]
<1>1. /\ pc.at = "send" /\ str[s].state = "open" /\ str[s].resp = "queued"
      /\ Settle(s, q, req[s]) /\ wire' = [wire EXCEPT ![s].end = e]
      /\ conn' = Written(conn) /\ UNCHANGED <<pc, sent, supplied, cbs, gone>>
  BY Zenon DEF SendHeaders
<1>2. /\ Fits(s, str[s], req[s], wire[s], sent[s], supplied[s], cbs[s], FALSE) /\ conn \in Conns
  BY <1>1, SendFits, Zenon
<1>3. SameConn(conn, conn')
  BY <1>1, <1>2, ConnNotes, Zenon
<1>4. wire' = [wire EXCEPT ![s] = w]
  BY <1>1
<1>5. e \in BOOLEAN /\ (e <=> str[s].prd = "none")
  OBVIOUS
<1>6. q.state # "idle"
  BY <1>1, <1>2 DEF Fits, StreamRecords
<1> HIDE DEF e
<1>7. Fits(s, q, req[s], w, sent[s], supplied[s], cbs[s], FALSE)
  BY <1>1, <1>2, <1>5, HeadersFits, Zenon
<1> HIDE DEF q, w
<1> QED
  BY <1>1, <1>3, <1>4, <1>6, <1>7, SendSettle, Zenon

\* A streamed reply is parked.
LEMMA SendParkStep ==
    ASSUME H2Inv, NEW s \in Streams, SendPark(s)
    PROVE  H2Inv'
<1> DEFINE q == [str[s] EXCEPT !.resp = "parked"]
<1>1. /\ pc.at = "send" /\ str[s].state = "open" /\ str[s].resp = "data"
      /\ str' = [str EXCEPT ![s].resp = "parked"]
      /\ UNCHANGED <<conn, pc, req, sent, supplied, wire, cbs, gone>>
  BY DEF SendPark, MaySendData
<1>2. /\ Fits(s, str[s], req[s], wire[s], sent[s], supplied[s], cbs[s], FALSE)
      /\ InCb(s) = FALSE /\ TypeOK /\ gone' \subseteq Streams /\ conn.state = "open" /\ SameConn(conn, conn)
  BY <1>1, SendFits, Zenon
<1>3. SameConn(conn, conn')
  BY <1>1, <1>2, Zenon
<1>4. Fits(s, q, req[s], wire[s], sent[s], supplied[s], cbs[s], FALSE)
  BY <1>1, <1>2, ParkFits, Zenon
<1>5. str' = [str EXCEPT ![s] = q]
  BY <1>1
<1> HIDE DEF q
<1>6. Fits(s, q, req[s], wire[s], sent[s], supplied[s], cbs[s], InCb(s))
  BY <1>2, <1>4, Zenon
<1>7. Gives(s, q, req[s], wire[s], supplied[s])
  BY <1>1, <1>2, <1>5, Kept, Zenon DEF Gives
<1> QED
  BY <1>1, <1>2, <1>3, <1>6, <1>7, KeptStep

\* DATA of a reply goes out.
LEMMA SendDataStep ==
    ASSUME H2Inv, NEW s \in Streams, NEW n \in Nat, SendData(s, n)
    PROVE  H2Inv'
<1> DEFINE out == SubSeq(req[s].out, n + 1, Len(req[s].out))
           e == Eof(s, out)
           q == [str[s] EXCEPT !.local_end = e]
           r == [req[s] EXCEPT !.out = out]
           w == [data |-> wire[s].data \o SubSeq(req[s].out, 1, n), end |-> e]
<1>1. /\ pc.at = "send" /\ str[s].state = "open" /\ str[s].resp = "data" /\ ~str[s].local_end
      /\ n \in IF req[s].out = <<>> THEN {0} ELSE 1 .. Len(req[s].out)
      /\ wire' = [wire EXCEPT ![s] = w] /\ Settle(s, q, r)
      /\ \E b \in BOOLEAN : conn' = [Written(conn) EXCEPT !.window = b]
      /\ UNCHANGED <<pc, sent, supplied, cbs, gone>>
  BY Zenon DEF SendData, MaySendData
<1>2. /\ Fits(s, str[s], req[s], wire[s], sent[s], supplied[s], cbs[s], FALSE) /\ conn \in Conns
  BY <1>1, SendFits, Zenon
<1>3. SameConn(conn, conn')
  BY <1>1, <1>2, ConnNotes, Zenon
<1>4. n \in 0 .. Len(req[s].out)
  BY <1>1, <1>2 DEF Fits, Requests
<1>5. e \in BOOLEAN /\ (e => out = <<>> /\ (str[s].prd = "stream" => "FINISHED" \in req[s].flags))
  BY Zenon DEF Eof
<1>6. q.state # "idle"
  BY <1>1, <1>2, Zenon DEF Fits, StreamRecords
<1> HIDE DEF e
<1>7. Fits(s, q, r, w, sent[s], supplied[s], cbs[s], FALSE)
  BY <1>1, <1>2, <1>4, <1>5, DataFits, Zenon
<1> HIDE DEF q, r, w
<1> QED
  BY <1>1, <1>3, <1>6, <1>7, SendSettle, Zenon

-----------------------------------------------------------------------------
(* The application *)

\* The application has the request: it was dispatched and is live.
LEMMA AppFits ==
    ASSUME H2Inv, NEW s \in Streams, AppHas(s)
    PROVE  /\ Fits(s, str[s], req[s], wire[s], sent[s], supplied[s], cbs[s], InCb(s))
           /\ cbs[s] # 0 /\ req[s].state = "live" /\ conn.state = "open"
           /\ TypeOK /\ gone \subseteq Streams /\ SameConn(conn, Flushing(conn))
           /\ str[s] \in StreamRecords /\ req[s] \in Requests /\ str[s].state # "idle"
<1>1. Fits(s, str[s], req[s], wire[s], sent[s], supplied[s], cbs[s], InCb(s))
  BY StreamFits, Zenon
<1>2. cbs[s] # 0 /\ req[s].state = "live" /\ conn.state = "open"
  BY <1>1 DEF AppHas, Fits
<1>3. TypeOK /\ gone \subseteq Streams /\ conn \in Conns
  BY DEF H2Inv, TypeOK
<1>4. SameConn(conn, Flushing(conn))
  BY <1>3, ConnNotes, Zenon
<1>5. str[s] \in StreamRecords /\ req[s] \in Requests /\ str[s].state # "idle"
  BY <1>1, <1>2, Zenon DEF Fits, Sound, Phase, NoRequest
<1> QED
  BY <1>1, <1>2, <1>3, <1>4, <1>5, Zenon

\* evhtp_h2_send_reply keeps H2Inv.
LEMMA AppReplyStep ==
    ASSUME H2Inv, NEW s \in Streams, NEW n \in Nat, AppReply(s, n)
    PROVE  H2Inv'
<1> DEFINE p == IF n > 0 THEN "reply" ELSE "none"
           q == Submit(str[s], p)
           r0 == [Finished(req[s]) EXCEPT !.out = Units(n)]
           r == [req[s] EXCEPT !.flags = req[s].flags \cup {"FINISHED"}, !.out = Units(n)]
<1>1. /\ AppHas(s) /\ req[s].flags \cap {"FINISHED", "STREAMING"} = {}
      /\ str' = [str EXCEPT ![s] = q] /\ req' = [req EXCEPT ![s] = r0]
      /\ supplied' = [supplied EXCEPT ![s] = n] /\ conn' = Flushing(conn)
      /\ UNCHANGED <<pc, sent, wire, cbs, gone>>
  BY Zenon DEF AppReply, Units
<1>2. /\ Fits(s, str[s], req[s], wire[s], sent[s], supplied[s], cbs[s], InCb(s))
      /\ cbs[s] # 0 /\ req[s].state = "live" /\ conn.state = "open"
      /\ TypeOK /\ gone' \subseteq Streams /\ SameConn(conn, conn') /\ req[s] \in Requests
  BY <1>1, AppFits
<1>3. r0 = r
  BY <1>2, Zenon DEF Finished, Requests
<1>4. p \in {"none", "reply", "stream"} /\ (p = "none" => n = 0)
  OBVIOUS
<1> HIDE DEF p
<1>5. Fits(s, q, r, wire[s], sent[s], n, cbs[s], InCb(s))
  BY <1>1, <1>2, <1>4, AppReplyFits, Zenon
<1> HIDE DEF q, r, r0
<1>6. Gives(s, q, r, wire[s], n)
  BY <1>1, <1>2, <1>3, Kept, Zenon DEF Gives
<1> QED
  BY <1>1, <1>2, <1>5, <1>6, KeptStep, Zenon

\* evhtp_h2_send_reply_start keeps H2Inv.
LEMMA AppReplyStartStep ==
    ASSUME H2Inv, NEW s \in Streams, NEW n \in Nat, AppReplyStart(s, n)
    PROVE  H2Inv'
<1> DEFINE q == Submit(str[s], "stream")
           r == [req[s] EXCEPT !.flags = req[s].flags \cup {"STREAMING"}, !.out = Units(n)]
<1>1. /\ AppHas(s) /\ req[s].flags \cap {"FINISHED", "STREAMING"} = {}
      /\ str' = [str EXCEPT ![s] = q]
      /\ req' = [req EXCEPT ![s].flags = req[s].flags \cup {"STREAMING"}, ![s].out = Units(n)]
      /\ supplied' = [supplied EXCEPT ![s] = n] /\ conn' = Flushing(conn)
      /\ UNCHANGED <<pc, sent, wire, cbs, gone>>
  BY DEF AppReplyStart, Units
<1>2. /\ Fits(s, str[s], req[s], wire[s], sent[s], supplied[s], cbs[s], InCb(s))
      /\ cbs[s] # 0 /\ req[s].state = "live" /\ conn.state = "open"
      /\ TypeOK /\ gone' \subseteq Streams /\ SameConn(conn, conn') /\ req[s] \in Requests
  BY <1>1, AppFits, Zenon
<1>3. req' = [req EXCEPT ![s] = r]
  BY <1>1, <1>2, Zenon DEF TypeOK, Requests
<1>5. Fits(s, q, r, wire[s], sent[s], n, cbs[s], InCb(s))
  BY <1>1, <1>2, AppReplyFits, Zenon
<1> HIDE DEF q, r
<1>6. Gives(s, q, r, wire[s], n)
  BY <1>1, <1>2, <1>3, Kept, Zenon DEF Gives
<1> QED
  BY <1>1, <1>2, <1>5, <1>6, KeptStep

\* h2__stream_resume_ of a parked stream, or of one that is not parked.
LEMMA ResumeFits ==
    ASSUME NEW s \in Streams, NEW q, NEW r, NEW w, NEW m, NEW k, NEW n, NEW cb,
           Fits(s, q, r, w, m, k, n, cb), q.state # "idle"
    PROVE  Fits(s, [q EXCEPT !.resp = IF q.resp = "parked" THEN "data" ELSE q.resp], r, w, m, k, n, cb)
<1>1. q \in StreamRecords
  BY Zenon DEF Fits
<1>2. CASE q.resp = "parked"
  BY <1>2, ParkFits, Zenon
<1>3. CASE q.resp # "parked"
  <2>1. [q EXCEPT !.resp = IF q.resp = "parked" THEN "data" ELSE q.resp] = q
    BY <1>1, <1>3 DEF StreamRecords
  <2> QED
    BY <2>1, Zenon
<1> QED
  BY <1>2, <1>3, Zenon

\* evhtp_h2_send_reply_body keeps H2Inv.
LEMMA AppReplyBodyStep ==
    ASSUME H2Inv, NEW s \in Streams, AppReplyBody(s)
    PROVE  H2Inv'
<1> DEFINE q == [str[s] EXCEPT !.resp = IF str[s].resp = "parked" THEN "data" ELSE str[s].resp]
           r == [req[s] EXCEPT !.out = Append(req[s].out, supplied[s] + 1)]
<1>1. /\ AppHas(s) /\ "STREAMING" \in req[s].flags /\ "FINISHED" \notin req[s].flags
      /\ str' = [str EXCEPT ![s].resp = IF str[s].resp = "parked" THEN "data" ELSE str[s].resp]
      /\ req' = [req EXCEPT ![s].out = Append(req[s].out, supplied[s] + 1)]
      /\ supplied' = [supplied EXCEPT ![s] = supplied[s] + 1] /\ conn' = Flushing(conn)
      /\ UNCHANGED <<pc, sent, wire, cbs, gone>>
  BY DEF AppReplyBody, StreamResume
<1>2. /\ Fits(s, str[s], req[s], wire[s], sent[s], supplied[s], cbs[s], InCb(s))
      /\ cbs[s] # 0 /\ req[s].state = "live" /\ conn.state = "open"
      /\ TypeOK /\ gone' \subseteq Streams /\ SameConn(conn, conn') /\ str[s].state # "idle"
  BY <1>1, AppFits
<1>3. str' = [str EXCEPT ![s] = q] /\ req' = [req EXCEPT ![s] = r]
  BY <1>1
<1>4. Fits(s, str[s], r, wire[s], sent[s], supplied[s] + 1, cbs[s], InCb(s))
  BY <1>1, <1>2, AppBodyFits
<1> HIDE DEF r
<1>5. Fits(s, q, r, wire[s], sent[s], supplied[s] + 1, cbs[s], InCb(s))
  BY <1>2, <1>4, ResumeFits
<1> HIDE DEF q
<1>6. Gives(s, q, r, wire[s], supplied[s] + 1)
  BY <1>1, <1>2, <1>3, Kept, Zenon DEF Gives
<1> QED
  BY <1>1, <1>2, <1>5, <1>6, KeptStep, Zenon

\* evhtp_h2_send_reply_end keeps H2Inv.
LEMMA AppReplyEndStep ==
    ASSUME H2Inv, NEW s \in Streams, AppReplyEnd(s)
    PROVE  H2Inv'
<1> DEFINE q == [str[s] EXCEPT !.resp = IF str[s].resp = "parked" THEN "data" ELSE str[s].resp]
           r == Finished(req[s])
<1>1. /\ AppHas(s)
      /\ str' = [str EXCEPT ![s].resp = IF str[s].resp = "parked" THEN "data" ELSE str[s].resp]
      /\ req' = [req EXCEPT ![s] = r] /\ conn' = Flushing(conn)
      /\ UNCHANGED <<pc, sent, supplied, wire, cbs, gone>>
  BY DEF AppReplyEnd, StreamResume
<1>2. /\ Fits(s, str[s], req[s], wire[s], sent[s], supplied[s], cbs[s], InCb(s))
      /\ cbs[s] # 0 /\ req[s].state = "live" /\ conn.state = "open"
      /\ TypeOK /\ gone' \subseteq Streams /\ SameConn(conn, conn') /\ str[s].state # "idle"
  BY <1>1, AppFits
<1>3. str' = [str EXCEPT ![s] = q]
  BY <1>1, Zenon
<1>4. Fits(s, str[s], r, wire[s], sent[s], supplied[s], cbs[s], InCb(s))
  BY <1>2, AppEndFits, Zenon
<1> HIDE DEF r
<1>5. Fits(s, q, r, wire[s], sent[s], supplied[s], cbs[s], InCb(s))
  BY <1>2, <1>4, ResumeFits
<1> HIDE DEF q
<1>6. Gives(s, q, r, wire[s], supplied[s])
  BY <1>1, <1>2, <1>3, Kept, Zenon DEF Gives
<1> QED
  BY <1>1, <1>2, <1>5, <1>6, KeptStep

\* evhtp_h2_reset_stream keeps H2Inv.
LEMMA AppResetStep ==
    ASSUME H2Inv, NEW s \in Streams, AppReset(s)
    PROVE  H2Inv'
<1> DEFINE q == [str[s] EXCEPT !.state = "closing"]
           r == [req[s] EXCEPT !.flags = (req[s].flags \cup {"FINISHED"}) \ {"STREAMING"}]
<1>1. /\ AppHas(s) /\ str' = [str EXCEPT ![s].state = "closing"]
      /\ req' = [req EXCEPT ![s].flags = (req[s].flags \cup {"FINISHED"}) \ {"STREAMING"}]
      /\ conn' = Flushing(conn) /\ gone' = gone \cup {s}
      /\ UNCHANGED <<pc, sent, supplied, wire, cbs>>
  BY DEF AppReset
<1>2. /\ Fits(s, str[s], req[s], wire[s], sent[s], supplied[s], cbs[s], InCb(s))
      /\ cbs[s] # 0 /\ req[s].state = "live" /\ conn.state = "open"
      /\ TypeOK /\ gone' \subseteq Streams /\ SameConn(conn, conn') /\ req[s] \in Requests
  BY <1>1, AppFits
<1>3. str' = [str EXCEPT ![s] = q] /\ req' = [req EXCEPT ![s] = r]
  BY <1>1
<1>5. Fits(s, q, r, wire[s], sent[s], supplied[s], cbs[s], InCb(s))
  BY <1>2, AppResetFits
<1> HIDE DEF q, r
<1>6. Gives(s, q, r, wire[s], supplied[s])
  BY <1>1, <1>2, <1>3, Kept, Zenon DEF Gives
<1> QED
  BY <1>1, <1>2, <1>5, <1>6, KeptStep

-----------------------------------------------------------------------------
(* Theorems *)

\* A connection on which nothing has been received satisfies H2Inv.
LEMMA InitInv ==
    ASSUME Init
    PROVE  H2Inv
<1>1. /\ conn \in Conns /\ conn.scratch = <<>> /\ conn.state = "open"
  BY DEF Init, Conn, Conns
<1>2. /\ pc \in [at : {"idle", "recv", "cb", "send"}, s : Streams \cup {0}]
      /\ pc.at = "idle" /\ pc.s \notin Streams
  BY LoopPlace, Zenon DEF Init, Idle
<1>3. ConnInv
  BY <1>1, <1>2, Zenon DEF ConnInv
<1>4. NoStream \in StreamRecords /\ NoRequest \in Requests /\ [data |-> <<>>, end |-> FALSE] \in Wires
  BY DEF NoStream, NoRequest, StreamRecords, Requests, Wires
<1>5. TypeOK
  BY <1>1, <1>2, <1>4, Zenon DEF Init, TypeOK
<1>6. ASSUME NEW s \in Streams
      PROVE  Sound(s, str[s], req[s], wire[s], sent[s], supplied[s], cbs[s], InCb(s))
  <2>1. /\ str[s] = NoStream /\ req[s] = NoRequest /\ sent[s] = 0 /\ supplied[s] = 0 /\ cbs[s] = 0
        /\ wire[s].data = <<>> /\ wire[s].end = FALSE /\ ~InCb(s)
    BY <1>2, Zenon DEF Init, InCb
  <2>2. /\ NoStream.state = "idle" /\ ~NoStream.user /\ NoStream.resp = "none" /\ NoStream.prd = "none"
        /\ NoRequest.state = "none" /\ NoRequest.flags = {} /\ NoRequest.out = <<>>
    BY Zenon DEF NoStream, NoRequest
  <2>3. Pointed(str[s], req[s], InCb(s)) /\ Phase(str[s], req[s], cbs[s], InCb(s))
    BY <2>1, <2>2, Zenon DEF Pointed, Phase
  <2>4. Replying(str[s], req[s], wire[s], cbs[s], supplied[s])
    BY <2>1, <2>2, Zenon DEF Replying, Nothing
  <2>5. Received(s, str[s], req[s], sent[s], InCb(s))
    BY <2>1, <2>2 DEF Received
  <2> QED
    BY <2>3, <2>4, <2>5, Zenon DEF Sound
<1> QED
  BY <1>3, <1>5, <1>6, Zenon DEF H2Inv

\* Every step of the session keeps H2Inv.
LEMMA NextInv ==
    ASSUME H2Inv, [Next]_vars
    PROVE  H2Inv'
<1>1. CASE UNCHANGED vars
  <2>1. UNCHANGED <<conn, pc, str, req, sent, supplied, wire, cbs, gone>>
    BY <1>1 DEF vars
  <2>2. TypeOK' /\ ConnInv'
    BY <2>1, Zenon DEF H2Inv, TypeOK, ConnInv
  <2>3. \A s \in Streams : (InCb(s))' = InCb(s)
    BY <2>1, Zenon DEF InCb
  <2> QED
    BY <2>1, <2>2, <2>3, Zenon DEF H2Inv
<1>2. ASSUME NEW s \in Streams, Peer(s)
      PROVE  H2Inv'
  BY <1>2, RecvHeadersStep, EndStep, RecvTrailersStep, DataIgnoredStep, DataDroppedStep, DataTakenStep,
     DataEndAnsweredStep, DataEndStep, RecvRstStep DEF Peer
<1>3. ASSUME NEW s \in Streams, Send(s)
      PROVE  H2Inv'
  <2>1. 0 .. MaxPieces \subseteq Nat
    BY H2Assumption
  <2> QED
    BY <1>3, <2>1, SendRstStep, SendHeadersStep, SendParkStep, SendDataStep, Zenon DEF Send
<1>4. ASSUME NEW s \in Streams, App(s)
      PROVE  H2Inv'
  <2>1. 0 .. MaxPieces \subseteq Nat
    BY H2Assumption
  <2> QED
    BY <1>4, <2>1, AppReplyStep, AppReplyStartStep, AppReplyBodyStep, AppReplyEndStep, AppResetStep,
       Zenon DEF App
<1> QED
  BY <1>1, <1>2, <1>3, <1>4, CbReturnStep, LoopSteps, RecvGoawayStep, EndStep, Zenon DEF Next

\* H2Inv holds of every reachable state of a session, with any number of streams.
THEOREM Invariant == Spec => []H2Inv
<1>1. Init => H2Inv
  BY InitInv
<1>2. H2Inv /\ [Next]_vars => H2Inv'
  BY NextInv
<1> QED
  BY <1>1, <1>2, PTL DEF Spec

\* nghttp2's two pointers to a request, and the running callback, never outlive it.
THEOREM RequestsPointedAtLive == Spec => []NoDanglingRequest
<1>1. H2Inv => NoDanglingRequest
  BY DEF H2Inv, Sound, Pointed, InCb, NoDanglingRequest
<1> QED
  BY <1>1, Invariant, PTL

\* Replies leave in order and whole, and end only when they have ended.
THEOREM RepliesIntact == Spec => []ReplyIntact
<1>1. H2Inv => ReplyIntact
  BY Zenon DEF H2Inv, Sound, Replying, Units, ReplyIntact
<1> QED
  BY <1>1, Invariant, PTL

\* When no on_read hook pauses, a callback is given the body of its own stream; a
\* hook that pauses leaves units in the scratch buffer that all streams share.
THEOREM BodiesIntact ==
    ASSUME "PAUSE" \notin ReadResults
    PROVE  Spec => []BodyIntact
<1>1. ASSUME H2Inv
      PROVE  BodyIntact
  <2> SUFFICES ASSUME pc.at = "cb"
               PROVE  req[pc.s].in = [i \in 1 .. sent[pc.s] |-> <<pc.s, i>>]
    BY Zenon DEF BodyIntact
  <2>1. PICK s \in Streams : s = pc.s
    BY <1>1 DEF H2Inv, ConnInv
  <2>2. InCb(s) = TRUE
    BY <2>1 DEF InCb
  <2>3. Sound(s, str[s], req[s], wire[s], sent[s], supplied[s], cbs[s], TRUE)
    BY <1>1, <2>2, Zenon DEF H2Inv
  <2>4. req[s].in = Body(s, sent[s])
    BY <2>3, Zenon DEF Sound, Pointed, Received
  <2> QED
    BY <2>1, <2>4, Zenon DEF Body
<1> QED
  BY <1>1, Invariant, PTL

\* What DispatchedOnce says of a step.
OnceStep ==
    \A s \in Streams : cbs'[s] # cbs[s] =>
      cbs[s] = 0 /\ "END_STREAM" \in req'[s].flags /\ "FINISHED" \notin req'[s].flags

\* The callback of a stream is called: only its count changes.
LEMMA DispatchOnce ==
    ASSUME TypeOK, NEW s \in Streams, NEW r, Dispatch(s), cbs[s] = 0, req' = [req EXCEPT ![s] = r],
           "END_STREAM" \in r.flags, "FINISHED" \notin r.flags
    PROVE  OnceStep
<1>1. /\ \A t \in Streams : t # s => cbs'[t] = cbs[t]
      /\ req'[s] = r
  BY Zenon DEF TypeOK, Dispatch
<1> QED
  BY <1>1, Zenon DEF OnceStep

\* handle_h2_headers_frame dispatches the request if the frame ends the stream and
\* no hook has answered.
LEMMA HeadFrameOnce ==
    ASSUME TypeOK, NEW s \in Streams, NEW q, NEW r \in Requests, NEW end \in BOOLEAN, NEW c, NEW result,
           cbs[s] = 0, HeadFrame(s, q, r, end, c, result)
    PROVE  OnceStep
<1> DEFINE r1 == [r EXCEPT !.flags = r.flags \cup {"END_STREAM"}]
<1>1. \/ UNCHANGED cbs
      \/ /\ Dispatch(s) /\ req' = [req EXCEPT ![s] = r1] /\ "FINISHED" \notin r1.flags
  BY DEF HeadFrame
<1>2. "END_STREAM" \in r1.flags
  BY Zenon DEF Requests
<1> HIDE DEF r1
<1>3. CASE UNCHANGED cbs
  BY <1>3, Zenon DEF OnceStep
<1>4. CASE Dispatch(s) /\ req' = [req EXCEPT ![s] = r1] /\ "FINISHED" \notin r1.flags
  BY <1>2, <1>4, DispatchOnce, Zenon
<1> QED
  BY <1>1, <1>3, <1>4

\* The three frames that lead to a callback.
LEMMA PeerOnce ==
    ASSUME H2Inv, NEW s \in Streams, Peer(s)
    PROVE  OnceStep
<1>1. TypeOK /\ req[s] \in Requests /\ conn.htp \in Vhosts \cup {Main}
  BY DEF H2Inv, TypeOK, Conns
<1>2. ASSUME UNCHANGED cbs
      PROVE  OnceStep
  BY <1>2, Zenon DEF OnceStep
<1>3. ASSUME NEW end \in BOOLEAN, NEW result, RecvHeaders(s, end, result)
      PROVE  OnceStep
  <2> DEFINE htp == VhostFor(conn.htp, Host[s])
             r == [NoRequest EXCEPT !.state = "live", !.htp = htp]
             q == [NoStream EXCEPT !.state = "open", !.user = TRUE]
  <2>1. /\ Receiving /\ str[s].state = "idle"
        /\ HeadFrame(s, q, r, end, [conn EXCEPT !.htp = htp], result)
    BY <1>3, Zenon DEF RecvHeaders
  <2>2. Fits(s, str[s], req[s], wire[s], sent[s], supplied[s], cbs[s], FALSE)
    BY <2>1, RecvFits, Zenon
  <2>3. htp \in Vhosts \cup {Main}
    BY <1>1, H2Assumption, Zenon DEF VhostFor, Streams
  <2> HIDE DEF htp
  <2>4. cbs[s] = 0 /\ Fits(s, q, r, wire[s], sent[s], supplied[s], cbs[s], FALSE)
    BY <2>1, <2>2, <2>3, OpenFits, Zenon
  <2>5. r \in Requests
    BY <2>4, Zenon DEF Fits
  <2> HIDE DEF q, r
  <2> QED
    BY <1>1, <2>1, <2>4, <2>5, HeadFrameOnce
<1>4. ASSUME NEW result, RecvTrailers(s, result)
      PROVE  OnceStep
  <2>1. /\ Receiving /\ str[s].state = "open" /\ ~str[s].remote_end
        /\ HeadFrame(s, str[s], req[s], TRUE, conn, result)
    BY <1>4, Zenon DEF RecvTrailers
  <2>2. cbs[s] = 0
    BY <2>1, RecvFits, Zenon
  <2> QED
    BY <1>1, <2>1, <2>2, HeadFrameOnce, Zenon
<1>5. ASSUME DataEnd(s)
      PROVE  OnceStep
  <2> DEFINE r == [req[s] EXCEPT !.flags = req[s].flags \cup {"END_STREAM"}]
  <2>1. /\ Receiving /\ str[s].state = "open" /\ ~str[s].remote_end /\ "FINISHED" \notin req[s].flags
        /\ req' = [req EXCEPT ![s] = r] /\ Dispatch(s)
    BY <1>5, Zenon DEF DataEnd, MayData
  <2>2. cbs[s] = 0
    BY <2>1, RecvFits, Zenon
  <2>3. "END_STREAM" \in r.flags /\ "FINISHED" \notin r.flags
    BY <1>1, <2>1 DEF Requests
  <2> HIDE DEF r
  <2> QED
    BY <1>1, <2>1, <2>2, <2>3, DispatchOnce, Zenon
<1>6. ASSUME \/ RecvHeadersAbort(s) \/ DataIgnored(s) \/ DataRefused(s) \/ DataDropped(s)
             \/ DataEndAnswered(s) \/ RecvRst(s)
             \/ \E result \in ReadResults : DataTaken(s, result)
      PROVE  OnceStep
  BY <1>2, <1>6, Zenon DEF RecvHeadersAbort, DataIgnored, DataRefused, DataDropped,
     DataEndAnswered, RecvRst, DataTaken
<1> QED
  BY <1>3, <1>4, <1>5, <1>6, Zenon DEF Peer

\* No other step calls a callback.
LEMMA NextOnce ==
    ASSUME H2Inv, Next
    PROVE  OnceStep
<1>1. ASSUME UNCHANGED cbs
      PROVE  OnceStep
  BY <1>1, Zenon DEF OnceStep
<1>2. ASSUME NEW s \in Streams, Send(s)
      PROVE  UNCHANGED cbs
  BY <1>2, Zenon DEF Send, SendRst, SendHeaders, SendPark, SendData
<1>3. ASSUME NEW s \in Streams, App(s)
      PROVE  UNCHANGED cbs
  BY <1>3, Zenon DEF App, AppReply, AppReplyStart, AppReplyBody, AppReplyEnd, AppReset
<1>4. ASSUME CbReturn \/ RecvReturn \/ SendReturn \/ RecvGoaway \/ RecvWindow \/ FlushCb \/ WriteCb \/ EventCb
      PROVE  UNCHANGED cbs
  BY <1>4, Zenon DEF CbReturn, RecvReturn, SendReturn, RecvGoaway, RecvWindow, FlushCb, WriteCb, EventCb
<1> QED
  BY <1>1, <1>2, <1>3, <1>4, PeerOnce, Zenon DEF Next

\* A request's callback is called at most once, when its stream has ended and no
\* hook has answered it.
THEOREM CallbackOnce == Spec => DispatchedOnce
<1>1. H2Inv /\ [Next]_vars => [OnceStep]_vars
  BY NextOnce
<1>2. OnceStep <=> \A s \in Streams : cbs'[s] # cbs[s] =>
                     cbs[s] = 0 /\ "END_STREAM" \in req'[s].flags /\ "FINISHED" \notin req'[s].flags
  BY DEF OnceStep
<1> QED
  BY <1>1, <1>2, Invariant, PTL DEF Spec, DispatchedOnce

=============================================================================
