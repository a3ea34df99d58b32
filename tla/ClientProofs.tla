---------------------------- MODULE ClientProofs ----------------------------
(***************************************************************************)
(* ClientReferences and ResponseIntact of Client, for any number of        *)
(* requests and any length of a response.                                  *)
(*                                                                         *)
(* Neither is inductive alone.  ProtocolInv adds which of c->request and   *)
(* c->pending is in use; ReadingInv, that over HTTP/1 the parser reads the *)
(* answer to the request in c->request; Linked, which streams may still    *)
(* point to a request; Delivered, that the callback waits for the end of   *)
(* the answer.  There is a lemma for every action; the fields a step       *)
(* touches and the end of a connection are treated before, once for all.   *)
(***************************************************************************)
EXTENDS Client, TLAPS

\* The server owes at most one answer over HTTP/1: its queue has one element.
LEMMA OneAsked ==
    \A r \in Requests : /\ Head(<<r>>) = r /\ Tail(<<r>>) = << >> /\ Append(<< >>, r) = <<r>>
                        /\ <<r>> # << >>
OBVIOUS

\* c->request when it is set.
LEMMA CurrentIs ==
    ASSUME NEW r \in Requests, conn.request = {r}
    PROVE  Current = r
BY DEF Current

\* A step that concerns one request and leaves the connection there.
LEMMA OneRequest ==
    ASSUME ClientInv, ClientType', ProtocolInv', ReadingInv', NEW r \in Requests,
           conn'.h2 = conn.h2, conn'.state = conn.state, conn.state # "freed",
           \A s \in Requests \ {r} : /\ req'[s] = req[s] /\ answer'[s] = answer[s]
                                     /\ (s \in conn'.request <=> s \in conn.request)
                                     /\ (s \in conn'.pending <=> s \in conn.pending),
           Linked(conn', r, req'[r]), Delivered(conn'.state, req'[r], answer'[r])
    PROVE  ClientInv'
<1>1. ASSUME NEW s \in Requests, s # r
      PROVE  Linked(conn', s, req'[s]) /\ Delivered(conn'.state, req'[s], answer'[s])
  <2>1. Linked(conn, s, req[s]) /\ Delivered(conn.state, req[s], answer[s])
    BY DEF ClientInv
  <2> QED
    BY <1>1, <2>1 DEF Linked, Delivered
<1> QED
  BY <1>1, Zenon DEF ClientInv

\* htp__request_free_ on the request itself.
LEMMA RequestFreeFields ==
    ASSUME NEW q \in RequestRecords
    PROVE  /\ RequestFree(q) \in RequestRecords
           /\ RequestFree(q).state = "freed" /\ RequestFree(q).user = FALSE
           /\ RequestFree(q).stream = q.stream /\ RequestFree(q).upload = q.upload
           /\ RequestFree(q).cbs = q.cbs /\ RequestFree(q).in = q.in
BY Zenon DEF RequestFree, RequestRecords

\* Nothing of the request is left to send.
LEMMA UploadField ==
    ASSUME NEW q \in RequestRecords
    PROVE  LET f == [q EXCEPT !.upload = FALSE] IN
           /\ f \in RequestRecords /\ f.stream = q.stream /\ f.user = q.user /\ f.upload = FALSE
           /\ f.state = q.state /\ f.cbs = q.cbs /\ f.in = q.in
BY Zenon DEF RequestRecords

\* evhtp_connection_free: what is left of the requests is freed with the
\* connection, whatever has been read or told before.
LEMMA FreeInv ==
    ASSUME ClientInv, NEW rs \in [Requests -> RequestRecords], ConnectionFree(rs),
           \A r \in Requests : /\ rs[r].state = req[r].state /\ rs[r].user = req[r].user
                               /\ rs[r].stream = req[r].stream /\ rs[r].upload = req[r].upload,
           \A r \in Requests : Delivered("freed", rs[r], answer'[r]),
           answer' \in [Requests -> AnswerRecords], parser' \in Int, asked' \in Seq(Requests),
           conn.h2 => asked' = << >>
    PROVE  ClientInv'
<1>t. ClientType /\ ProtocolInv /\ \A r \in Requests : Linked(conn, r, req[r])
  BY DEF ClientInv
<1>1. /\ conn' \in ConnRecords
      /\ conn'.state = "freed" /\ conn'.request = {} /\ conn'.pending = {} /\ conn'.h2 = conn.h2
  BY <1>t, Zenon DEF ClientType, ConnectionFree, ConnRecords
<1>2. \A r \in Requests : /\ req'[r] \in RequestRecords
                          /\ req'[r].state # "live" /\ ~req'[r].user /\ ~req'[r].upload
                          /\ req'[r].state = "none" => rs[r].state = "none"
                          /\ req'[r].stream = req[r].stream
                          /\ req'[r].cbs = rs[r].cbs /\ req'[r].in = rs[r].in
  <2> TAKE r \in Requests
  <2>1. /\ rs[r] \in RequestRecords /\ Linked(conn, r, req[r])
        /\ rs[r].state = req[r].state /\ rs[r].user = req[r].user /\ rs[r].upload = req[r].upload
        /\ rs[r].stream = req[r].stream
    BY <1>t
  <2>2. req'[r] = IF r \in Known THEN [RequestFree(rs[r]) EXCEPT !.upload = FALSE] ELSE rs[r]
    BY DEF ConnectionFree
  <2>3. CASE r \in Known
    <3> DEFINE q == RequestFree(rs[r])
    <3>1. /\ q \in RequestRecords /\ q.state = "freed" /\ q.user = FALSE /\ q.stream = rs[r].stream
          /\ q.cbs = rs[r].cbs /\ q.in = rs[r].in
      BY <2>1, RequestFreeFields, Zenon
    <3>2. req'[r] = [q EXCEPT !.upload = FALSE]
      BY <2>2, <2>3
    <3> HIDE DEF q
    <3>3. LET f == [q EXCEPT !.upload = FALSE] IN
          /\ f \in RequestRecords /\ f.stream = q.stream /\ f.user = q.user /\ f.upload = FALSE
          /\ f.state = q.state /\ f.cbs = q.cbs /\ f.in = q.in
      BY <3>1, UploadField
    <3> QED
      BY <2>1, <3>1, <3>2, <3>3
  <2>4. CASE r \notin Known
    BY <2>1, <2>2, <2>4 DEF Known, Linked
  <2> QED
    BY <2>3, <2>4
<1>3. req' \in [Requests -> RequestRecords]
  <2>1. req' = [r \in Requests |-> req'[r]]
    BY DEF ConnectionFree
  <2> QED
    BY <1>2, <2>1
<1>4. ClientType'
  BY <1>1, <1>3 DEF ClientType
<1>5. ProtocolInv'
  BY <1>1, <1>t DEF ProtocolInv
<1>6. ReadingInv'
  BY <1>1 DEF ReadingInv
<1>7. ASSUME NEW r \in Requests
      PROVE  Linked(conn', r, req'[r]) /\ Delivered(conn'.state, req'[r], answer'[r])
  <2>1. Linked(conn, r, req[r])
    BY <1>t
  <2>2. Delivered("freed", rs[r], answer'[r])
    OBVIOUS
  <2>3. Linked(conn', r, req'[r])
    <3>1. req'[r].state = "none" => req[r].state = "none"
      BY <1>2
    <3> QED
      BY <2>1, <3>1, <1>1, <1>2 DEF Linked
  <2>4. /\ req'[r].stream = rs[r].stream /\ req'[r].cbs = rs[r].cbs /\ req'[r].in = rs[r].in
        /\ conn'.state = "freed" /\ (req'[r].state = "none" => rs[r].state = "none")
    BY <1>1, <1>2
  <2>5. Delivered(conn'.state, req'[r], answer'[r])
    BY <2>2, <2>4 DEF Delivered
  <2> QED
    BY <2>3, <2>5
<1> QED
  BY <1>4, <1>5, <1>6, <1>7 DEF ClientInv

\* The error hook changes nothing the connection or the streams depend on.
LEMMA ToldFields ==
    ASSUME ClientType, NEW S
    PROVE  /\ Told(S) \in [Requests -> RequestRecords]
           /\ \A r \in Requests :
                /\ Told(S)[r].state = req[r].state /\ Told(S)[r].user = req[r].user
                /\ Told(S)[r].stream = req[r].stream /\ Told(S)[r].upload = req[r].upload
                /\ Told(S)[r].cbs = req[r].cbs /\ Told(S)[r].in = req[r].in
<1>0. ASSUME NEW q \in RequestRecords
      PROVE  LET p == [q EXCEPT !.told = TRUE]
             IN  /\ p \in RequestRecords /\ p.state = q.state /\ p.user = q.user /\ p.stream = q.stream
                 /\ p.upload = q.upload /\ p.cbs = q.cbs /\ p.in = q.in
  BY Zenon DEF RequestRecords
<1>1. ASSUME NEW r \in Requests
      PROVE  /\ Told(S)[r] \in RequestRecords
             /\ Told(S)[r].state = req[r].state /\ Told(S)[r].user = req[r].user
             /\ Told(S)[r].stream = req[r].stream /\ Told(S)[r].upload = req[r].upload
             /\ Told(S)[r].cbs = req[r].cbs /\ Told(S)[r].in = req[r].in
  <2>1. Told(S)[r] = IF r \in S THEN [req[r] EXCEPT !.told = TRUE] ELSE req[r]
    BY DEF Told
  <2>2. req[r] \in RequestRecords
    BY DEF ClientType
  <2>3. CASE r \in S
    BY <1>0, <2>1, <2>2, <2>3
  <2>4. CASE r \notin S
    BY <2>1, <2>2, <2>4
  <2> QED
    BY <2>3, <2>4
<1> QED
  BY <1>1 DEF Told

\* A request that is not told more than it was keeps what it was given when the
\* connection ends.
LEMMA DeliveredAtEnd ==
    ASSUME NEW c, NEW q, NEW a, Delivered(c, q, a)
    PROVE  Delivered("freed", q, a)
BY DEF Delivered

\* What the server may do to the answer of a request that waits for it.
LEMMA AnswerGrows ==
    ASSUME NEW q, NEW a, NEW b, NEW state, Delivered(state, q, a), state # "freed",
           q.cbs = 0, q.state # "none", a.head => b.head, b.ended => b.head,
           b.sent = a.sent \/ (b.head /\ OneShort(a.sent, b.sent))
    PROVE  Delivered("freed", q, b)
BY DEF Delivered

\* A hook or a callback fails while an answer is read: its request has not been
\* given what the call was about, and goes with the connection.
LEMMA FailsInv ==
    ASSUME ClientInv, NEW r \in Requests, NEW rs \in [Requests -> RequestRecords], ConnectionFree(rs),
           \A s \in Requests : /\ rs[s].state = req[s].state /\ rs[s].user = req[s].user
                               /\ rs[s].stream = req[s].stream /\ rs[s].upload = req[s].upload
                               /\ rs[s].cbs = req[s].cbs /\ rs[s].in = req[s].in,
           conn.state = "up", req[r].state # "none", ~answer[r].ended,
           answer' \in [Requests -> AnswerRecords], \A s \in Requests \ {r} : answer'[s] = answer[s],
           answer[r].head => answer'[r].head, answer'[r].ended => answer'[r].head,
           answer'[r].sent = answer[r].sent \/ (answer'[r].head /\ OneShort(answer[r].sent, answer'[r].sent)),
           UNCHANGED <<parser, asked>>
    PROVE  ClientInv'
<1>t. /\ ClientType /\ ProtocolInv
      /\ \A s \in Requests : Delivered(conn.state, req[s], answer[s])
  BY DEF ClientInv
<1>1. Delivered("freed", req[r], answer'[r])
  <2>1. Delivered(conn.state, req[r], answer[r]) /\ conn.state # "freed"
    BY <1>t, Zenon
  <2>2. req[r].cbs = 0
    BY <2>1 DEF Delivered
  <2> QED
    BY <2>1, <2>2, AnswerGrows
<1>2. \A s \in Requests : Delivered("freed", req[s], answer'[s])
  BY <1>t, <1>1, DeliveredAtEnd
<1>3. ASSUME NEW s \in Requests
      PROVE  Delivered("freed", rs[s], answer'[s])
  <2>1. Delivered("freed", req[s], answer'[s])
    BY <1>2
  <2>2. /\ rs[s].state = req[s].state /\ rs[s].stream = req[s].stream
        /\ rs[s].cbs = req[s].cbs /\ rs[s].in = req[s].in
    OBVIOUS
  <2> QED
    BY <2>1, <2>2 DEF Delivered
<1>4. parser' \in Int /\ asked' \in Seq(Requests) /\ (conn.h2 => asked' = << >>)
  BY <1>t DEF ClientType, ProtocolInv
<1> QED
  BY <1>3, <1>4, FreeInv

\* htp__request_free_ on the connection.
LEMMA WithoutFields ==
    ASSUME ClientType, NEW r \in Requests
    PROVE  /\ Without(conn, r) \in ConnRecords
           /\ Without(conn, r).state = conn.state /\ Without(conn, r).h2 = conn.h2
           /\ Without(conn, r).tls = conn.tls
           /\ Without(conn, r).request = conn.request \ {r}
           /\ Without(conn, r).pending = conn.pending \ {r}
BY Zenon DEF ClientType, Without, Unpend, ConnRecords

\* Counting a call of the request callback.
LEMMA CbsField ==
    ASSUME NEW p \in RequestRecords, NEW n \in Nat
    PROVE  LET f == [p EXCEPT !.cbs = n] IN
           /\ f \in RequestRecords /\ f.cbs = n /\ f.in = p.in /\ f.stream = p.stream
           /\ f.upload = p.upload /\ f.state = p.state /\ f.user = p.user
BY Zenon DEF RequestRecords

\* The request callback counts once; the application keeps the request or it is
\* gone from the connection.
LEMMA CallbackFields ==
    ASSUME ClientType, NEW rs \in [Requests -> RequestRecords], NEW r \in Requests,
           NEW frees \in BOOLEAN, Callback(conn, rs, r, frees)
    PROVE  /\ req' \in [Requests -> RequestRecords]
           /\ \A s \in Requests \ {r} : req'[s] = rs[s]
           /\ req'[r].cbs = rs[r].cbs + 1 /\ req'[r].in = rs[r].in
           /\ req'[r].stream = rs[r].stream /\ req'[r].upload = rs[r].upload
           /\ frees => /\ ~rs[r].upload /\ req'[r].state = "freed" /\ ~req'[r].user
                       /\ conn' = Without(conn, r)
           /\ ~frees => /\ req'[r].state = rs[r].state /\ req'[r].user = rs[r].user
                        /\ conn' = conn
<1>0. rs[r] \in RequestRecords /\ rs[r].cbs + 1 \in Nat
  <2>1. \A p \in RequestRecords : p.cbs \in Nat
    BY Zenon DEF RequestRecords
  <2>2. rs[r] \in RequestRecords /\ rs[r].cbs \in Nat
    BY <2>1
  <2> QED
    BY <2>2
<1> DEFINE q == [rs[r] EXCEPT !.cbs = @ + 1]
           called == [rs EXCEPT ![r].cbs = @ + 1]
<1>1. /\ q \in RequestRecords /\ q.cbs = rs[r].cbs + 1 /\ q.in = rs[r].in /\ q.stream = rs[r].stream
      /\ q.upload = rs[r].upload /\ q.state = rs[r].state /\ q.user = rs[r].user
  BY <1>0, CbsField
<1>2. called = [rs EXCEPT ![r] = q]
  OBVIOUS
<1>3. /\ called \in [Requests -> RequestRecords] /\ called[r] = q
      /\ \A s \in Requests \ {r} : called[s] = rs[s]
  BY <1>1, <1>2
<1>4. /\ frees => ~rs[r].upload
      /\ conn' = IF frees THEN Without(conn, r) ELSE conn
      /\ req' = IF frees THEN [called EXCEPT ![r] = RequestFree(@)] ELSE called
  BY DEF Callback
<1>5. CASE frees
  <2> HIDE DEF called, q
  <2> RequestFree(q) \in RequestRecords
    BY <1>1, RequestFreeFields, Zenon
  <2>1. req' = [called EXCEPT ![r] = RequestFree(q)]
    BY <1>3, <1>4, <1>5
  <2>2. /\ req' \in [Requests -> RequestRecords] /\ req'[r] = RequestFree(q)
        /\ \A s \in Requests \ {r} : req'[s] = rs[s]
    BY <1>3, <2>1
  <2> QED
    BY <1>1, <1>4, <1>5, <2>2, RequestFreeFields, Zenon
<1>6. CASE ~frees
  <2> HIDE DEF called, q
  <2> QED
    BY <1>1, <1>3, <1>4, <1>6
<1> QED
  BY <1>5, <1>6

\* The next unit of an answer, appended to it.
LEMMA NextUnitFields ==
    ASSUME ClientType, NEW r \in Requests
    PROVE  /\ NextUnit(r) \in Requests \X Nat /\ OneShort(answer[r].sent, Append(answer[r].sent, NextUnit(r)))
           /\ Append(answer[r].sent, NextUnit(r)) \in Seq(Requests \X Nat)
           /\ Len(Append(answer[r].sent, NextUnit(r))) = Len(answer[r].sent) + 1
           /\ Len(answer[r].sent) \in Nat /\ answer[r].sent \in Seq(Requests \X Nat)
<1>1. answer[r].sent \in Seq(Requests \X Nat)
  BY DEF ClientType, AnswerRecords
<1>2. Len(answer[r].sent) \in Nat
  BY <1>1
<1>3. NextUnit(r) \in Requests \X Nat
  BY <1>2 DEF NextUnit
<1> DEFINE u == NextUnit(r)
           sent == answer[r].sent
<1> HIDE DEF u, sent
<1>4. Append(sent, u) \in Seq(Requests \X Nat) /\ Len(Append(sent, u)) = Len(sent) + 1
  BY <1>1, <1>3 DEF u, sent
<1> QED
  BY <1>1, <1>2, <1>3, <1>4, Zenon DEF OneShort, u, sent

\* Taking a unit of body.
LEMMA InField ==
    ASSUME NEW q \in RequestRecords, NEW x \in Seq(Requests \X Nat)
    PROVE  LET f == [q EXCEPT !.in = x] IN
           /\ f \in RequestRecords /\ f.in = x /\ f.stream = q.stream /\ f.user = q.user
           /\ f.upload = q.upload /\ f.state = q.state /\ f.cbs = q.cbs
BY Zenon DEF RequestRecords

\* Sending a unit of body.
LEMMA SentField ==
    ASSUME NEW a \in AnswerRecords, NEW x \in Seq(Requests \X Nat)
    PROVE  LET f == [a EXCEPT !.sent = x] IN
           /\ f \in AnswerRecords /\ f.sent = x /\ f.head = a.head /\ f.ended = a.ended /\ f.units = a.units
BY Zenon DEF AnswerRecords

\* The steps of a stream, as its request sees them.
LEMMA StreamFields ==
    ASSUME NEW q \in RequestRecords, NEW b \in BOOLEAN, NEW st \in {"closed", "reset"}
    PROVE  /\ LET f == [q EXCEPT !.stream = st, !.user = FALSE] IN
              /\ f \in RequestRecords /\ f.stream = st /\ f.user = FALSE /\ f.upload = q.upload
              /\ f.state = q.state /\ f.cbs = q.cbs /\ f.in = q.in
           /\ LET f == [q EXCEPT !.stream = "answered"] IN
              /\ f \in RequestRecords /\ f.stream = "answered" /\ f.user = q.user /\ f.upload = q.upload
              /\ f.state = q.state /\ f.cbs = q.cbs /\ f.in = q.in
           /\ LET f == [q EXCEPT !.user = b] IN
              /\ f \in RequestRecords /\ f.stream = q.stream /\ f.user = b /\ f.upload = q.upload
              /\ f.state = q.state /\ f.cbs = q.cbs /\ f.in = q.in
<1>1. LET f == [q EXCEPT !.stream = st, !.user = FALSE] IN
      /\ f \in RequestRecords /\ f.stream = st /\ f.user = FALSE /\ f.upload = q.upload
      /\ f.state = q.state /\ f.cbs = q.cbs /\ f.in = q.in
  BY Zenon DEF RequestRecords
<1>2. LET f == [q EXCEPT !.stream = "answered"] IN
      /\ f \in RequestRecords /\ f.stream = "answered" /\ f.user = q.user /\ f.upload = q.upload
      /\ f.state = q.state /\ f.cbs = q.cbs /\ f.in = q.in
  BY Zenon DEF RequestRecords
<1>3. LET f == [q EXCEPT !.user = b] IN
      /\ f \in RequestRecords /\ f.stream = q.stream /\ f.user = b /\ f.upload = q.upload
      /\ f.state = q.state /\ f.cbs = q.cbs /\ f.in = q.in
  BY Zenon DEF RequestRecords
<1> QED
  BY <1>1, <1>2, <1>3, Zenon

-----------------------------------------------------------------------------
(* An answer goes on or ends, over HTTP/1 and on a stream *)

\* What htp__connection_readcb_ reads belongs to the one request of the connection.
LEMMA ReadsFields ==
    ASSUME ClientInv, Reads, NEW r \in Requests, r = Answered
    PROVE  /\ asked = <<r>> /\ conn.request = {r} /\ Current = r /\ Tail(asked) = << >> /\ conn.pending = {}
           /\ conn.state = "up" /\ ~conn.h2 /\ ~answer[r].ended
           /\ req[r].state = "live" /\ req[r].cbs = 0 /\ req[r].in = answer[r].sent
           /\ req[r].stream = "idle" /\ ~req[r].user /\ ~req[r].upload
           /\ parser \in {Between, UntilEof} \cup (Nat \ {0}) /\ (parser # Between => answer[r].head)
           /\ parser \in Nat => parser = answer[r].units - Len(answer[r].sent)
           /\ req[r] \in RequestRecords /\ answer[r] \in AnswerRecords
<1>1. /\ ClientType /\ ProtocolInv /\ ReadingInv /\ Linked(conn, r, req[r])
      /\ Delivered(conn.state, req[r], answer[r])
  BY DEF ClientInv
<1>2. conn.state = "up" /\ ~conn.h2 /\ asked # << >>
  BY DEF Reads, Up
<1>3. PICK s \in Requests : /\ asked = <<s>> /\ conn.request = {s} /\ ~answer[s].ended
                            /\ parser # Between => answer[s].head
                            /\ parser \in Nat => parser = answer[s].units - Len(answer[s].sent)
  BY <1>1, <1>2 DEF ReadingInv
<1>4. s = r /\ Tail(asked) = << >>
  BY <1>3, OneAsked DEF Answered
<1>5. Current = r
  BY <1>3, <1>4, CurrentIs
<1>6. parser \in {Between, UntilEof} \cup (Nat \ {0}) /\ conn.pending = {}
  BY <1>1, <1>2, Zenon DEF ReadingInv, ProtocolInv
<1>7. /\ req[r].state = "live" /\ req[r].cbs = 0 /\ req[r].in = answer[r].sent
      /\ req[r].stream = "idle" /\ ~req[r].user /\ ~req[r].upload
  BY <1>1, <1>2, <1>3, <1>4, <1>6 DEF Linked, Delivered
<1>8. req[r] \in RequestRecords /\ answer[r] \in AnswerRecords
  BY <1>1 DEF ClientType
<1> QED
  BY <1>2, <1>3, <1>4, <1>5, <1>6, <1>7, <1>8

\* The server answers a request that was made.
LEMMA AnsweredIs ==
    ASSUME ClientInv, Reads
    PROVE  Answered \in Requests
<1>1. PICK s \in Requests : asked = <<s>>
  BY SMTT(30) DEF ClientInv, ReadingInv, Reads, Up
<1> QED
  BY <1>1, OneAsked DEF Answered

\* A hook of the parser fails.
LEMMA ReadFailsInv ==
    ASSUME ClientInv, Reads, ReadFails, NEW r \in Requests, r = Answered,
           answer' \in [Requests -> AnswerRecords], \A s \in Requests \ {r} : answer'[s] = answer[s],
           answer[r].head => answer'[r].head, answer'[r].ended => answer'[r].head,
           answer'[r].sent = answer[r].sent \/ (answer'[r].head /\ OneShort(answer[r].sent, answer'[r].sent))
    PROVE  ClientInv'
<1>1. conn.state = "up" /\ req[r].state # "none" /\ ~answer[r].ended
  BY ReadsFields, SMTT(30)
<1> DEFINE rs == Told(conn.request)
<1>2. /\ rs \in [Requests -> RequestRecords]
      /\ \A s \in Requests : /\ rs[s].state = req[s].state /\ rs[s].user = req[s].user
                             /\ rs[s].stream = req[s].stream /\ rs[s].upload = req[s].upload
                             /\ rs[s].cbs = req[s].cbs /\ rs[s].in = req[s].in
  BY ToldFields DEF ClientInv
<1>3. ConnectionFree(rs) /\ UNCHANGED <<parser, asked>>
  BY SMTT(30) DEF ReadFails
<1> HIDE DEF rs
<1> QED
  BY <1>1, <1>2, <1>3, FailsInv

\* The parser goes on with the answer.
LEMMA GoesOnInv ==
    ASSUME ClientInv, Reads, NEW r \in Requests, r = Answered, UNCHANGED <<conn, asked>>,
           req' \in [Requests -> RequestRecords], answer' \in [Requests -> AnswerRecords],
           \A s \in Requests \ {r} : req'[s] = req[s] /\ answer'[s] = answer[s],
           req'[r].state = req[r].state, req'[r].stream = req[r].stream, req'[r].user = req[r].user,
           req'[r].upload = req[r].upload, req'[r].cbs = req[r].cbs, req'[r].in = answer'[r].sent,
           ~answer'[r].ended, answer[r].head => answer'[r].head,
           answer'[r].head \/ answer'[r].sent = answer[r].sent, parser' # Between => answer'[r].head,
           parser' \in {Between, UntilEof} \cup (Nat \ {0}),
           parser' \in Nat => parser' = answer'[r].units - Len(answer'[r].sent)
    PROVE  ClientInv'
<1>t. ClientType /\ ProtocolInv /\ Linked(conn, r, req[r]) /\ Delivered(conn.state, req[r], answer[r])
  BY Zenon DEF ClientInv
<1>0. /\ asked = <<r>> /\ conn.request = {r} /\ conn.state = "up" /\ req[r].state = "live"
      /\ req[r].cbs = 0 /\ req[r].stream = "idle"
  BY ReadsFields, Zenon
<1>1. parser' \in Int
  BY SMTT(30) DEF Between, UntilEof
<1>2. ClientType' /\ ProtocolInv'
  BY <1>t, <1>1, Zenon DEF ClientType, ProtocolInv
<1>3. ReadingInv'
  BY <1>0, OneAsked, SMTT(30) DEF ReadingInv
<1>4. Linked(conn', r, req'[r])
  BY <1>t, SMTT(30) DEF Linked
<1>5. Delivered(conn'.state, req'[r], answer'[r])
  BY <1>0, <1>t DEF Delivered
<1>6. conn' = conn
  BY SMTT(30)
<1> QED
  BY <1>0, <1>2, <1>3, <1>4, <1>5, <1>6, OneRequest, SMTT(30)

\* htp__request_parse_fini_: the answer is complete, and nothing more is expected.
LEMMA CompleteInv ==
    ASSUME ClientInv, Reads, NEW r \in Requests, r = Answered, NEW frees \in BOOLEAN,
           NEW rs \in [Requests -> RequestRecords], Complete(rs, frees),
           answer' \in [Requests -> AnswerRecords],
           \A s \in Requests \ {r} : rs[s] = req[s] /\ answer'[s] = answer[s],
           rs[r].state = req[r].state, rs[r].stream = req[r].stream, rs[r].user = req[r].user,
           rs[r].upload = req[r].upload, rs[r].cbs = req[r].cbs, rs[r].in = answer'[r].sent,
           answer'[r].ended, answer'[r].head
    PROVE  ClientInv'
<1>t. ClientType /\ ProtocolInv
  BY Zenon DEF ClientInv
<1>0. /\ asked = <<r>> /\ conn.request = {r} /\ Current = r /\ Tail(asked) = << >> /\ conn.pending = {}
      /\ conn.state = "up" /\ ~conn.h2 /\ req[r].state = "live" /\ req[r].cbs = 0
      /\ req[r].stream = "idle" /\ ~req[r].user /\ ~req[r].upload
  BY ReadsFields, SMTT(30)
<1>1. Callback(conn, rs, r, frees) /\ parser' = Between /\ asked' = << >>
  BY <1>0, SMTT(30) DEF Complete
<1>2. /\ req' \in [Requests -> RequestRecords]
      /\ \A s \in Requests \ {r} : req'[s] = req[s]
      /\ req'[r].cbs = rs[r].cbs + 1 /\ req'[r].in = rs[r].in
      /\ req'[r].stream = rs[r].stream /\ req'[r].upload = rs[r].upload
      /\ frees => req'[r].state = "freed" /\ ~req'[r].user /\ conn' = Without(conn, r)
      /\ ~frees => req'[r].state = rs[r].state /\ req'[r].user = rs[r].user /\ conn' = conn
  BY <1>1, <1>t, CallbackFields, SMTT(30)
<1>3. /\ conn' \in ConnRecords /\ conn'.state = conn.state /\ conn'.h2 = conn.h2 /\ conn'.tls = conn.tls
      /\ conn'.request = (IF frees THEN {} ELSE {r}) /\ conn'.pending = {}
  <2>1. CASE frees
    BY <2>1, <1>0, <1>2, <1>t, WithoutFields, SMTT(30)
  <2>2. CASE ~frees
    BY <2>2, <1>0, <1>2, <1>t, SMTT(30) DEF ClientType
  <2> QED
    BY <2>1, <2>2, SMTT(30)
<1>4. ClientType'
  BY <1>1, <1>2, <1>3, SMTT(30) DEF ClientType, Between
<1>5. ProtocolInv' /\ ReadingInv'
  BY <1>0, <1>1, <1>3, SMTT(30) DEF ProtocolInv, ReadingInv
<1>6. Linked(conn', r, req'[r])
  <2>1. CASE frees
    BY <2>1, <1>0, <1>2, <1>3, SMTT(30) DEF Linked
  <2>2. CASE ~frees
    BY <2>2, <1>0, <1>2, <1>3, SMTT(30) DEF Linked
  <2> QED
    BY <2>1, <2>2, SMTT(30)
<1>7. Delivered(conn'.state, req'[r], answer'[r])
  <2>1. req'[r].cbs = 1 /\ req'[r].state # "none" /\ req'[r].in = answer'[r].sent
    BY <1>0, <1>2, SMTT(30)
  <2> QED
    BY <2>1, SMTT(30) DEF Delivered
<1>8. \A s \in Requests \ {r} : /\ req'[s] = req[s] /\ answer'[s] = answer[s]
                                /\ (s \in conn'.request <=> s \in conn.request)
                                /\ (s \in conn'.pending <=> s \in conn.pending)
  BY <1>0, <1>2, <1>3
<1> QED
  BY <1>0, <1>3, <1>4, <1>5, <1>6, <1>7, <1>8, OneRequest, SMTT(30)

\* A step of one stream: the parser of HTTP/1 has no part in it.
LEMMA StreamStep ==
    ASSUME ClientInv, NEW r \in Requests, conn.state = "up", conn.h2,
           conn' \in ConnRecords,
           conn'.state = conn.state, conn'.h2 = conn.h2, conn'.request = conn.request,
           conn'.pending = conn.pending \/ conn'.pending = conn.pending \ {r},
           req' \in [Requests -> RequestRecords], answer' \in [Requests -> AnswerRecords],
           \A s \in Requests \ {r} : req'[s] = req[s] /\ answer'[s] = answer[s],
           UNCHANGED <<parser, asked>>,
           Linked(conn', r, req'[r]), Delivered(conn'.state, req'[r], answer'[r])
    PROVE  ClientInv'
<1>t. ClientType /\ ProtocolInv /\ ReadingInv
  BY Zenon DEF ClientInv
<1>1. ClientType'
  BY <1>t, Zenon DEF ClientType
<1>2. ProtocolInv'
  BY <1>t, Zenon DEF ProtocolInv
<1>3. ReadingInv'
  BY <1>t, Zenon DEF ReadingInv, ProtocolInv
<1> QED
  BY <1>1, <1>2, <1>3, OneRequest

\* The answer is complete and the request callback is called, for the first time.
LEMMA AnsweredInv ==
    ASSUME ClientInv, NEW r \in Requests, NEW rs \in [Requests -> RequestRecords], NEW frees \in BOOLEAN,
           Callback(conn, rs, r, frees), conn.state = "up", conn.h2,
           req[r].stream = "open", ~answer[r].ended, r \in conn.pending,
           \A s \in Requests \ {r} : rs[s] = req[s] /\ answer'[s] = answer[s],
           rs[r].state = req[r].state, rs[r].cbs = req[r].cbs, rs[r].in = req[r].in,
           rs[r].upload = req[r].upload, rs[r].stream = IF rs[r].upload THEN "answered" ELSE "closed",
           rs[r].user => rs[r].upload,
           answer' \in [Requests -> AnswerRecords], answer'[r].head, answer'[r].ended,
           answer'[r].sent = answer[r].sent, UNCHANGED <<parser, asked>>
    PROVE  ClientInv'
<1>t. /\ ClientType /\ ProtocolInv /\ Linked(conn, r, req[r]) /\ Delivered(conn.state, req[r], answer[r])
  BY SMTT(30) DEF ClientInv
<1>1. /\ req' \in [Requests -> RequestRecords]
      /\ \A s \in Requests \ {r} : req'[s] = req[s]
      /\ req'[r].cbs = rs[r].cbs + 1 /\ req'[r].in = rs[r].in
      /\ req'[r].stream = rs[r].stream /\ req'[r].upload = rs[r].upload
      /\ frees => /\ ~rs[r].upload /\ req'[r].state = "freed" /\ ~req'[r].user
                  /\ conn' = Without(conn, r)
      /\ ~frees => /\ req'[r].state = rs[r].state /\ req'[r].user = rs[r].user
                   /\ conn' = conn
  BY <1>t, CallbackFields
<1>2. /\ conn' \in ConnRecords
      /\ conn'.state = conn.state /\ conn'.h2 = conn.h2 /\ conn'.request = conn.request
      /\ conn'.pending = IF frees THEN conn.pending \ {r} ELSE conn.pending
  <2>1. conn.request = {}
    BY <1>t DEF ProtocolInv
  <2>2. CASE frees
    BY <2>1, <2>2, <1>1, <1>t, WithoutFields, Zenon
  <2>3. CASE ~frees
    BY <2>3, <1>1, <1>t, Zenon DEF ClientType
  <2> QED
    BY <2>2, <2>3, Zenon
<1>3. req[r].cbs = 0 /\ req[r].in = answer[r].sent /\ req[r].state = "live" /\ conn.request = {}
  BY <1>t, Zenon DEF Delivered, Linked, ProtocolInv
<1>4. Linked(conn', r, req'[r])
  <2>1. CASE frees
    BY <2>1, <1>1, <1>2, <1>3, Zenon DEF Linked
  <2>2. CASE ~frees
    BY <2>2, <1>1, <1>2, <1>3, SMTT(30) DEF Linked
  <2> QED
    BY <2>1, <2>2, Zenon
<1>5. Delivered(conn'.state, req'[r], answer'[r])
  <2>1. req'[r].cbs = 1 /\ req'[r].state # "none" /\ req'[r].in = answer'[r].sent
    BY <1>1, <1>3
  <2> QED
    BY <2>1, Zenon DEF Delivered
<1> QED
  BY <1>1, <1>2, <1>4, <1>5, StreamStep

-----------------------------------------------------------------------------
(* GOAWAY, which ends many streams at once *)

\* handle_h2_goaway_frame: a refused stream has no answer yet, so it is closed and
\* its request may go.
LEMMA RecvGoawayInv ==
    ASSUME ClientInv, NEW last \in 0 .. NumRequests, NEW frees \in BOOLEAN, RecvGoaway(last, frees)
    PROVE  ClientInv'
<1>t. ClientType /\ ProtocolInv /\ ReadingInv
  BY DEF ClientInv
<1>0. /\ conn.state = "up" /\ conn.h2 /\ UNCHANGED <<parser, asked, answer>>
      /\ \A r \in Requests : r > last => ~answer[r].head
  BY DEF RecvGoaway, Up
<1>1. /\ conn' \in ConnRecords
      /\ conn'.state = conn.state /\ conn'.h2 = conn.h2 /\ conn'.request = conn.request
      /\ conn'.pending = IF frees THEN conn.pending \ Refused(last) ELSE conn.pending
  BY <1>t, Zenon DEF RecvGoaway, ClientType, ConnRecords
<1> DEFINE told == Told(Refused(last))
           closed == [r \in Requests |-> IF r > last /\ told[r].stream = "open"
                        THEN [Closed(told[r]) EXCEPT !.upload = FALSE] ELSE told[r]]
<1>2. req' = [r \in Requests |-> IF frees /\ r \in Refused(last) THEN RequestFree(closed[r]) ELSE closed[r]]
  BY Zenon DEF RecvGoaway
<1>3. ASSUME NEW r \in Requests
      PROVE  /\ closed[r] \in RequestRecords /\ closed[r].state = req[r].state
             /\ closed[r].cbs = req[r].cbs /\ closed[r].in = req[r].in
             /\ r > last /\ req[r].stream = "open" =>
                  closed[r].stream = "closed" /\ ~closed[r].user /\ ~closed[r].upload
             /\ ~(r > last /\ req[r].stream = "open") =>
                  /\ closed[r].stream = req[r].stream /\ closed[r].user = req[r].user
                  /\ closed[r].upload = req[r].upload
  <2> HIDE DEF told
  <2>1. /\ told[r] \in RequestRecords
        /\ told[r].state = req[r].state /\ told[r].user = req[r].user /\ told[r].stream = req[r].stream
        /\ told[r].upload = req[r].upload /\ told[r].cbs = req[r].cbs /\ told[r].in = req[r].in
    BY <1>t, ToldFields DEF told
  <2>2. closed[r] = IF r > last /\ told[r].stream = "open"
                    THEN [Closed(told[r]) EXCEPT !.upload = FALSE] ELSE told[r]
    OBVIOUS
  <2> HIDE DEF closed
  <2>3. CASE r > last /\ req[r].stream = "open"
    <3> DEFINE p == Closed(told[r])
    <3>1. /\ p \in RequestRecords /\ p.stream = "closed" /\ p.user = FALSE
          /\ p.state = req[r].state /\ p.cbs = req[r].cbs /\ p.in = req[r].in
      BY <2>1, StreamFields, Zenon DEF Closed
    <3>2. closed[r] = [p EXCEPT !.upload = FALSE]
      BY <2>1, <2>2, <2>3
    <3> HIDE DEF p
    <3>3. LET f == [p EXCEPT !.upload = FALSE] IN
          /\ f \in RequestRecords /\ f.stream = p.stream /\ f.user = p.user /\ f.upload = FALSE
          /\ f.state = p.state /\ f.cbs = p.cbs /\ f.in = p.in
      BY <3>1, UploadField, Zenon
    <3> QED
      BY <2>3, <3>1, <3>2, <3>3, Zenon
  <2>4. CASE ~(r > last /\ req[r].stream = "open")
    BY <2>1, <2>2, <2>4, Zenon
  <2> QED
    BY <2>3, <2>4, Zenon
<1> HIDE DEF closed, told
<1>4. ASSUME NEW r \in Requests
      PROVE  /\ req'[r] \in RequestRecords
             /\ Linked(conn', r, req'[r]) /\ Delivered(conn'.state, req'[r], answer'[r])
  <2>1. Linked(conn, r, req[r]) /\ Delivered(conn.state, req[r], answer[r])
    BY Zenon DEF ClientInv
  <2>2. CASE r \in Refused(last)
    <3>1. r \in conn.pending /\ r > last /\ ~answer[r].head /\ req[r].state = "live"
      BY <2>1, <2>2, <1>0, Zenon DEF Refused, Linked
    <3>2. ~closed[r].user /\ ~closed[r].upload /\ (closed[r].stream = "closed" \/ closed[r].stream = req[r].stream)
      <4>1. req[r].stream # "answered"
        BY <2>1, <3>1, Zenon DEF Delivered
      <4> QED
        BY <1>3, <2>1, <3>1, <4>1, Zenon DEF Linked
    <3>3. CASE frees
      <4>1. req'[r] = RequestFree(closed[r])
        BY <1>2, <2>2, <3>3, Zenon
      <4>2. /\ req'[r] \in RequestRecords /\ req'[r].state = "freed" /\ ~req'[r].user /\ ~req'[r].upload
            /\ req'[r].stream = closed[r].stream /\ req'[r].cbs = req[r].cbs /\ req'[r].in = req[r].in
        <5>1. closed[r] \in RequestRecords /\ closed[r].cbs = req[r].cbs /\ closed[r].in = req[r].in
          BY <1>3
        <5> DEFINE q == closed[r]
        <5>2. /\ RequestFree(q) \in RequestRecords
              /\ RequestFree(q).state = "freed" /\ RequestFree(q).user = FALSE
              /\ RequestFree(q).stream = q.stream /\ RequestFree(q).upload = q.upload
              /\ RequestFree(q).cbs = q.cbs /\ RequestFree(q).in = q.in
          BY <5>1, RequestFreeFields, Zenon
        <5> QED
          BY <4>1, <5>1, <5>2, <3>2, Zenon
      <4>3. r \notin conn'.request \cup conn'.pending
        BY <1>0, <1>1, <1>t, <2>2, <3>3, Zenon DEF ProtocolInv
      <4> QED
        BY <4>2, <4>3, <2>1, <3>1, <3>2, <1>0, <1>1 DEF Linked, Delivered
    <3>4. CASE ~frees
      <4>1. req'[r] = closed[r] /\ conn'.pending = conn.pending
        BY <1>1, <1>2, <2>2, <3>4, Zenon
      <4> QED
        BY <4>1, <1>3, <2>1, <3>1, <3>2, <1>0, <1>1 DEF Linked, Delivered
    <3> QED
      BY <3>3, <3>4, Zenon
  <2>3. CASE r \notin Refused(last)
    <3>1. req'[r] = closed[r] /\ (r \in conn'.pending <=> r \in conn.pending)
      BY <1>1, <1>2, <2>3, Zenon
    <3>2. Linked(conn', r, req'[r])
      BY <3>1, <1>3, <2>1, <1>0, <1>1 DEF Linked
    <3>3. Delivered(conn'.state, req'[r], answer'[r])
      BY <3>1, <1>3, <2>1, <1>0, <1>1 DEF Delivered
    <3> QED
      BY <3>1, <3>2, <3>3, <1>3
  <2> QED
    BY <2>2, <2>3
<1>5. req' \in [Requests -> RequestRecords]
  <2>1. req' = [r \in Requests |-> req'[r]]
    BY <1>2, SMTT(30)
  <2> QED
    BY <2>1, <1>4
<1>6. ClientType' /\ ProtocolInv'
  BY <1>0, <1>1, <1>5, <1>t DEF ClientType, ProtocolInv
<1>7. ReadingInv'
  BY <1>0, <1>1, <1>t, Zenon DEF ReadingInv
<1> QED
  BY <1>4, <1>6, <1>7, Zenon DEF ClientInv

-----------------------------------------------------------------------------
(* HTTP/2, one stream *)

\* A HEADERS frame is the first head of the answer or its end; it adds no data.
LEMMA SendsFields ==
    ASSUME ClientInv, NEW r \in Requests, NEW kind \in {"interim", "head", "trailers"}, NEW units \in Nat,
           Sends(r, kind, units)
    PROVE  /\ conn.state = "up" /\ conn.h2 /\ req[r].stream = "open" /\ ~answer[r].ended
           /\ answer' \in [Requests -> AnswerRecords] /\ \A s \in Requests \ {r} : answer'[s] = answer[s]
           /\ answer'[r].sent = answer[r].sent /\ (answer[r].head => answer'[r].head)
           /\ (answer'[r].ended => answer'[r].head)
<1>t. answer \in [Requests -> AnswerRecords] /\ answer[r] \in AnswerRecords
  BY DEF ClientInv, ClientType
<1>0. conn.state = "up" /\ conn.h2 /\ req[r].stream = "open" /\ ~answer[r].ended
  BY DEF Sends, Streaming, Up
<1>1. CASE kind = "interim"
  <2>1. answer' = [answer EXCEPT ![r].interim = TRUE]
    BY <1>1 DEF Sends
  <2>2. answer' = [answer EXCEPT ![r] = [answer[r] EXCEPT !.interim = TRUE]]
    BY <2>1
  <2>3. LET f == [answer[r] EXCEPT !.interim = TRUE] IN
        /\ f \in AnswerRecords /\ f.sent = answer[r].sent /\ f.head = answer[r].head
        /\ f.ended = answer[r].ended
    BY <1>t, Zenon DEF AnswerRecords
  <2> QED
    BY <1>t, <1>0, <2>2, <2>3
<1>2. CASE kind = "head"
  <2> DEFINE n == IF req[r].method = "HEAD" THEN 0 ELSE units
             b == n = 0
  <2>1. answer' = [answer EXCEPT ![r] = [answer[r] EXCEPT !.head = TRUE, !.units = n, !.ended = b]]
    BY <1>2 DEF Sends
  <2>2. n \in Nat /\ b \in BOOLEAN
    OBVIOUS
  <2> HIDE DEF n, b
  <2>3. LET f == [answer[r] EXCEPT !.head = TRUE, !.units = n, !.ended = b] IN
        f \in AnswerRecords /\ f.sent = answer[r].sent /\ f.head
    BY <1>t, <2>2, Zenon DEF AnswerRecords
  <2> QED
    BY <1>t, <1>0, <2>1, <2>3
<1>3. CASE kind = "trailers"
  <2>1. answer[r].head /\ answer' = [answer EXCEPT ![r].ended = TRUE]
    BY <1>3 DEF Sends
  <2>2. answer' = [answer EXCEPT ![r] = [answer[r] EXCEPT !.ended = TRUE]]
    BY <2>1
  <2>3. LET f == [answer[r] EXCEPT !.ended = TRUE] IN
        f \in AnswerRecords /\ f.sent = answer[r].sent /\ f.head = answer[r].head
    BY <1>t, Zenon DEF AnswerRecords
  <2> QED
    BY <1>t, <1>0, <2>1, <2>2, <2>3
<1> QED
  BY <1>1, <1>2, <1>3

\* The end of an answer closes the stream unless the request is still being sent.
LEMMA EndFields ==
    ASSUME NEW q \in RequestRecords
    PROVE  /\ EndOf(q) \in RequestRecords /\ EndOf(q).state = q.state /\ EndOf(q).cbs = q.cbs
           /\ EndOf(q).in = q.in /\ EndOf(q).upload = q.upload
           /\ q.upload => EndOf(q).stream = "answered" /\ EndOf(q).user = q.user
           /\ ~q.upload => EndOf(q).stream = "closed" /\ EndOf(q).user = FALSE
<1>1. CASE q.upload
  <2>1. EndOf(q) = [q EXCEPT !.stream = "answered"]
    BY <1>1 DEF EndOf
  <2>2. LET f == [q EXCEPT !.stream = "answered"] IN
        /\ f \in RequestRecords /\ f.stream = "answered" /\ f.user = q.user /\ f.upload = q.upload
        /\ f.state = q.state /\ f.cbs = q.cbs /\ f.in = q.in
    BY StreamFields, Zenon
  <2> QED
    BY <1>1, <2>1, <2>2, Zenon
<1>2. CASE ~q.upload
  <2>1. EndOf(q) = [q EXCEPT !.stream = "closed", !.user = FALSE]
    BY <1>2, SMTT(30) DEF EndOf, Closed
  <2>2. LET f == [q EXCEPT !.stream = "closed", !.user = FALSE] IN
        /\ f \in RequestRecords /\ f.stream = "closed" /\ f.user = FALSE /\ f.upload = q.upload
        /\ f.state = q.state /\ f.cbs = q.cbs /\ f.in = q.in
    BY StreamFields, Zenon
  <2> QED
    BY <1>2, <2>1, <2>2, Zenon
<1> QED
  BY <1>1, <1>2, Zenon

\* A stream is reset: its user data no longer points to the request.
LEMMA ResetFields ==
    ASSUME NEW p \in RequestRecords
    PROVE  LET f == [Closed(p) EXCEPT !.stream = "reset", !.upload = FALSE] IN
           /\ f \in RequestRecords /\ f.stream = "reset" /\ ~f.user /\ ~f.upload
           /\ f.state = p.state /\ f.cbs = p.cbs /\ f.in = p.in
<1> DEFINE q == Closed(p)
<1>1. /\ q \in RequestRecords /\ q.user = FALSE /\ q.state = p.state /\ q.cbs = p.cbs /\ q.in = p.in
  BY StreamFields, Zenon DEF Closed
<1> HIDE DEF q
<1>2. LET f == [q EXCEPT !.stream = "reset", !.upload = FALSE] IN
      /\ f \in RequestRecords /\ f.stream = "reset" /\ ~f.user /\ ~f.upload
      /\ f.state = q.state /\ f.cbs = q.cbs /\ f.in = q.in
  BY <1>1, Zenon DEF RequestRecords
<1> QED
  BY <1>1, <1>2, SMTT(30) DEF q

\* A callback of nghttp2 fails.
LEMMA SessionFailsInv ==
    ASSUME ClientInv, NEW r \in Requests, SessionFails, conn.state = "up",
           req[r].stream = "open", ~answer[r].ended,
           answer' \in [Requests -> AnswerRecords], \A s \in Requests \ {r} : answer'[s] = answer[s],
           answer[r].head => answer'[r].head, answer'[r].ended => answer'[r].head,
           answer'[r].sent = answer[r].sent \/ (answer'[r].head /\ OneShort(answer[r].sent, answer'[r].sent))
    PROVE  ClientInv'
<1>1. Linked(conn, r, req[r]) /\ req \in [Requests -> RequestRecords]
  BY Zenon DEF ClientInv, ClientType
<1>2. req[r].state # "none"
  BY <1>1 DEF Linked
<1>3. ConnectionFree(req) /\ UNCHANGED <<parser, asked>>
  BY SMTT(30) DEF SessionFails
<1> QED
  BY <1>1, <1>2, <1>3, FailsInv

\* h2__client_on_begin_headers_cb_, h2__client_on_header_cb_ and
\* handle_h2_headers_frame.
LEMMA RecvHeadersInv ==
    ASSUME ClientInv, NEW r \in Requests, NEW kind \in {"interim", "head", "trailers"}, NEW units \in Nat,
           NEW frees \in BOOLEAN, RecvHeaders(r, kind, units, frees)
    PROVE  ClientInv'
<1>t. /\ ClientType /\ ProtocolInv /\ Linked(conn, r, req[r]) /\ Delivered(conn.state, req[r], answer[r])
      /\ req[r] \in RequestRecords
  BY DEF ClientInv, ClientType
<1>0. Sends(r, kind, units)
  BY Zenon DEF RecvHeaders
<1>1. /\ conn.state = "up" /\ conn.h2 /\ req[r].stream = "open" /\ ~answer[r].ended
      /\ answer' \in [Requests -> AnswerRecords] /\ \A s \in Requests \ {r} : answer'[s] = answer[s]
      /\ answer'[r].sent = answer[r].sent /\ (answer[r].head => answer'[r].head)
      /\ (answer'[r].ended => answer'[r].head)
  BY <1>0, SendsFields
<1> DEFINE b == r \in conn.pending
           p == [req[r] EXCEPT !.user = b]
           rs == Begun(r)
<1>2. /\ p \in RequestRecords /\ p.user = b /\ p.stream = req[r].stream /\ p.upload = req[r].upload
      /\ p.state = req[r].state /\ p.cbs = req[r].cbs /\ p.in = req[r].in
  <2>1. b \in BOOLEAN
    OBVIOUS
  <2> HIDE DEF b
  <2>2. \A q \in RequestRecords :
          LET f == [q EXCEPT !.user = b] IN
          /\ f \in RequestRecords /\ f.stream = q.stream /\ f.user = b /\ f.upload = q.upload
          /\ f.state = q.state /\ f.cbs = q.cbs /\ f.in = q.in
    BY <2>1, Zenon DEF RequestRecords
  <2> QED
    BY <1>t, <2>2, Zenon
<1>3. rs = [req EXCEPT ![r] = p]
  BY DEF Begun
<1> HIDE DEF p, rs
<1>4. rs \in [Requests -> RequestRecords] /\ rs[r] = p /\ \A s \in Requests \ {r} : rs[s] = req[s]
  BY <1>2, <1>3, <1>t, Zenon DEF ClientType
<1>5. CASE SessionFails
  BY <1>1, <1>5, SessionFailsInv, SMTT(30)
<1>6. CASE /\ p.user /\ req' = [rs EXCEPT ![r] = [Closed(rs[r]) EXCEPT !.stream = "reset", !.upload = FALSE]]
           /\ UNCHANGED <<conn, parser, asked>>
  <2> DEFINE q == [Closed(p) EXCEPT !.stream = "reset", !.upload = FALSE]
  <2>1. /\ q \in RequestRecords /\ q.stream = "reset" /\ ~q.user /\ ~q.upload
        /\ q.state = req[r].state /\ q.cbs = req[r].cbs /\ q.in = req[r].in
    BY <1>2, ResetFields, Zenon
  <2>2. req' = [rs EXCEPT ![r] = q]
    BY <1>4, <1>6
  <2> HIDE DEF q
  <2>3. req' \in [Requests -> RequestRecords] /\ req'[r] = q /\ \A s \in Requests \ {r} : req'[s] = req[s]
    BY <1>4, <2>1, <2>2, Zenon
  <2>4. req[r].state # "none" /\ req[r].cbs = 0 /\ req[r].in = answer[r].sent
    BY <1>t, <1>1 DEF Linked, Delivered
  <2>5. Linked(conn', r, req'[r])
    BY <1>1, <1>6, <1>t, <2>1, <2>3, <2>4, Zenon DEF Linked
  <2>6. Delivered(conn'.state, req'[r], answer'[r])
    BY <1>1, <1>t, <2>1, <2>3, <2>4 DEF Delivered
  <2>7. conn' = conn /\ UNCHANGED <<parser, asked>>
    BY <1>6
  <2> QED
    BY <1>1, <1>t, <2>3, <2>5, <2>6, <2>7, StreamStep, Zenon DEF ClientType
<1>7. CASE p.user /\ req' = rs /\ ~answer'[r].ended /\ UNCHANGED <<conn, parser, asked>>
  <2>1. req[r].state # "none" /\ req[r].cbs = 0 /\ req[r].in = answer[r].sent
    BY <1>t, <1>1 DEF Linked, Delivered
  <2>2. Linked(conn', r, req'[r])
    BY <1>1, <1>2, <1>4, <1>7, <1>t, Zenon DEF Linked
  <2>3. Delivered(conn'.state, req'[r], answer'[r])
    BY <1>1, <1>2, <1>4, <1>7, <1>t, <2>1 DEF Delivered
  <2>4. conn' = conn /\ UNCHANGED <<parser, asked>> /\ req' = rs
    BY <1>7, SMTT(30)
  <2> QED
    BY <1>1, <1>4, <1>t, <2>2, <2>3, <2>4, StreamStep, Zenon DEF ClientType
<1>8. CASE /\ p.user /\ answer'[r].ended /\ Callback(conn, [rs EXCEPT ![r] = EndOf(rs[r])], r, frees)
           /\ UNCHANGED <<parser, asked>>
  <2> DEFINE es == [rs EXCEPT ![r] = EndOf(rs[r])]
  <2>1. /\ EndOf(p) \in RequestRecords /\ EndOf(p).state = p.state /\ EndOf(p).cbs = p.cbs
        /\ EndOf(p).in = p.in /\ EndOf(p).upload = p.upload
        /\ p.upload => EndOf(p).stream = "answered" /\ EndOf(p).user = p.user
        /\ ~p.upload => EndOf(p).stream = "closed" /\ EndOf(p).user = FALSE
    BY <1>2, EndFields, Zenon
  <2>2. es \in [Requests -> RequestRecords] /\ es[r] = EndOf(p) /\ \A s \in Requests \ {r} : es[s] = req[s]
    BY <1>4, <2>1
  <2>3. Callback(conn, es, r, frees) /\ UNCHANGED <<parser, asked>> /\ answer'[r].ended
    BY <1>8, Zenon
  <2> HIDE DEF es
  <2>4. /\ es[r].state = req[r].state /\ es[r].cbs = req[r].cbs /\ es[r].in = req[r].in
        /\ es[r].upload = req[r].upload /\ es[r].stream = (IF es[r].upload THEN "answered" ELSE "closed")
        /\ (es[r].user => es[r].upload)
    BY <1>2, <2>1, <2>2
  <2>5. r \in conn.pending
    BY <1>2, <1>8, Zenon
  <2> QED
    BY <1>1, <2>2, <2>3, <2>4, <2>5, AnsweredInv
<1> QED
  <2>1. \/ SessionFails
        \/ /\ rs[r].user
           /\ \/ /\ req' = [rs EXCEPT ![r] = [Closed(rs[r]) EXCEPT !.stream = "reset", !.upload = FALSE]]
                 /\ UNCHANGED conn
              \/ IF answer'[r].ended THEN Callback(conn, [rs EXCEPT ![r] = EndOf(rs[r])], r, frees)
                 ELSE req' = rs /\ UNCHANGED conn
           /\ UNCHANGED <<parser, asked>>
    BY Zenon DEF RecvHeaders, rs
  <2> QED
    BY <1>4, <1>5, <1>6, <1>7, <1>8, <2>1

\* h2__on_data_chunk_recv_cb_: the data goes to the request of the stream.
LEMMA RecvDataInv ==
    ASSUME ClientInv, NEW r \in Requests, RecvData(r)
    PROVE  ClientInv'
<1>t. /\ ClientType /\ ProtocolInv /\ Linked(conn, r, req[r]) /\ Delivered(conn.state, req[r], answer[r])
      /\ req[r] \in RequestRecords /\ answer[r] \in AnswerRecords
  BY DEF ClientInv, ClientType
<1>0. /\ conn.state = "up" /\ conn.h2 /\ req[r].stream = "open" /\ ~answer[r].ended /\ answer[r].head
  BY DEF RecvData, Streaming, Up, MayBody
<1> DEFINE x == Append(answer[r].sent, NextUnit(r))
<1>1. x \in Seq(Requests \X Nat) /\ OneShort(answer[r].sent, x)
  BY <1>t, NextUnitFields
<1>2. answer' = [answer EXCEPT ![r] = [answer[r] EXCEPT !.sent = x]]
  BY DEF RecvData
<1> HIDE DEF x
<1>3. /\ answer' \in [Requests -> AnswerRecords] /\ \A s \in Requests \ {r} : answer'[s] = answer[s]
      /\ answer'[r].sent = x /\ answer'[r].head = answer[r].head /\ answer'[r].ended = answer[r].ended
  <2>1. LET f == [answer[r] EXCEPT !.sent = x] IN
        f \in AnswerRecords /\ f.sent = x /\ f.head = answer[r].head /\ f.ended = answer[r].ended
    BY <1>t, <1>1, SentField, Zenon
  <2> QED
    BY <1>2, <1>t, <2>1 DEF ClientType
<1>4. CASE SessionFails
  BY <1>0, <1>1, <1>3, <1>4, SessionFailsInv, Zenon
<1>5. CASE /\ req[r].user /\ UNCHANGED <<conn, parser, asked>>
           /\ req' = [q \in Requests |-> IF q \in {r} THEN [req[q] EXCEPT !.in = Append(@, NextUnit(r))]
                                                      ELSE req[q]]
  <2>1. req[r].in = answer[r].sent /\ req[r].state # "none" /\ req[r].cbs = 0
    BY <1>t, <1>0 DEF Linked, Delivered
  <2>2. req'[r] = [req[r] EXCEPT !.in = x] /\ \A s \in Requests \ {r} : req'[s] = req[s]
    BY <1>5, <2>1, Zenon DEF x
  <2>3. /\ req'[r] \in RequestRecords /\ req'[r].in = x /\ req'[r].stream = req[r].stream
        /\ req'[r].user = req[r].user /\ req'[r].upload = req[r].upload /\ req'[r].state = req[r].state
        /\ req'[r].cbs = req[r].cbs
    <3>1. LET f == [req[r] EXCEPT !.in = x] IN
          /\ f \in RequestRecords /\ f.in = x /\ f.stream = req[r].stream /\ f.user = req[r].user
          /\ f.upload = req[r].upload /\ f.state = req[r].state /\ f.cbs = req[r].cbs
      BY <1>1, <1>t, InField, Zenon
    <3> QED
      BY <2>2, <3>1
  <2>4. req' \in [Requests -> RequestRecords]
    <3>1. req' = [q \in Requests |-> req'[q]]
      BY <1>5
    <3>2. \A s \in Requests : req'[s] \in RequestRecords
      BY <2>2, <2>3, <1>t, Zenon DEF ClientType
    <3> QED
      BY <3>1, <3>2
  <2>5. Linked(conn', r, req'[r])
    BY <1>5, <2>3, <1>t, Zenon DEF Linked
  <2>6. Delivered(conn'.state, req'[r], answer'[r])
    BY <1>0, <1>3, <2>1, <2>3 DEF Delivered
  <2>7. conn' = conn /\ UNCHANGED <<parser, asked>>
    BY <1>5
  <2> QED
    BY <1>0, <1>3, <1>t, <2>2, <2>4, <2>5, <2>6, <2>7, StreamStep, Zenon DEF ClientType
<1> QED
  <2>1. CASE req[r].user
    BY <2>1, <1>4, <1>5 DEF RecvData, DataFor
  <2>2. CASE ~req[r].user
    BY <2>2, <1>4 DEF RecvData, DataFor
  <2> QED
    BY <2>1, <2>2

\* handle_h2_data_frame with END_STREAM.
LEMMA RecvDataEndInv ==
    ASSUME ClientInv, NEW r \in Requests, NEW frees \in BOOLEAN, RecvDataEnd(r, frees)
    PROVE  ClientInv'
<1>t. /\ ClientType /\ ProtocolInv /\ Linked(conn, r, req[r]) /\ Delivered(conn.state, req[r], answer[r])
      /\ req[r] \in RequestRecords /\ answer[r] \in AnswerRecords
  BY DEF ClientInv, ClientType
<1>0. /\ conn.state = "up" /\ conn.h2 /\ req[r].stream = "open" /\ ~answer[r].ended /\ answer[r].head
  BY DEF RecvDataEnd, Streaming, Up
<1>1. /\ answer' \in [Requests -> AnswerRecords] /\ \A s \in Requests \ {r} : answer'[s] = answer[s]
      /\ answer'[r].sent = answer[r].sent /\ answer'[r].head /\ answer'[r].ended
  <2>1. answer' = [answer EXCEPT ![r] = [answer[r] EXCEPT !.ended = TRUE]]
    BY DEF RecvDataEnd
  <2>2. LET f == [answer[r] EXCEPT !.ended = TRUE] IN
        f \in AnswerRecords /\ f.sent = answer[r].sent /\ f.head = answer[r].head /\ f.ended
    BY <1>t, Zenon DEF AnswerRecords
  <2> QED
    BY <1>0, <1>t, <2>1, <2>2 DEF ClientType
<1>2. CASE SessionFails
  BY <1>0, <1>1, <1>2, SessionFailsInv, Zenon
<1>3. CASE /\ req[r].user /\ UNCHANGED <<parser, asked>>
           /\ Callback(conn, [req EXCEPT ![r] = [EndOf(req[r]) EXCEPT !.user = FALSE]], r, frees)
  <2> DEFINE p == EndOf(req[r])
             q == [p EXCEPT !.user = FALSE]
             es == [req EXCEPT ![r] = q]
  <2>0. Callback(conn, es, r, frees) /\ UNCHANGED <<parser, asked>>
    BY <1>3
  <2>1. /\ p \in RequestRecords /\ p.state = req[r].state /\ p.cbs = req[r].cbs
        /\ p.in = req[r].in /\ p.upload = req[r].upload
        /\ p.upload => p.stream = "answered"
        /\ ~p.upload => p.stream = "closed"
    BY <1>t, EndFields, Zenon
  <2> HIDE DEF p
  <2>2. /\ q \in RequestRecords /\ q.state = p.state /\ q.cbs = p.cbs /\ q.in = p.in
        /\ q.upload = p.upload /\ q.stream = p.stream /\ ~q.user
    BY <2>1, Zenon DEF RequestRecords
  <2> HIDE DEF q
  <2>3. es \in [Requests -> RequestRecords] /\ es[r] = q /\ \A s \in Requests \ {r} : es[s] = req[s]
    BY <2>2, <1>t, Zenon DEF ClientType
  <2> HIDE DEF es
  <2>4. /\ es[r].state = req[r].state /\ es[r].cbs = req[r].cbs /\ es[r].in = req[r].in
        /\ es[r].upload = req[r].upload /\ es[r].stream = (IF es[r].upload THEN "answered" ELSE "closed")
        /\ (es[r].user => es[r].upload)
    BY <2>1, <2>2, <2>3
  <2>5. r \in conn.pending
    BY <1>3, <1>t, Zenon DEF Linked
  <2> QED
    BY <1>0, <1>1, <2>0, <2>3, <2>4, <2>5, AnsweredInv
<1> QED
  BY <1>2, <1>3 DEF RecvDataEnd

\* h2__data_read_cb_ has given nghttp2 the rest of the body.
LEMMA UploadInv ==
    ASSUME ClientInv, NEW r \in Requests, Upload(r)
    PROVE  ClientInv'
<1>t. /\ ClientType /\ ProtocolInv
      /\ Linked(conn, r, req[r]) /\ Delivered(conn.state, req[r], answer[r])
  BY DEF ClientInv
<1>0. conn.state = "up" /\ req[r].upload /\ conn.h2 /\ UNCHANGED <<parser, asked, answer>>
  BY <1>t DEF Upload, Up, Linked
<1>1. /\ conn' \in ConnRecords
      /\ conn'.state = conn.state /\ conn'.h2 = conn.h2 /\ conn'.request = conn.request
      /\ conn'.pending = conn.pending
  BY <1>t, Zenon DEF Upload, ClientType, ConnRecords
<1> DEFINE q == IF req[r].stream = "answered" THEN [Closed(req[r]) EXCEPT !.upload = FALSE]
                                              ELSE [req[r] EXCEPT !.upload = FALSE]
<1>2. /\ q \in RequestRecords /\ ~q.upload /\ q.state = req[r].state /\ q.cbs = req[r].cbs /\ q.in = req[r].in
      /\ \/ q.stream = "closed" /\ ~q.user
         \/ q.stream = req[r].stream /\ q.user = req[r].user
  <2>1. req[r] \in RequestRecords
    BY <1>t DEF ClientType
  <2>2. CASE req[r].stream = "answered"
    <3> DEFINE p == Closed(req[r])
    <3>1. /\ p \in RequestRecords /\ p.stream = "closed" /\ p.user = FALSE
          /\ p.state = req[r].state /\ p.cbs = req[r].cbs /\ p.in = req[r].in
      BY <2>1, StreamFields, Zenon DEF Closed
    <3>2. q = [p EXCEPT !.upload = FALSE]
      BY <2>2
    <3> HIDE DEF p, q
    <3>3. LET f == [p EXCEPT !.upload = FALSE] IN
          /\ f \in RequestRecords /\ f.stream = p.stream /\ f.user = p.user /\ f.upload = FALSE
          /\ f.state = p.state /\ f.cbs = p.cbs /\ f.in = p.in
      BY <3>1, UploadField, Zenon
    <3> QED
      BY <3>1, <3>2, <3>3
  <2>3. CASE req[r].stream # "answered"
    BY <2>1, <2>3, UploadField, Zenon
  <2> QED
    BY <2>2, <2>3
<1>3. req' = [req EXCEPT ![r] = q]
  BY DEF Upload
<1> HIDE DEF q
<1>4. req' \in [Requests -> RequestRecords] /\ req'[r] = q /\ \A s \in Requests \ {r} : req'[s] = req[s]
  BY <1>2, <1>3, <1>t, Zenon DEF ClientType
<1>5. Linked(conn', r, req'[r])
  BY <1>0, <1>1, <1>2, <1>4, <1>t, Zenon DEF Linked
<1>6. Delivered(conn'.state, req'[r], answer'[r])
  BY <1>0, <1>1, <1>2, <1>4, <1>t DEF Delivered
<1>7. answer' \in [Requests -> AnswerRecords]
  BY <1>0, <1>t DEF ClientType
<1> QED
  BY <1>0, <1>1, <1>4, <1>5, <1>6, <1>7, StreamStep, Zenon

\* RST_STREAM of the server.
LEMMA RecvRstInv ==
    ASSUME ClientInv, NEW r \in Requests, RecvRst(r)
    PROVE  ClientInv'
<1>t. /\ ClientType /\ ProtocolInv
      /\ Linked(conn, r, req[r]) /\ Delivered(conn.state, req[r], answer[r])
  BY DEF ClientInv
<1>0. /\ conn.state = "up" /\ conn.h2 /\ req[r].stream \in {"open", "answered"}
      /\ UNCHANGED <<conn, parser, asked, answer>>
  BY DEF RecvRst, Up
<1> DEFINE q == [Closed(req[r]) EXCEPT !.stream = "reset", !.upload = FALSE]
<1>1. /\ q \in RequestRecords /\ q.stream = "reset" /\ ~q.user /\ ~q.upload
      /\ q.state = req[r].state /\ q.cbs = req[r].cbs /\ q.in = req[r].in
  <2>1. req[r] \in RequestRecords
    BY <1>t DEF ClientType
  <2> QED
    BY <2>1, ResetFields, Zenon
<1>2. req' = [req EXCEPT ![r] = q]
  BY DEF RecvRst
<1> HIDE DEF q
<1>3. req' \in [Requests -> RequestRecords] /\ req'[r] = q /\ \A s \in Requests \ {r} : req'[s] = req[s]
  BY <1>1, <1>2, <1>t, Zenon DEF ClientType
<1>4. Linked(conn', r, req'[r]) /\ Delivered(conn'.state, req'[r], answer'[r])
  BY <1>0, <1>1, <1>3, <1>t DEF Linked, Delivered
<1>5. answer' \in [Requests -> AnswerRecords] /\ \A s \in Requests \ {r} : answer'[s] = answer[s]
  BY <1>0, <1>t DEF ClientType
<1>6. conn' = conn
  BY <1>0
<1> QED
  BY <1>0, <1>3, <1>4, <1>5, <1>6, <1>t, StreamStep, Zenon DEF ClientType

-----------------------------------------------------------------------------
(* HTTP/1 *)

\* An interim response changes nothing the application is given.
LEMMA RecvInterimInv ==
    ASSUME ClientInv, RecvInterim
    PROVE  ClientInv'
<1>0. Reads /\ parser = Between
  BY DEF RecvInterim
<1>1. PICK r \in Requests : r = Answered
  BY <1>0, AnsweredIs, SMTT(30)
<1>2. /\ req[r].in = answer[r].sent /\ ~answer[r].ended /\ answer[r] \in AnswerRecords
  BY <1>0, <1>1, ReadsFields
<1>3. /\ answer' \in [Requests -> AnswerRecords] /\ \A s \in Requests \ {r} : answer'[s] = answer[s]
      /\ answer'[r].sent = answer[r].sent /\ answer'[r].head = answer[r].head
      /\ answer'[r].ended = answer[r].ended
  <2>1. answer' = [answer EXCEPT ![r] = [answer[r] EXCEPT !.interim = TRUE]]
    BY <1>1 DEF RecvInterim
  <2>2. LET f == [answer[r] EXCEPT !.interim = TRUE] IN
        /\ f \in AnswerRecords /\ f.sent = answer[r].sent /\ f.head = answer[r].head
        /\ f.ended = answer[r].ended
    BY <1>2, Zenon DEF AnswerRecords
  <2> QED
    BY <2>1, <2>2 DEF ClientInv, ClientType
<1>4. CASE ReadFails
  BY <1>0, <1>1, <1>2, <1>3, <1>4, ReadFailsInv, Zenon
<1>5. CASE UNCHANGED <<conn, req, parser, asked>>
  <2>1. /\ parser' = Between /\ parser' \notin Nat /\ req' \in [Requests -> RequestRecords]
        /\ req' = req /\ UNCHANGED <<conn, asked>>
    BY <1>0, <1>5 DEF Between, ClientInv, ClientType
  <2> QED
    BY <1>0, <1>1, <1>2, <1>3, <2>1, GoesOnInv
<1> QED
  BY <1>4, <1>5 DEF RecvInterim

\* The head of the answer: with no body to come, as after HEAD, it is complete.
LEMMA RecvHeadInv ==
    ASSUME ClientInv, NEW units \in 0 .. MaxUnits, NEW frees \in BOOLEAN, RecvHead(units, frees)
    PROVE  ClientInv'
<1>0. Reads
  BY DEF RecvHead
<1>1. PICK r \in Requests : r = Answered
  BY <1>0, AnsweredIs, Zenon
<1>2. /\ req[r].in = answer[r].sent /\ ~answer[r].ended /\ answer[r] \in AnswerRecords /\ Current = r
  BY <1>0, <1>1, ReadsFields, Zenon
<1>3. ~answer[r].head /\ answer[r].sent = << >> /\ Delivered(conn.state, req[r], answer[r])
  <2>1. ~answer[r].head /\ Delivered(conn.state, req[r], answer[r])
    BY <1>1 DEF RecvHead, ClientInv
  <2> QED
    BY <2>1 DEF Delivered
<1> DEFINE n == IF req[r].method = "HEAD" THEN 0 ELSE units
           b == units = 0 \/ req[r].method = "HEAD"
<1>4. n \in Nat /\ b \in BOOLEAN /\ units \in Nat /\ (~b => n = units /\ units # 0)
  BY ClientAssumption
<1>5. /\ answer' = [answer EXCEPT ![r] = [answer[r] EXCEPT !.head = TRUE, !.units = n, !.ended = b]]
      /\ ReadFails \/ (b /\ Complete(req, frees))
                   \/ (~b /\ parser' = units /\ UNCHANGED <<conn, req, asked>>)
  BY <1>1, <1>2 DEF RecvHead, SkipBody
<1> HIDE DEF n, b
<1>6. /\ answer' \in [Requests -> AnswerRecords] /\ \A s \in Requests \ {r} : answer'[s] = answer[s]
      /\ answer'[r].sent = answer[r].sent /\ answer'[r].head /\ answer'[r].units = n /\ answer'[r].ended = b
  <2>1. answer[r] \in AnswerRecords /\ n \in Nat /\ b \in BOOLEAN
    BY <1>2, <1>4
  <2>2. LET f == [answer[r] EXCEPT !.head = TRUE, !.units = n, !.ended = b] IN
        f \in AnswerRecords /\ f.head = TRUE /\ f.units = n /\ f.ended = b /\ f.sent = answer[r].sent
    BY <2>1, Zenon DEF AnswerRecords
  <2> QED
    BY <1>5, <2>2 DEF ClientInv, ClientType
<1>7. req \in [Requests -> RequestRecords]
  BY Zenon DEF ClientInv, ClientType
<1>8. CASE ReadFails
  BY <1>0, <1>1, <1>6, <1>8, ReadFailsInv
<1>9. CASE b /\ Complete(req, frees)
  BY <1>0, <1>1, <1>2, <1>6, <1>7, <1>9, CompleteInv, Zenon
<1>a. CASE ~b /\ parser' = units /\ UNCHANGED <<conn, req, asked>>
  <2>1. parser' \in Nat \ {0} /\ parser' = answer'[r].units - Len(answer'[r].sent)
    BY <1>3, <1>4, <1>6, <1>a
  <2>2. /\ req' = req /\ UNCHANGED <<conn, asked>> /\ ~answer'[r].ended
        /\ parser' \in {Between, UntilEof} \cup (Nat \ {0})
    BY <1>6, <1>a, <2>1, SMTT(30)
  <2> QED
    BY <1>0, <1>1, <1>2, <1>6, <1>7, <2>1, <2>2, GoesOnInv, Zenon
<1> QED
  BY <1>5, <1>8, <1>9, <1>a

\* A head without a length: the parser reads until the connection ends.
LEMMA RecvHeadUntilEofInv ==
    ASSUME ClientInv, RecvHeadUntilEof
    PROVE  ClientInv'
<1>0. Reads
  BY DEF RecvHeadUntilEof
<1>1. PICK r \in Requests : r = Answered
  BY <1>0, AnsweredIs, Zenon
<1>2. /\ req[r].in = answer[r].sent /\ ~answer[r].ended /\ answer[r] \in AnswerRecords
  BY <1>0, <1>1, ReadsFields
<1>3. /\ answer' \in [Requests -> AnswerRecords] /\ \A s \in Requests \ {r} : answer'[s] = answer[s]
      /\ answer'[r].sent = answer[r].sent /\ answer'[r].head /\ answer'[r].ended = answer[r].ended
  <2>1. answer' = [answer EXCEPT ![r] = [answer[r] EXCEPT !.head = TRUE, !.units = MaxUnits]]
    BY <1>1, Zenon DEF RecvHeadUntilEof, ClientInv, ClientType
  <2>2. LET f == [answer[r] EXCEPT !.head = TRUE, !.units = MaxUnits] IN
        f \in AnswerRecords /\ f.head /\ f.sent = answer[r].sent /\ f.ended = answer[r].ended
    BY <1>2, ClientAssumption, Zenon DEF AnswerRecords
  <2> QED
    BY <2>1, <2>2 DEF ClientInv, ClientType
<1>4. CASE ReadFails
  BY <1>0, <1>1, <1>2, <1>3, <1>4, ReadFailsInv, Zenon
<1>5. CASE parser' = UntilEof /\ UNCHANGED <<conn, req, asked>>
  <2>1. /\ parser' \notin Nat /\ req' = req /\ UNCHANGED <<conn, asked>>
        /\ req \in [Requests -> RequestRecords]
    BY <1>5 DEF UntilEof, ClientInv, ClientType
  <2> QED
    BY <1>0, <1>1, <1>2, <1>3, <1>5, <2>1, GoesOnInv
<1> QED
  BY <1>4, <1>5 DEF RecvHeadUntilEof

\* htp__request_parse_body_: the parser and the server agree on the last unit.
LEMMA RecvBodyInv ==
    ASSUME ClientInv, NEW frees \in BOOLEAN, RecvBody(frees)
    PROVE  ClientInv'
<1>t. ClientType
  BY Zenon DEF ClientInv
<1>0. Reads /\ parser # Between
  BY DEF RecvBody
<1>1. PICK r \in Requests : r = Answered
  BY <1>0, AnsweredIs, Zenon
<1>2. /\ req[r].in = answer[r].sent /\ answer[r] \in AnswerRecords /\ req[r] \in RequestRecords
      /\ Current = r /\ parser \in {Between, UntilEof} \cup (Nat \ {0})
      /\ parser \in Nat => parser = answer[r].units - Len(answer[r].sent)
  BY <1>0, <1>1, ReadsFields
<1> DEFINE u == NextUnit(r)
           x == Append(answer[r].sent, u)
           last == parser # UntilEof /\ u[2] = answer[r].units
           taken == [req EXCEPT ![r].in = Append(@, u)]
<1>3. /\ answer[r].head
      /\ answer' = [answer EXCEPT ![r].sent = x, ![r].ended = last]
      /\ \/ ReadFails
         \/ parser = 1 /\ Complete(taken, frees)
         \/ /\ parser # 1 /\ parser' = (IF parser = UntilEof THEN parser ELSE parser - 1)
            /\ req' = taken /\ UNCHANGED <<conn, asked>>
  BY <1>1, <1>2, <1>t, Zenon DEF RecvBody, MayBody, ClientType
<1>4. /\ x \in Seq(Requests \X Nat) /\ OneShort(answer[r].sent, x) /\ Len(x) = Len(answer[r].sent) + 1
      /\ u[2] = Len(answer[r].sent) + 1 /\ Len(answer[r].sent) \in Nat
  BY <1>t, NextUnitFields, Zenon DEF NextUnit
<1>5. /\ last \in BOOLEAN /\ (last <=> parser = 1)
      /\ parser # UntilEof => parser \in Nat \ {0} /\ parser = answer[r].units - Len(answer[r].sent)
  <2>1. answer[r].units \in Nat /\ (parser = UntilEof \/ parser \in Nat \ {0}) /\ UntilEof # 1
    BY <1>0, <1>2 DEF AnswerRecords, UntilEof
  <2> QED
    BY <1>2, <1>4, <2>1
<1>6. /\ taken \in [Requests -> RequestRecords] /\ \A s \in Requests \ {r} : taken[s] = req[s]
      /\ taken[r].in = x /\ taken[r].state = req[r].state /\ taken[r].stream = req[r].stream
      /\ taken[r].user = req[r].user /\ taken[r].upload = req[r].upload /\ taken[r].cbs = req[r].cbs
  <2>1. taken = [req EXCEPT ![r] = [req[r] EXCEPT !.in = x]]
    BY <1>2
  <2> HIDE DEF x, taken
  <2>2. LET f == [req[r] EXCEPT !.in = x] IN
        /\ f \in RequestRecords /\ f.in = x /\ f.stream = req[r].stream /\ f.user = req[r].user
        /\ f.upload = req[r].upload /\ f.state = req[r].state /\ f.cbs = req[r].cbs
    BY <1>2, <1>4, InField, Zenon
  <2> QED
    BY <1>t, <2>1, <2>2 DEF ClientType
<1> HIDE DEF u, x, last, taken
<1>7. /\ answer' \in [Requests -> AnswerRecords] /\ \A s \in Requests \ {r} : answer'[s] = answer[s]
      /\ answer'[r].sent = x /\ answer'[r].head /\ answer'[r].ended = last
      /\ answer'[r].units = answer[r].units
  <2>1. answer' = [answer EXCEPT ![r] = [answer[r] EXCEPT !.sent = x, !.ended = last]]
    BY <1>3, <1>t, Zenon DEF ClientType
  <2>2. x \in Seq(Requests \X Nat) /\ last \in BOOLEAN /\ answer[r] \in AnswerRecords
    BY <1>2, <1>4, <1>5
  <2>3. LET f == [answer[r] EXCEPT !.sent = x, !.ended = last] IN
        /\ f \in AnswerRecords /\ f.sent = x /\ f.head = answer[r].head /\ f.ended = last
        /\ f.units = answer[r].units
    BY <2>2, Zenon DEF AnswerRecords
  <2> QED
    BY <1>3, <1>t, <2>1, <2>3 DEF ClientType
<1>8. CASE ReadFails
  BY <1>0, <1>1, <1>4, <1>7, <1>8, ReadFailsInv, Zenon
<1>9. CASE parser = 1 /\ Complete(taken, frees)
  <2>1. answer'[r].ended /\ Complete(taken, frees)
    BY <1>5, <1>7, <1>9, Zenon
  <2> QED
    BY <1>0, <1>1, <1>6, <1>7, <2>1, CompleteInv
<1>a. CASE /\ parser # 1 /\ parser' = (IF parser = UntilEof THEN parser ELSE parser - 1)
           /\ req' = taken /\ UNCHANGED <<conn, asked>>
  <2>1. ~answer'[r].ended /\ req' = taken /\ UNCHANGED <<conn, asked>>
    BY <1>5, <1>7, <1>a, Zenon
  <2>2. parser' = UntilEof \/ (parser' \in Nat \ {0} /\ parser' = answer'[r].units - Len(answer'[r].sent))
    <3>1. CASE parser = UntilEof
      BY <1>a, <3>1, Zenon
    <3>2. CASE parser # UntilEof
      <4>1. answer[r].units \in Nat
        BY <1>2, Zenon DEF AnswerRecords
      <4>2. /\ parser \in Nat \ {0, 1} /\ parser' = parser - 1
            /\ parser = answer[r].units - Len(answer[r].sent)
        BY <1>5, <1>a, <3>2
      <4>3. answer'[r].units = answer[r].units /\ Len(answer'[r].sent) = Len(answer[r].sent) + 1
        BY <1>4, <1>7
      <4>4. Len(answer[r].sent) \in Nat
        BY <1>4
      <4> QED
        BY <4>1, <4>2, <4>3, <4>4, SMTT(30)
    <3> QED
      BY <3>1, <3>2, SMTT(30)
  <2>3. /\ parser' \in {Between, UntilEof} \cup (Nat \ {0})
        /\ parser' \in Nat => parser' = answer'[r].units - Len(answer'[r].sent)
    BY <2>2, SMTT(30) DEF UntilEof
  <2> QED
    BY <1>0, <1>1, <1>6, <1>7, <2>1, <2>3, GoesOnInv, SMTT(30)
<1> QED
  BY <1>3, <1>8, <1>9, <1>a, Zenon

\* htparser_run_eof: the end of the connection is the end of the answer.
LEMMA RecvEofInv ==
    ASSUME ClientInv, NEW frees \in BOOLEAN, RecvEof(frees)
    PROVE  ClientInv'
<1>t. ClientType /\ ProtocolInv /\ \A s \in Requests : Delivered(conn.state, req[s], answer[s])
  BY DEF ClientInv
<1>0. Reads /\ parser = UntilEof
  BY Zenon DEF RecvEof
<1>1. PICK r \in Requests : r = Answered
  BY <1>0, AnsweredIs
<1>2. /\ req[r].in = answer[r].sent /\ answer[r] \in AnswerRecords /\ req[r].cbs = 0
      /\ Current = r /\ req[r].state = "live" /\ Tail(asked) = << >>
  BY <1>0, <1>1, ReadsFields, Zenon
<1>3. answer[r].head
  <2>1. parser # Between
    BY <1>0 DEF UntilEof, Between
  <2> QED
    BY <1>0, <1>1, <2>1, ReadsFields
<1>4. /\ answer' \in [Requests -> AnswerRecords] /\ \A s \in Requests \ {r} : answer'[s] = answer[s]
      /\ answer'[r].sent = answer[r].sent /\ answer'[r].head /\ answer'[r].ended
  <2>1. answer' = [answer EXCEPT ![r] = [answer[r] EXCEPT !.ended = TRUE]]
    BY <1>1 DEF RecvEof
  <2>2. LET f == [answer[r] EXCEPT !.ended = TRUE] IN
        f \in AnswerRecords /\ f.sent = answer[r].sent /\ f.head = answer[r].head /\ f.ended
    BY <1>2, Zenon DEF AnswerRecords
  <2> QED
    BY <1>3, <1>t, <2>1, <2>2 DEF ClientType
<1> DEFINE told == Told(IF frees THEN {} ELSE {r})
           rs == [told EXCEPT ![r].cbs = @ + 1]
<1>5. ConnectionFree(rs) /\ parser' = Between /\ asked' = << >>
  BY <1>2, Zenon DEF RecvEof
<1>6. /\ told \in [Requests -> RequestRecords]
      /\ \A s \in Requests : /\ told[s].state = req[s].state /\ told[s].user = req[s].user
                             /\ told[s].stream = req[s].stream /\ told[s].upload = req[s].upload
                             /\ told[s].cbs = req[s].cbs /\ told[s].in = req[s].in
  BY <1>t, ToldFields
<1> HIDE DEF told
<1> DEFINE q == [told[r] EXCEPT !.cbs = 1]
<1>7. /\ q \in RequestRecords /\ q.cbs = 1 /\ q.in = told[r].in /\ q.stream = told[r].stream
      /\ q.upload = told[r].upload /\ q.state = told[r].state /\ q.user = told[r].user
  <2>1. told[r] \in RequestRecords /\ 1 \in Nat
    BY <1>6
  <2> QED
    BY <2>1, CbsField, Zenon
<1>8. rs = [told EXCEPT ![r] = q]
  <2>1. told[r].cbs + 1 = 1
    BY <1>2, <1>6
  <2> QED
    BY <2>1, Zenon
<1> HIDE DEF q, rs
<1>9. /\ rs \in [Requests -> RequestRecords] /\ rs[r] = q /\ \A s \in Requests \ {r} : rs[s] = told[s]
  BY <1>6, <1>7, <1>8, Zenon
<1>a. \A s \in Requests : /\ rs[s].state = req[s].state /\ rs[s].user = req[s].user
                          /\ rs[s].stream = req[s].stream /\ rs[s].upload = req[s].upload
  BY <1>6, <1>7, <1>9
<1>b. ASSUME NEW s \in Requests
      PROVE  Delivered("freed", rs[s], answer'[s])
  <2>1. CASE s = r
    <3>1. rs[r].cbs = 1 /\ rs[r].in = answer'[r].sent /\ rs[r].state # "none"
      BY <1>2, <1>4, <1>6, <1>7, <1>9, SMTT(30)
    <3> QED
      BY <2>1, <3>1, <1>4, Zenon DEF Delivered
  <2>2. CASE s # r
    <3>1. Delivered("freed", req[s], answer[s])
      BY <1>t, DeliveredAtEnd, Zenon
    <3>2. /\ rs[s].state = req[s].state /\ rs[s].stream = req[s].stream /\ rs[s].cbs = req[s].cbs
          /\ rs[s].in = req[s].in /\ answer'[s] = answer[s]
      BY <2>2, <1>4, <1>6, <1>9
    <3> QED
      BY <3>1, <3>2, Zenon DEF Delivered
  <2> QED
    BY <2>1, <2>2, Zenon
<1>c. parser' \in Int /\ asked' \in Seq(Requests)
  BY <1>5 DEF Between
<1> QED
  BY <1>4, <1>5, <1>9, <1>a, <1>b, <1>c, FreeInv, SMTT(30)

-----------------------------------------------------------------------------
(* The application and the bufferevent *)

\* A connection starts with nothing asked of it.
LEMMA ClientInit == Init => ClientInv
<1> SUFFICES ASSUME Init PROVE ClientInv
  OBVIOUS
<1>1. NoRequest \in RequestRecords /\ NoAnswer \in AnswerRecords
  BY DEF NoRequest, NoAnswer, RequestRecords, AnswerRecords
<1>2. ClientType
  BY <1>1 DEF Init, ClientType, Between, ConnRecords
<1>3. ProtocolInv /\ ReadingInv
  BY DEF Init, ProtocolInv, ReadingInv, Between
<1>4. ASSUME NEW r \in Requests
      PROVE  Linked(conn, r, req[r]) /\ Delivered(conn.state, req[r], answer[r])
  <2>1. req[r] = NoRequest /\ answer[r] = NoAnswer
    BY Zenon DEF Init
  <2>2. /\ NoRequest.state = "none" /\ ~NoRequest.user /\ ~NoRequest.upload
        /\ NoRequest.stream = "idle" /\ NoRequest.cbs = 0 /\ NoRequest.in = << >>
    BY DEF NoRequest
  <2>3. ~NoAnswer.ended /\ ~NoAnswer.head /\ NoAnswer.sent = << >>
    BY Zenon DEF NoAnswer
  <2>4. conn.request = {} /\ conn.pending = {}
    BY DEF Init
  <2> QED
    BY <2>1, <2>2, <2>3, <2>4 DEF Linked, Delivered
<1> QED
  BY <1>2, <1>3, <1>4 DEF ClientInv

\* The fields evhtp_make_request sets in any case.
LEMMA MadeFields ==
    ASSUME NEW q \in RequestRecords, NEW m \in Methods, NEW state \in {"live", "unsent"}
    PROVE  LET f == [q EXCEPT !.state = state, !.method = m] IN
           /\ f \in RequestRecords /\ f.state = state /\ f.in = q.in /\ f.cbs = q.cbs
           /\ f.user = q.user /\ f.upload = q.upload /\ f.stream = q.stream
BY Zenon DEF RequestRecords

\* evhtp_make_request: a new request is linked where its protocol looks for it, or
\* nowhere when nghttp2 does not take it.
LEMMA MakeRequestInv ==
    ASSUME ClientInv, NEW r \in Requests, NEW m \in Methods, NEW u \in BOOLEAN, MakeRequest(r, m, u)
    PROVE  ClientInv'
<1>t. /\ ClientType /\ ProtocolInv /\ ReadingInv
      /\ Linked(conn, r, req[r]) /\ Delivered(conn.state, req[r], answer[r])
  BY DEF ClientInv
<1>0. /\ conn.state # "freed" /\ (conn.tls => conn.state = "up") /\ req[r].state = "none"
      /\ (conn.h2 \/ conn.request = {}) /\ (u => conn.h2)
      /\ parser' = parser /\ answer' = answer
  BY Zenon DEF MakeRequest, Up
<1>f. /\ req[r] \in RequestRecords /\ conn.h2 \in BOOLEAN /\ conn.goaway \in BOOLEAN
      /\ req[r].stream = "idle" /\ ~req[r].upload /\ ~req[r].user
      /\ r \notin conn.request /\ r \notin conn.pending
  <2>1. req[r] \in RequestRecords /\ conn.h2 \in BOOLEAN /\ conn.goaway \in BOOLEAN
    BY <1>t DEF ClientType, ConnRecords
  <2> QED
    BY <2>1, <1>0, <1>t DEF Linked
<1> DEFINE sent == ~conn.goaway
           upload == u /\ sent
           stream == IF sent THEN "open" ELSE "reset"
           Live2(q) == [q EXCEPT !.state = "live", !.method = m, !.user = sent,
                                 !.upload = upload, !.stream = stream]
           Same(q, state) == [q EXCEPT !.state = state, !.method = m]
<1>1. CASE /\ conn.h2 /\ asked' = asked /\ req' = [req EXCEPT ![r] = Live2(req[r])]
           /\ conn' = [conn EXCEPT !.pending = @ \cup {r}, !.output = @ \/ sent]
  <2>1. /\ Live2(req[r]) \in RequestRecords /\ Live2(req[r]).state = "live"
        /\ Live2(req[r]).in = req[r].in /\ Live2(req[r]).cbs = req[r].cbs
        /\ Live2(req[r]).user = sent /\ Live2(req[r]).upload = upload
        /\ Live2(req[r]).stream = stream
    <3>1. sent \in BOOLEAN /\ upload \in BOOLEAN /\ stream \in {"open", "reset"}
      BY <1>f
    <3> HIDE DEF sent, upload, stream
    <3>2. ASSUME NEW q \in RequestRecords
          PROVE  /\ Live2(q) \in RequestRecords /\ Live2(q).state = "live" /\ Live2(q).in = q.in
                 /\ Live2(q).cbs = q.cbs /\ Live2(q).user = sent /\ Live2(q).upload = upload
                 /\ Live2(q).stream = stream
      <4>1. Live2(q) \in RequestRecords
        BY <3>1, Zenon DEF RequestRecords
      <4>2. Live2(q).state = "live" /\ Live2(q).in = q.in /\ Live2(q).cbs = q.cbs
        BY Zenon DEF RequestRecords
      <4>3. Live2(q).user = sent /\ Live2(q).upload = upload /\ Live2(q).stream = stream
        BY Zenon DEF RequestRecords
      <4> QED
        BY <4>1, <4>2, <4>3
    <3> HIDE DEF Live2
    <3> QED
      BY <1>f, <3>2
  <2> HIDE DEF Live2
  <2>2. /\ req' \in [Requests -> RequestRecords] /\ req'[r] = Live2(req[r])
        /\ \A s \in Requests \ {r} : req'[s] = req[s]
    BY <1>1, <2>1, <1>t, Zenon DEF ClientType
  <2>3. /\ conn' \in ConnRecords /\ conn'.state = conn.state /\ conn'.h2 = conn.h2
        /\ conn'.tls = conn.tls /\ conn'.request = conn.request /\ conn'.pending = conn.pending \cup {r}
    BY <1>1, <1>t, Zenon DEF ClientType, ConnRecords
  <2>4. ClientType'
    BY <1>0, <1>1, <2>2, <2>3, <1>t DEF ClientType
  <2>5. ProtocolInv'
    BY <1>0, <1>1, <2>3, <1>t DEF ProtocolInv
  <2>6. ReadingInv'
    BY <1>0, <1>1, <2>3, <1>t, Zenon DEF ReadingInv, ProtocolInv
  <2>7. Linked(conn', r, req'[r])
    BY <1>0, <1>1, <2>1, <2>2, <2>3, <1>f DEF Linked
  <2>8. Delivered(conn'.state, req'[r], answer'[r])
    <3>1. req'[r].stream # "answered" /\ ~answer[r].head
      BY <1>0, <1>t, <2>1, <2>2 DEF Delivered
    <3> QED
      BY <3>1, <1>0, <1>t, <2>1, <2>2, <2>3 DEF Delivered
  <2>9. \A s \in Requests \ {r} : /\ req'[s] = req[s] /\ answer'[s] = answer[s]
                                   /\ (s \in conn'.request <=> s \in conn.request)
                                   /\ (s \in conn'.pending <=> s \in conn.pending)
    BY <1>0, <2>2, <2>3
  <2> QED
    BY <1>0, <2>3, <2>4, <2>5, <2>6, <2>7, <2>8, <2>9, OneRequest, Zenon
<1>2. CASE /\ conn.h2 /\ asked' = asked /\ req' = [req EXCEPT ![r] = Same(req[r], "unsent")]
           /\ conn' = conn
  <2> DEFINE q == Same(req[r], "unsent")
  <2>1. /\ q \in RequestRecords /\ q.state = "unsent" /\ q.in = req[r].in /\ q.cbs = req[r].cbs
        /\ q.user = req[r].user /\ q.upload = req[r].upload /\ q.stream = req[r].stream
    BY <1>f, MadeFields, Zenon
  <2> HIDE DEF q
  <2>2. /\ req' \in [Requests -> RequestRecords] /\ req'[r] = q
        /\ \A s \in Requests \ {r} : req'[s] = req[s]
    BY <1>2, <2>1, <1>t, Zenon DEF ClientType, q
  <2>4. ClientType'
    BY <1>0, <1>2, <2>2, <1>t DEF ClientType
  <2>5. ProtocolInv' /\ ReadingInv'
    BY <1>0, <1>2, <1>t, Zenon DEF ProtocolInv, ReadingInv
  <2>7. Linked(conn', r, req'[r])
    BY <1>2, <2>1, <2>2, <1>f DEF Linked
  <2>8. Delivered(conn'.state, req'[r], answer'[r])
    BY <1>0, <1>2, <1>t, <2>1, <2>2 DEF Delivered
  <2> QED
    BY <1>0, <1>2, <2>2, <2>4, <2>5, <2>7, <2>8, OneRequest, Zenon
<1>3. CASE /\ ~conn.h2 /\ asked' = Append(asked, r)
           /\ req' = [req EXCEPT ![r] = Same(req[r], "live")]
           /\ conn' = [conn EXCEPT !.request = {r}, !.output = TRUE]
  <2> DEFINE q == Same(req[r], "live")
  <2>1. /\ q \in RequestRecords /\ q.state = "live" /\ q.in = req[r].in /\ q.cbs = req[r].cbs
        /\ q.user = req[r].user /\ q.upload = req[r].upload /\ q.stream = req[r].stream
    BY <1>f, MadeFields, Zenon
  <2> HIDE DEF q
  <2>2. /\ req' \in [Requests -> RequestRecords] /\ req'[r] = q
        /\ \A s \in Requests \ {r} : req'[s] = req[s]
    BY <1>3, <2>1, <1>t, Zenon DEF ClientType, q
  <2>3. /\ conn' \in ConnRecords /\ conn'.state = conn.state /\ conn'.h2 = conn.h2
        /\ conn'.tls = conn.tls /\ conn'.request = {r} /\ conn'.pending = conn.pending
    BY <1>3, <1>t, Zenon DEF ClientType, ConnRecords
  <2>a. asked = << >> /\ asked' = <<r>> /\ parser = Between
    <3>1. asked = << >>
      BY <1>3, <1>t, <1>0, Zenon DEF ReadingInv
    <3> QED
      BY <1>3, <3>1, <1>t, <1>0, OneAsked, Zenon DEF ReadingInv
  <2>4. ClientType'
    BY <1>0, <2>2, <2>3, <2>a, <1>t DEF ClientType
  <2>5. ProtocolInv'
    BY <1>0, <1>3, <2>3, <1>t DEF ProtocolInv
  <2>6. ReadingInv'
    <3>1. ~answer[r].ended
      BY <1>0, <1>t DEF Delivered
    <3> QED
      BY <3>1, <1>0, <2>3, <2>a, OneAsked DEF ReadingInv, Between
  <2>7. Linked(conn', r, req'[r])
    BY <1>3, <2>1, <2>2, <2>3, <1>f DEF Linked
  <2>8. Delivered(conn'.state, req'[r], answer'[r])
    BY <1>0, <1>t, <2>1, <2>2, <2>3 DEF Delivered
  <2>9. \A s \in Requests \ {r} : /\ req'[s] = req[s] /\ answer'[s] = answer[s]
                                   /\ (s \in conn'.request <=> s \in conn.request)
                                   /\ (s \in conn'.pending <=> s \in conn.pending)
    BY <1>0, <1>3, <2>2, <2>3
  <2> QED
    BY <1>0, <2>3, <2>4, <2>5, <2>6, <2>7, <2>8, <2>9, OneRequest, Zenon
<1> QED
  BY <1>1, <1>2, <1>3, Zenon DEF MakeRequest, H2MakeRequest

\* What the connection frees is delivered as before: no answer, no parser involved.
LEMMA FreeAloneInv ==
    ASSUME ClientInv, ConnectionFree(req) \/ (\E S : ConnectionFree(Told(S))),
           UNCHANGED <<parser, asked, answer>>
    PROVE  ClientInv'
<1>t. ClientType /\ ProtocolInv /\ \A r \in Requests : Delivered(conn.state, req[r], answer[r])
  BY Zenon DEF ClientInv
<1>1. /\ answer' = answer /\ answer' \in [Requests -> AnswerRecords] /\ parser' \in Int
      /\ asked' \in Seq(Requests) /\ (conn.h2 => asked' = << >>) /\ req \in [Requests -> RequestRecords]
  BY <1>t, Zenon DEF ClientType, ProtocolInv
<1>2. \A r \in Requests : Delivered("freed", req[r], answer[r])
  BY <1>t, DeliveredAtEnd, Zenon
<1>3. CASE ConnectionFree(req)
  BY <1>1, <1>2, <1>3, FreeInv, Zenon
<1>4. CASE \E S : ConnectionFree(Told(S))
  <2>1. PICK S : ConnectionFree(Told(S))
    BY <1>4, Zenon
  <2>2. ASSUME NEW r \in Requests
        PROVE  Delivered("freed", Told(S)[r], answer[r])
    <3>1. Delivered("freed", req[r], answer[r])
      BY <1>2, Zenon
    <3>2. /\ Told(S)[r].state = req[r].state /\ Told(S)[r].stream = req[r].stream
          /\ Told(S)[r].cbs = req[r].cbs /\ Told(S)[r].in = req[r].in
      BY <1>t, ToldFields
    <3> QED
      BY <3>1, <3>2, Zenon DEF Delivered
  <2>3. /\ Told(S) \in [Requests -> RequestRecords]
        /\ \A r \in Requests : /\ Told(S)[r].state = req[r].state /\ Told(S)[r].user = req[r].user
                               /\ Told(S)[r].stream = req[r].stream /\ Told(S)[r].upload = req[r].upload
    BY <1>t, ToldFields, Zenon
  <2> DEFINE rs == Told(S)
  <2> HIDE DEF rs
  <2> QED
    BY <1>1, <2>1, <2>2, <2>3, FreeInv DEF rs
<1> QED
  BY <1>3, <1>4, Zenon

\* evhtp_request_free outside a callback: over HTTP/1 only an answered request.
LEMMA FreeRequestInv ==
    ASSUME ClientInv, NEW r \in Requests, FreeRequest(r)
    PROVE  ClientInv'
<1>t. /\ ClientType /\ ProtocolInv /\ ReadingInv
      /\ Linked(conn, r, req[r]) /\ Delivered(conn.state, req[r], answer[r])
  BY Zenon DEF ClientInv
<1>0. /\ conn.state # "freed" /\ req[r].state = "live" /\ ~req[r].upload
      /\ (~conn.h2 => req[r].cbs > 0) /\ UNCHANGED <<parser, asked, answer>>
  BY Zenon DEF FreeRequest, Live
<1>1. /\ req' \in [Requests -> RequestRecords] /\ req'[r] = RequestFree(req[r])
      /\ \A s \in Requests \ {r} : req'[s] = req[s]
  <2>1. req' = [req EXCEPT ![r] = RequestFree(req[r])] /\ req[r] \in RequestRecords
    BY <1>t DEF FreeRequest, ClientType
  <2>2. RequestFree(req[r]) \in RequestRecords
    BY <2>1, RequestFreeFields, Zenon
  <2> QED
    BY <1>t, <2>1, <2>2, Zenon DEF ClientType
<1>2. /\ req'[r].state = "freed" /\ ~req'[r].user /\ req'[r].stream = req[r].stream
      /\ req'[r].upload = req[r].upload /\ req'[r].cbs = req[r].cbs /\ req'[r].in = req[r].in
  <2>1. req[r] \in RequestRecords
    BY <1>t DEF ClientType
  <2> QED
    BY <1>1, <2>1, RequestFreeFields, Zenon
<1>3. /\ conn' = Without(conn, r) /\ conn'.state = conn.state /\ conn'.h2 = conn.h2 /\ conn'.tls = conn.tls
      /\ conn'.request = conn.request \ {r} /\ conn'.pending = conn.pending \ {r}
      /\ conn' \in ConnRecords
  BY <1>t, WithoutFields, Zenon DEF FreeRequest
<1>4. ClientType' /\ ProtocolInv'
  BY <1>0, <1>1, <1>3, <1>t, Zenon DEF ClientType, ProtocolInv
<1>5. asked # << >> => conn'.request = conn.request
  <2> SUFFICES ASSUME asked # << >> PROVE r \notin conn.request
    BY <1>3, Zenon
  <2>1. PICK s \in Requests : asked = <<s>> /\ conn.request = {s} /\ ~answer[s].ended
    BY <1>t, <1>0, Zenon DEF ReadingInv
  <2>2. ~conn.h2 /\ req[r].cbs = 1
    BY <1>t, <1>0, <2>1 DEF ProtocolInv, Delivered
  <2> QED
    BY <2>1, <2>2, <1>t, Zenon DEF Delivered
<1>6. ReadingInv'
  BY <1>0, <1>3, <1>5, <1>t, Zenon DEF ReadingInv
<1>7. Linked(conn', r, req'[r]) /\ Delivered(conn'.state, req'[r], answer'[r])
  BY <1>0, <1>2, <1>3, <1>t DEF Linked, Delivered
<1> QED
  BY <1>0, <1>1, <1>3, <1>4, <1>6, <1>7, OneRequest, Zenon

\* The handshake is over and ALPN has chosen the protocol: no request of the other
\* protocol is there yet.
LEMMA ConnectedInv ==
    ASSUME ClientInv, NEW h2 \in BOOLEAN, Connected(h2)
    PROVE  ClientInv'
<1>t. ClientType /\ ProtocolInv /\ ReadingInv
  BY DEF ClientInv
<1>1. /\ conn' \in ConnRecords
      /\ conn'.state = "up" /\ conn'.h2 = h2 /\ conn'.tls = conn.tls /\ conn'.request = conn.request
      /\ conn'.pending = conn.pending
  BY <1>t, Zenon DEF Connected, ClientType, ConnRecords
<1>2. conn.state = "connecting" /\ (h2 => conn.tls) /\ UNCHANGED <<req, parser, asked, answer>>
  BY DEF Connected
<1>3. ClientType' /\ ProtocolInv'
  BY <1>1, <1>2, <1>t, Zenon DEF ClientType, ProtocolInv
<1>4. ReadingInv'
  BY <1>1, <1>2, <1>t, Zenon DEF ReadingInv
<1>5. ASSUME NEW r \in Requests
      PROVE  Linked(conn', r, req'[r]) /\ Delivered(conn'.state, req'[r], answer'[r])
  <2>1. Linked(conn, r, req[r]) /\ Delivered(conn.state, req[r], answer[r])
    BY DEF ClientInv
  <2> QED
    BY <2>1, <1>1, <1>2, <1>t, Zenon DEF Linked, Delivered, ProtocolInv
<1> QED
  BY <1>3, <1>4, <1>5, Zenon DEF ClientInv

\* The output is written: htp__connection_writecb_ ends a connection without a
\* request, or nothing happens.
LEMMA WrittenInv ==
    ASSUME ClientInv, Written
    PROVE  ClientInv'
<1>t. ClientType /\ ProtocolInv /\ ReadingInv
  BY DEF ClientInv
<1>1. CASE ConnectionFree(req) /\ UNCHANGED <<parser, asked, answer>>
  BY <1>1, FreeAloneInv, Zenon
<1>2. CASE conn' = [conn EXCEPT !.output = FALSE] /\ UNCHANGED <<req, parser, asked, answer>>
  <2>1. /\ conn' \in ConnRecords
        /\ conn'.state = conn.state /\ conn'.h2 = conn.h2 /\ conn'.tls = conn.tls
        /\ conn'.request = conn.request /\ conn'.pending = conn.pending
    BY <1>2, <1>t, Zenon DEF ClientType, ConnRecords
  <2>2. ClientType' /\ ProtocolInv' /\ ReadingInv'
    BY <1>2, <2>1, <1>t, Zenon DEF ClientType, ProtocolInv, ReadingInv
  <2>3. ASSUME NEW r \in Requests
        PROVE  Linked(conn', r, req'[r]) /\ Delivered(conn'.state, req'[r], answer'[r])
    <3>1. Linked(conn, r, req[r]) /\ Delivered(conn.state, req[r], answer[r])
      BY DEF ClientInv
    <3> QED
      BY <3>1, <2>1, <1>2, Zenon DEF Linked, Delivered
  <2> QED
    BY <2>2, <2>3 DEF ClientInv
<1> QED
  BY <1>1, <1>2, Zenon DEF Written

-----------------------------------------------------------------------------
(* Every step, and the theorems *)

\* Whatever the application, the server and the network do next, ClientInv is kept.
LEMMA ClientStep == ASSUME ClientInv, [Next]_vars PROVE ClientInv'
<1>1. CASE UNCHANGED vars
  BY <1>1 DEF vars, ClientInv, ClientType, ProtocolInv, ReadingInv
<1>2. ASSUME NEW r \in Requests,
             \/ \E m \in Methods, u \in BOOLEAN : MakeRequest(r, m, u)
             \/ FreeRequest(r) \/ Upload(r) \/ RecvRst(r)
      PROVE  ClientInv'
  BY <1>2, MakeRequestInv, FreeRequestInv, UploadInv, RecvRstInv
<1>3. ASSUME NEW r \in Requests, Answers2(r) \/ RecvHeaders(r, "interim", 0, FALSE)
      PROVE  ClientInv'
  <2>1. \A units \in 0 .. MaxUnits : units \in Nat
    BY ClientAssumption
  <2>2. CASE \E frees \in BOOLEAN, units \in 0 .. MaxUnits : RecvHeaders(r, "head", units, frees)
    BY <2>1, <2>2, RecvHeadersInv
  <2>3. CASE \E frees \in BOOLEAN : RecvHeaders(r, "trailers", 0, frees)
    BY <2>3, RecvHeadersInv
  <2>4. CASE RecvHeaders(r, "interim", 0, FALSE)
    BY <2>4, RecvHeadersInv, Zenon
  <2>5. CASE RecvData(r) \/ \E frees \in BOOLEAN : RecvDataEnd(r, frees)
    BY <2>5, RecvDataInv, RecvDataEndInv
  <2> QED
    BY <1>3, <2>2, <2>3, <2>4, <2>5, Zenon DEF Answers2
<1>4. CASE FreeConnection \/ SocketError
  BY <1>4, FreeAloneInv DEF FreeConnection, SocketError
<1>5. CASE Written \/ \E h2 \in BOOLEAN : Connected(h2)
  BY <1>5, WrittenInv, ConnectedInv
<1>6. CASE RecvInterim \/ RecvHeadUntilEof \/ Answers1
  BY <1>6, RecvInterimInv, RecvHeadUntilEofInv, RecvHeadInv, RecvBodyInv, RecvEofInv DEF Answers1
<1>7. CASE \E last \in 0 .. NumRequests, frees \in BOOLEAN : RecvGoaway(last, frees)
  BY <1>7, RecvGoawayInv
<1> QED
  BY <1>1, <1>2, <1>3, <1>4, <1>5, <1>6, <1>7, Zenon DEF Next

\* The invariant holds of every client connection.
THEOREM ClientInvariance == Spec => []ClientInv
<1>1. Init => ClientInv
  BY ClientInit
<1>2. ClientInv /\ [Next]_vars => ClientInv'
  BY ClientStep
<1> QED
  BY <1>1, <1>2, PTL DEF Spec

\* A client connection and its streams point to the requests that exist and to no
\* other, in whatever order evhtp_request_free, evhtp_connection_free, the events
\* of the bufferevent and the callbacks of nghttp2 come.
THEOREM ClientPointersValid == Spec => []ClientReferences
<1>1. ClientInv => ClientReferences
  <2> SUFFICES ASSUME ClientInv PROVE ClientReferences
    OBVIOUS
  <2>1. ClientType /\ ProtocolInv /\ \A r \in Requests : Linked(conn, r, req[r])
    BY Zenon DEF ClientInv
  <2>2. Known \subseteq Requests /\ \A r \in Requests : r \in Known <=> Live(r)
    BY <2>1, Zenon DEF ClientType, ConnRecords, Known, Linked, Live
  <2>3. \A r \in Requests : req[r].user => r \in conn.pending /\ req[r].stream \in {"open", "answered"}
    BY <2>1, Zenon DEF Linked
  <2>4. \A r \in Requests : req[r].upload => Live(r)
    BY <2>1, Zenon DEF Linked, Live
  <2>5. conn.state = "freed" => \A r \in Requests : ~Live(r)
    BY <2>1, <2>2, SMTT(30) DEF ProtocolInv, Known
  <2> QED
    BY <2>2, <2>3, <2>4, <2>5 DEF ClientReferences
<1> QED
  BY <1>1, ClientInvariance, PTL

\* Over HTTP/1 and HTTP/2 a request is given the response to it and nothing else,
\* and its callback is called once, when the response is complete.
THEOREM ResponsesIntact == Spec => []ResponseIntact
<1>1. ASSUME ClientInv, NEW r \in Requests
      PROVE  /\ Len(req[r].in) <= Len(answer[r].sent)
             /\ \A i \in 1 .. Len(req[r].in) : req[r].in[i] = answer[r].sent[i]
             /\ req[r].cbs <= 1
             /\ req[r].cbs = 1 => answer[r].ended /\ req[r].in = answer[r].sent
  <2>1. Delivered(conn.state, req[r], answer[r]) /\ req[r] \in RequestRecords
    BY <1>1 DEF ClientInv, ClientType
  <2>2. req[r].in \in Seq(Requests \X Nat)
    BY <2>1, Zenon DEF RequestRecords
  <2>3. /\ req[r].cbs <= 1
        /\ req[r].cbs = 1 => answer[r].ended /\ req[r].in = answer[r].sent
    BY <2>1 DEF Delivered
  <2>4. CASE req[r].in = answer[r].sent
    BY <2>2, <2>3, <2>4
  <2>5. CASE OneShort(req[r].in, answer[r].sent)
    <3> DEFINE in == req[r].in
    <3>1. PICK u \in Requests \X Nat : answer[r].sent = Append(in, u)
      BY <2>5 DEF OneShort
    <3> HIDE DEF in
    <3>2. in \in Seq(Requests \X Nat)
      BY <2>2 DEF in
    <3>3. Len(in) <= Len(Append(in, u)) /\ \A i \in 1 .. Len(in) : in[i] = Append(in, u)[i]
      BY <3>2
    <3> QED
      BY <2>3, <3>1, <3>3, Zenon DEF in
  <2> QED
    BY <2>1, <2>4, <2>5, Zenon DEF Delivered
<1>2. ClientInv => ResponseIntact
  BY <1>1 DEF ResponseIntact
<1> QED
  BY <1>2, ClientInvariance, PTL

=============================================================================
