-------------------------- MODULE ConnectionProofs --------------------------
(***************************************************************************)
(* RepliesInOrder, BodyIntact, HandoverExact, PauseHolds and               *)
(* PerRequestState of Connection, for any number of messages and any       *)
(* length of their bodies, however the stream is cut into reads.           *)
(***************************************************************************)
EXTENDS Connection, TLAPS

-----------------------------------------------------------------------------
(* Sequences *)

\* What is appended to the output follows what was delivered.
LEMMA AppendConcat ==
    ASSUME NEW S, NEW a \in Seq(S), NEW b \in Seq(S), NEW e \in S
    PROVE  a \o Append(b, e) = Append(a \o b, e) /\ a \o b \in Seq(S)
OBVIOUS

\* A write moves the first item of the output behind what was delivered.
LEMMA FlushConcat ==
    ASSUME NEW S, NEW a \in Seq(S), NEW b \in Seq(S), b # << >>
    PROVE  /\ Append(a, Head(b)) \o Tail(b) = a \o b
           /\ Append(a, Head(b)) \in Seq(S) /\ Tail(b) \in Seq(S)
OBVIOUS

\* The head of a sequence is its first element.
LEMMA HeadFact ==
    ASSUME NEW S, NEW s \in Seq(S), s # << >>
    PROVE  Head(s) = s[1] /\ Len(s) \in Nat \ {0}
OBVIOUS

\* Appending is putting one element behind.
LEMMA AppendIsConcat ==
    ASSUME NEW S, NEW s \in Seq(S), NEW e \in S
    PROVE  s \o <<e>> = Append(s, e)
OBVIOUS

\* What follows the head.
LEMMA TailFacts ==
    ASSUME NEW S, NEW s \in Seq(S), Len(s) > 1
    PROVE  /\ Len(s) \in Nat /\ Len(Tail(s)) = Len(s) - 1 /\ Tail(s) # << >>
           /\ \A i \in 1 .. Len(s) - 1 : Tail(s)[i] = s[i + 1]
           /\ DOMAIN s = 1 .. Len(s) /\ DOMAIN Tail(s) = 1 .. Len(s) - 1
OBVIOUS

\* Nothing put behind a sequence, or before it.
LEMMA ConcatNothing ==
    ASSUME NEW S, NEW a \in Seq(S)
    PROVE  a \o << >> = a /\ << >> \o a = a
OBVIOUS

\* The units of two sequences, one behind the other.
LEMMA ConcatFacts ==
    ASSUME NEW S, NEW a \in Seq(S), NEW b \in Seq(S)
    PROVE  /\ a \o b \in Seq(S) /\ Len(a) \in Nat /\ Len(b) \in Nat
           /\ Len(a \o b) = Len(a) + Len(b)
           /\ \A k \in 1 .. Len(a) : (a \o b)[k] = a[k]
           /\ \A k \in Len(a) + 1 .. Len(a) + Len(b) : (a \o b)[k] = b[k - Len(a)]
OBVIOUS

\* A piece of a sequence.
LEMMA PieceFacts ==
    ASSUME NEW S, NEW s \in Seq(S), NEW a \in Nat, NEW n \in Nat, a + n <= Len(s)
    PROVE  /\ SubSeq(s, a + 1, a + n) \in Seq(S) /\ Len(SubSeq(s, a + 1, a + n)) = n
           /\ \A i \in 1 .. n : SubSeq(s, a + 1, a + n)[i] = s[a + i]
OBVIOUS

\* The same of what is in the input evbuffer.
LEMMA InputPiece ==
    ASSUME NEW a, NEW n, input \in Seq(Tokens) /\ a \in Nat /\ n \in Nat /\ a + n <= Len(input)
    PROVE  /\ SubSeq(input, a + 1, a + n) \in Seq(Tokens)
           /\ Len(SubSeq(input, a + 1, a + n)) = n
           /\ \A i \in 1 .. n : SubSeq(input, a + 1, a + n)[i] = input[a + i]
BY PieceFacts

\* An interim reply or a part of one does not disturb the order.
LEMMA PartAppend ==
    ASSUME NEW s \in Seq(Items), NEW e \in Items, ~IsFinal(e), NEW n \in Nat
    PROVE  /\ InOrder(s) => InOrder(Append(s, e))
           /\ Finals(s, n) => Finals(Append(s, e), n)
<1>1. /\ Len(s) \in Nat /\ Len(Append(s, e)) = Len(s) + 1 /\ Append(s, e)[Len(s) + 1] = e
      /\ \A i \in 1 .. Len(s) : Append(s, e)[i] = s[i]
      /\ DOMAIN s = 1 .. Len(s) /\ DOMAIN Append(s, e) = 1 .. Len(s) + 1
  OBVIOUS
<1> DEFINE t == Append(s, e)
<1> HIDE DEF t
<1>2. InOrder(s) => InOrder(t)
  BY <1>1 DEF t, InOrder
<1>3. Finals(s, n) => Finals(t, n)
  BY <1>1 DEF t, Finals
<1> QED
  BY <1>2, <1>3 DEF t

\* The final reply that comes next keeps the order.
LEMMA FinalAppend ==
    ASSUME NEW n \in Nat, NEW s \in Seq(Items), n + 1 \in Msgs, InOrder(s), Finals(s, n)
    PROVE  InOrder(Append(s, Item(n + 1, "final"))) /\ Finals(Append(s, Item(n + 1, "final")), n + 1)
<1> DEFINE e == Item(n + 1, "final")
           t == Append(s, e)
<1>0. e \in Items /\ e.msg = n + 1 /\ IsFinal(e) /\ e = Item(n + 1, "final")
  BY DEF Items, Item, IsFinal
<1>1. /\ Len(s) \in Nat /\ Len(t) = Len(s) + 1 /\ t[Len(s) + 1] = e
      /\ \A i \in 1 .. Len(s) : t[i] = s[i] /\ s[i] \in Items
      /\ DOMAIN s = 1 .. Len(s) /\ DOMAIN t = 1 .. Len(s) + 1
  BY <1>0
<1> HIDE DEF t, e
<1>m. \A i \in 1 .. Len(s) : s[i].msg \in Nat
  BY <1>1 DEF Items, Msgs
<1>2. \A m \in 1 .. n : \E i \in 1 .. Len(s) : s[i] = Item(m, "final")
  BY <1>1 DEF Finals
<1>3. \A i \in 1 .. Len(s) : IsFinal(s[i]) => s[i].msg < n + 1
  BY <1>1, <1>m DEF Finals
<1>4. InOrder(t)
  <2> SUFFICES ASSUME NEW i \in 1 .. Len(s) + 1, IsFinal(t[i])
               PROVE  /\ \A j \in 1 .. i - 1 : IsFinal(t[j]) => t[j].msg < t[i].msg
                      /\ \A m \in 1 .. t[i].msg - 1 : \E j \in 1 .. i - 1 : t[j] = Item(m, "final")
    BY <1>1 DEF InOrder
  <2>1. CASE i = Len(s) + 1
    <3>1. t[i].msg = n + 1 /\ i - 1 = Len(s) /\ (n + 1) - 1 = n
      BY <2>1, <1>0, <1>1
    <3> QED
      BY <3>1, <1>1, <1>2, <1>3, Zenon
  <2>2. CASE i \in 1 .. Len(s)
    <3>1. t[i] = s[i] /\ IsFinal(s[i]) /\ \A j \in 1 .. i - 1 : t[j] = s[j]
      BY <2>2, <1>1
    <3> QED
      BY <3>1, <2>2, <1>1 DEF InOrder
  <2> QED
    BY <2>1, <2>2, <1>1
<1>5. Finals(t, n + 1)
  <2>1. \A i \in DOMAIN t : IsFinal(t[i]) => t[i].msg <= n + 1
    BY <1>0, <1>1, <1>m, <1>3
  <2>2. \A m \in 1 .. n + 1 : \E i \in DOMAIN t : t[i] = Item(m, "final")
    BY <1>0, <1>1, <1>2
  <2> QED
    BY <2>1, <2>2 DEF Finals
<1> QED
  BY <1>4, <1>5 DEF t, e

\* No body is the first zero units of any.
LEMMA HoldsNothing == ASSUME NEW m PROVE Holds(<< >>, m, 0)
BY DEF Holds

\* The places in the second of two sequences one behind the other.
LEMMA SecondPart ==
    ASSUME NEW n \in Nat, NEW l \in Nat
    PROVE  /\ \A k \in n + 1 .. n + l : k - n \in 1 .. l /\ n + (k - n) = k
           /\ \A k \in 1 .. n + l : k \in 1 .. n \/ k \in n + 1 .. n + l
OBVIOUS

\* The units that follow those a sequence holds.
LEMMA HoldsMore ==
    ASSUME NEW s \in Seq(Tokens), NEW t \in Seq(Tokens), NEW m, NEW n \in Nat,
           Holds(s, m, n), \A k \in 1 .. Len(t) : t[k] = [msg |-> m, part |-> n + k]
    PROVE  Holds(s \o t, m, n + Len(t))
<1> DEFINE u == s \o t
<1>0. Len(s) = n
  BY DEF Holds
<1>a. /\ Len(t) \in Nat /\ Len(u) = Len(s) + Len(t)
      /\ \A k \in 1 .. Len(s) : u[k] = s[k]
      /\ \A k \in Len(s) + 1 .. Len(s) + Len(t) : u[k] = t[k - Len(s)]
  BY ConcatFacts, Zenon
<1> HIDE DEF u
<1>1. /\ Len(s) = n /\ Len(t) \in Nat /\ Len(u) = n + Len(t)
      /\ \A k \in 1 .. n : u[k] = s[k]
      /\ \A k \in n + 1 .. n + Len(t) : u[k] = t[k - n]
  BY <1>0, <1>a, Zenon
<1>2. \A k \in n + 1 .. n + Len(t) : k - n \in 1 .. Len(t) /\ n + (k - n) = k
  BY <1>1, SecondPart, Zenon
<1>3. \A k \in 1 .. n : u[k] = [msg |-> m, part |-> k]
  BY <1>1 DEF Holds
<1>4. \A k \in n + 1 .. n + Len(t) : u[k] = [msg |-> m, part |-> k]
  BY <1>1, <1>2
<1>5. \A k \in 1 .. n + Len(t) : k \in 1 .. n \/ k \in n + 1 .. n + Len(t)
  BY <1>1, SecondPart, Zenon
<1> QED
  BY <1>1, <1>3, <1>4, <1>5 DEF Holds, u

\* A whole body, as BodyIntact writes it.
LEMMA HoldsAll ==
    ASSUME NEW s \in Seq(Tokens), NEW m \in Msgs, Holds(s, m, Body[m])
    PROVE  s = [k \in 1 .. Body[m] |-> [msg |-> m, part |-> k]]
BY ConnectionAssumption DEF Holds

-----------------------------------------------------------------------------
(* The state *)

Conns == [state : {"live", "draining", "freed", "owned"},
          flags : SUBSET {"OWNER", "PAUSED", "WAITING", "FREE_CONN", "ERROR", "KEEPALIVE"},
          htp : Vhosts \cup {Main}, reading : BOOLEAN, writing : BOOLEAN,
          resume_ev : BOOLEAN, scratch : Seq(Tokens),
          body_bytes_read : Nat, num_requests : Nat]

Requests == [msg : Msgs \cup {0}, status : {"OK", "PAUSE", "ERROR", "TOO_LONG"},
             finished : BOOLEAN, keepalive : BOOLEAN,
             htp : Vhosts \cup {Main}, buf : Seq(Tokens), cb : CbActions \cup {"none"}]

Parsers == [state : {"start", "head", "body", "complete", "error"},
            paused : BOOLEAN, left : Nat]

Callbacks == [msg : Msgs, htp : Vhosts \cup {Main}, body : Seq(Tokens)]

\* TypeOK with names for its sets.
LEMMA TypeParts ==
    TypeOK <=> /\ c \in Conns /\ req \in Requests /\ p \in Parsers
               /\ run \in [pc : {"loop", "run", "done"}, off : 0 .. Len(input)]
               /\ input \in Seq(Tokens) /\ next \in 0 .. Len(Stream) /\ closed \in BOOLEAN
               /\ output \in Seq(Items) /\ delivered \in Seq(Items) /\ cbs \in Seq(Callbacks)
BY Zenon DEF TypeOK, Conns, Requests, Parsers, Callbacks

\* Where the head and the body of a message are in the client's stream.
LEMMA StreamFacts ==
    ASSUME NEW m \in Msgs
    PROVE  /\ m \in Nat \ {0} /\ m <= NumMsgs /\ NumMsgs \in Nat
           /\ Start[m] \in Nat /\ Start[m + 1] \in Nat /\ Body[m] \in Nat
           /\ Start[m + 1] = Start[m] + Body[m] + 1 /\ Start[m + 1] <= Len(Stream)
           /\ Stream[Start[m] + 1] = [msg |-> m, part |-> 0]
           /\ \A k \in 1 .. Body[m] : Stream[Start[m] + 1 + k] = [msg |-> m, part |-> k]
<1>1. /\ m \in 1 .. NumMsgs /\ NumMsgs \in Nat /\ m \in 1 .. NumMsgs + 1 /\ m + 1 \in 1 .. NumMsgs + 1
      /\ Body[m] \in Nat
  BY ConnectionAssumption DEF Msgs
<1>2. Start[m] \in Nat /\ Start[m + 1] \in Nat
  BY <1>1, StreamAssumption, Zenon
<1>3. /\ Start[m + 1] = Start[m] + Body[m] + 1 /\ Start[m + 1] <= Len(Stream)
      /\ \A k \in 0 .. Body[m] : Stream[Start[m] + 1 + k] = [msg |-> m, part |-> k]
  BY StreamAssumption
<1>4. Stream[Start[m] + 1 + 0] = [msg |-> m, part |-> 0] /\ Start[m] + 1 + 0 = Start[m] + 1
  BY <1>1, <1>2, <1>3
<1>5. \A k \in 1 .. Body[m] : k \in 0 .. Body[m]
  BY <1>1
<1> QED
  BY <1>1, <1>2, <1>3, <1>4, <1>5

\* The same of the next state.
LEMMA TypeStep ==
    ASSUME c' \in Conns, req' \in Requests, p' \in Parsers,
           run' \in [pc : {"loop", "run", "done"}, off : 0 .. Len(input')],
           input' \in Seq(Tokens), next' \in 0 .. Len(Stream), closed' \in BOOLEAN,
           output' \in Seq(Items), delivered' \in Seq(Items), cbs' \in Seq(Callbacks)
    PROVE  TypeOK'
BY Zenon DEF TypeOK, Conns, Requests, Parsers, Callbacks

\* The numbers in the state.
LEMMA Numbers ==
    ASSUME TypeOK
    PROVE  /\ next \in Nat /\ next <= Len(Stream) /\ Len(Stream) \in Nat
           /\ Len(input) \in Nat /\ run.off \in Nat /\ run.off <= Len(input)
           /\ Len(cbs) \in Nat /\ NumMsgs \in Nat
<1>1. /\ run \in [pc : {"loop", "run", "done"}, off : 0 .. Len(input)] /\ input \in Seq(Tokens)
      /\ next \in 0 .. Len(Stream) /\ cbs \in Seq(Callbacks)
  BY TypeParts, Zenon
<1>2. Len(Stream) \in Nat /\ NumMsgs \in Nat
  BY ConnectionAssumption, StreamAssumption
<1> QED
  BY <1>1, <1>2

\* The records everything starts from.
LEMMA Initials ==
    /\ Conn \in Conns /\ NoReq \in Requests /\ Parser \in Parsers
    /\ NoReq.msg = 0 /\ NoReq.cb = "none" /\ NoReq.finished = FALSE /\ NoReq.status = "OK"
<1>1. << >> \in Seq(Tokens)
  OBVIOUS
<1>2. Conn \in Conns
  BY <1>1 DEF Conn, Conns
<1>3. NoReq \in Requests
  BY <1>1 DEF NoReq, Requests
<1> QED
  BY <1>2, <1>3 DEF Parser, Parsers, NoReq

\* The loop's state between callbacks.
LEMMA LoopFields ==
    Loop.pc = "loop" /\ Loop.off = 0 /\ \A n \in Nat : Loop \in [pc : {"loop", "run", "done"}, off : 0 .. n]
BY DEF Loop

\* A step that leaves the order of the replies and what is due as they are.
LEMMA ReplyFrame ==
    ASSUME AnswerInv, RepliesInOrder, cbs' = cbs,
           delivered' \o output' = delivered \o output,
           c'.state = "live" => c.state = "live" /\ (Unanswered' <=> Unanswered)
    PROVE  AnswerInv' /\ RepliesInOrder'
<1> DEFINE a == delivered \o output
           b == delivered' \o output'
<1>1. a = b
  OBVIOUS
<1>2. RepliesInOrder' <=> InOrder(b)
  BY DEF RepliesInOrder, InOrder, IsFinal, Item
<1>3. AnswerInv' <=> (c'.state = "live" => Finals(b, IF Unanswered' THEN Len(cbs') - 1 ELSE Len(cbs')))
  BY DEF AnswerInv, Finals, IsFinal, Item
<1>4. InOrder(a) /\ (c.state = "live" => Finals(a, IF Unanswered THEN Len(cbs) - 1 ELSE Len(cbs)))
  BY DEF AnswerInv, RepliesInOrder
<1> HIDE DEF a, b
<1> QED
  BY <1>1, <1>2, <1>3, <1>4

\* A step that moves neither the parser nor the request it works on.
Stays ==
    /\ p' = p /\ c'.scratch = c.scratch /\ c'.state = c.state
    /\ Parsed' = Parsed /\ cbs' = cbs
    /\ req'.msg = req.msg /\ req'.cb = req.cb /\ req'.buf = req.buf
    /\ req.cb = "none" => req'.finished = req.finished
    /\ req = NoReq => req' = NoReq
    /\ c.state = "live" /\ req.msg # 0 /\ req.cb = "none" /\ p.state = "error" =>
         run'.pc # "loop" /\ req'.status = req.status

LEMMA ParserFrame == ASSUME ParserInv, Stays PROVE ParserInv'
<1> SUFFICES ASSUME c'.state = "live"
             PROVE  /\ req'.msg = 0 => NoRequestInv'
                    /\ req'.msg # 0 /\ req'.cb = "none" => ParsingInv'
                    /\ req'.msg # 0 /\ req'.cb # "none" => DispatchedInv'
  BY DEF ParserInv
<1>1. c.state = "live" /\ req'.msg = req.msg /\ req'.cb = req.cb
  BY DEF Stays
<1>2. ASSUME req.msg = 0 PROVE NoRequestInv'
  BY <1>1, <1>2 DEF ParserInv, Stays, NoRequestInv, NoReq, Parser
<1>3. ASSUME req.msg # 0, req.cb = "none" PROVE ParsingInv'
  <2>1. ParsingInv
    BY <1>1, <1>3 DEF ParserInv
  <2> QED
    BY <1>1, <1>3, <2>1, Zenon DEF ParsingInv, Stays, Holds
<1>4. ASSUME req.msg # 0, req.cb # "none" PROVE DispatchedInv'
  BY <1>1, <1>4 DEF ParserInv, Stays, DispatchedInv
<1> QED
  BY <1>1, <1>2, <1>3, <1>4

\* What evbuffer_drain leaves of the input.
LEMMA DrainedFacts ==
    ASSUME TypeOK
    PROVE  /\ Drained \in Seq(Tokens) /\ Len(Drained) = Len(input) - run.off
           /\ \A i \in 1 .. Len(input) - run.off : Drained[i] = input[run.off + i]
<1>1. input \in Seq(Tokens) /\ Len(input) \in Nat /\ run.off \in Nat /\ run.off <= Len(input)
  BY TypeParts, Numbers, Zenon
<1> HIDE DEF Tokens
<1> QED
  BY <1>1 DEF Drained

\* The input stays the end of what the client has sent.
LEMMA InputStep ==
    ASSUME TypeOK, InputInv, next' = next, input' = input \/ input' = Drained
    PROVE  InputInv' /\ input' \in Seq(Tokens)
<1>1. CASE input' = input
  BY <1>1, TypeParts DEF InputInv
<1>2. CASE input' = Drained
  <2>1. next \in Nat /\ Len(input) \in Nat /\ run.off \in Nat /\ run.off <= Len(input)
    BY Numbers
  <2>2. /\ input' \in Seq(Tokens) /\ Len(input') = Len(input) - run.off
        /\ \A i \in 1 .. Len(input) - run.off : input'[i] = input[run.off + i]
    BY <1>2, DrainedFacts, Zenon
  <2>3. /\ Len(input) <= next
        /\ \A i \in 1 .. Len(input) : input[i] = Stream[next - Len(input) + i]
    BY DEF InputInv
  <2>4. Len(input') <= next' /\ \A i \in 1 .. Len(input') : input'[i] = Stream[next' - Len(input') + i]
    <3>1. Len(input') <= next'
      BY <2>1, <2>2, <2>3
    <3>2. ASSUME NEW i \in 1 .. Len(input') PROVE input'[i] = Stream[next' - Len(input') + i]
      <4>1. run.off + i \in 1 .. Len(input) /\ i \in 1 .. Len(input) - run.off
        BY <2>1, <2>2
      <4>2. next - Len(input) + (run.off + i) = next' - Len(input') + i
        BY <2>1, <2>2
      <4> QED
        BY <2>2, <2>3, <4>1, <4>2
    <3> QED
      BY <3>1, <3>2
  <2> QED
    BY <2>2, <2>4 DEF InputInv
<1> QED
  BY <1>1, <1>2

\* A step without a callback.
LEMMA CbsFrame == ASSUME CbsInv, cbs' = cbs PROVE CbsInv'
BY DEF CbsInv, Holds

\* evhtp_connection_free, from whichever callback.
LEMMA FreeStep ==
    ASSUME ConnInv, NEW out, NEW w \in BOOLEAN, FreeConn(out, w),
           input' = input \/ input' = Drained, cbs' = cbs, next' = next, closed' = closed,
           delivered' \in Seq(Items), output' \in Seq(Items),
           delivered' \o output' = delivered \o output
    PROVE  ConnInv'
<1>0. TypeOK /\ PauseInv /\ InputInv /\ CbsInv /\ AnswerInv /\ RepliesInOrder
  BY DEF ConnInv
<1>1. /\ c' = [Conn EXCEPT !.state = IF out = << >> THEN "freed" ELSE "draining",
                           !.reading = FALSE, !.writing = w]
      /\ req' = NoReq /\ p' = Parser /\ run' = Loop
  BY DEF FreeConn
<1>2. /\ c' \in Conns /\ c'.state \in {"freed", "draining"} /\ c'.flags = {"OWNER"} /\ c'.resume_ev = FALSE
  <2>1. Conn \in Conns
    BY Initials
  <2>2. c' \in Conns
    BY <1>1, <2>1, Zenon DEF Conns
  <2> QED
    BY <1>1, <2>2 DEF Conn
<1>3. InputInv' /\ input' \in Seq(Tokens)
  BY <1>0, InputStep
<1>4. TypeOK'
  <2>1. Len(input') \in Nat /\ next' \in 0 .. Len(Stream) /\ closed' \in BOOLEAN /\ cbs' \in Seq(Callbacks)
    BY <1>0, <1>3, TypeParts
  <2> QED
    BY <1>1, <1>2, <1>3, <2>1, Initials, LoopFields, TypeStep, Zenon
<1>5. PauseInv'
  BY <1>1, <1>2, LoopFields DEF PauseInv
<1>6. AnswerInv' /\ RepliesInOrder'
  BY <1>0, <1>2, ReplyFrame
<1>7. ParserInv' /\ HandoverExact'
  BY <1>2 DEF ParserInv, HandoverExact
<1> QED
  BY <1>0, <1>3, <1>4, <1>5, <1>6, <1>7, CbsFrame DEF ConnInv

-----------------------------------------------------------------------------
(* The rest of htp__connection_readcb_ *)

\* The parser's position depends on three of the variables.
LEMMA ParsedFrame ==
    ASSUME TypeOK, next' = next,
           \/ input' = input /\ run'.off = run.off
           \/ input' = Drained /\ run'.off = 0
    PROVE  Parsed' = Parsed
<1>1. next \in Nat /\ Len(input) \in Nat /\ run.off \in Nat /\ run.off <= Len(input)
  BY Numbers
<1>2. Len(Drained) = Len(input) - run.off
  BY DrainedFacts
<1> HIDE DEF Drained
<1> QED
  BY <1>1, <1>2 DEF Parsed

\* htparser_run returns.
LEMMA RunOutInv == ASSUME ConnInv, RunOut PROVE ConnInv'
<1>0. TypeOK /\ PauseInv /\ InputInv /\ CbsInv /\ ParserInv /\ AnswerInv /\ RepliesInOrder /\ HandoverExact
  BY DEF ConnInv
<1>1. /\ run.pc = "run" /\ run' = [run EXCEPT !.pc = "done"]
      /\ UNCHANGED <<c, req, p, input, output, next, closed, delivered, cbs>>
  BY DEF RunOut
<1>2. run'.pc = "done" /\ run'.off = run.off /\ run' \in [pc : {"loop", "run", "done"}, off : 0 .. Len(input)]
  BY <1>0, <1>1, TypeParts
<1>3. TypeOK'
  BY <1>0, <1>1, <1>2, TypeParts, TypeStep
<1>4. PauseInv'
  BY <1>0, <1>1, <1>2 DEF PauseInv
<1>5. Stays
  BY <1>0, <1>1, <1>2, ParsedFrame DEF Stays
<1>6. ParserInv' /\ CbsInv' /\ InputInv' /\ HandoverExact'
  BY <1>0, <1>1, <1>5, ParserFrame, CbsFrame, InputStep DEF HandoverExact
<1>7. AnswerInv' /\ RepliesInOrder'
  BY <1>0, <1>1, ReplyFrame DEF Unanswered
<1> QED
  BY <1>3, <1>4, <1>6, <1>7 DEF ConnInv

\* The connection goes to the application with the bytes behind the request.
LEMMA ReadHandoverInv == ASSUME ConnInv, ReadHandover PROVE ConnInv'
<1>0. TypeOK /\ PauseInv /\ InputInv /\ CbsInv /\ ParserInv /\ AnswerInv /\ RepliesInOrder
  BY DEF ConnInv
<1>1. /\ run.pc = "done" /\ "OWNER" \notin c.flags /\ input' = Drained
      /\ c' = [Conn EXCEPT !.state = "owned", !.reading = FALSE]
      /\ req' = NoReq /\ p' = Parser /\ run' = Loop
      /\ UNCHANGED <<output, next, closed, delivered, cbs>>
  BY DEF ReadHandover
<1>2. c' \in Conns /\ c'.state = "owned" /\ c'.flags = {"OWNER"} /\ c'.resume_ev = FALSE
  <2>1. c' \in Conns
    BY <1>1, Initials, Zenon DEF Conns
  <2> QED
    BY <1>1, <2>1 DEF Conn
<1>3. InputInv' /\ input' \in Seq(Tokens)
  BY <1>0, <1>1, InputStep
<1>4. TypeOK'
  <2>1. Len(input') \in Nat /\ next' \in 0 .. Len(Stream) /\ closed' \in BOOLEAN
    BY <1>0, <1>1, <1>3, TypeParts
  <2>2. output' \in Seq(Items) /\ delivered' \in Seq(Items) /\ cbs' \in Seq(Callbacks)
    BY <1>0, <1>1, TypeParts
  <2> QED
    BY <1>1, <1>2, <1>3, <2>1, <2>2, Initials, LoopFields, TypeStep, Zenon
<1>5. PauseInv'
  BY <1>1, <1>2, LoopFields DEF PauseInv
<1>6. AnswerInv' /\ RepliesInOrder'
  BY <1>0, <1>1, <1>2, ReplyFrame
<1>7. HandoverExact'
  <2>1. DispatchedInv
    <3>1. c.state = "live" /\ req.cb = "own"
      BY <1>0, <1>1 DEF PauseInv
    <3>2. req.msg # 0
      BY <1>0, <3>1, Initials DEF ParserInv, NoRequestInv
    <3> QED
      BY <1>0, <3>1, <3>2 DEF ParserInv
  <2> DEFINE k == Len(cbs)
  <2>2. Parsed = Start[k + 1] /\ k \in Msgs /\ cbs[k].msg = k
    <3>1. req \in Requests /\ k \in Nat /\ req.msg # 0
      <4>1. req \in Requests /\ k \in Nat
        BY <1>0, TypeParts, Numbers
      <4>2. req.cb = "own" /\ c.state = "live"
        BY <1>0, <1>1 DEF PauseInv
      <4> QED
        BY <1>0, <4>1, <4>2, Initials DEF ParserInv, NoRequestInv
    <3>2. k \in Msgs
      BY <2>1, <3>1 DEF DispatchedInv, Requests
    <3> QED
      BY <1>0, <2>1, <3>2 DEF DispatchedInv, CbsInv, Msgs
  <2>3. /\ next \in Nat /\ next <= Len(Stream) /\ Len(input) \in Nat /\ run.off \in Nat
        /\ run.off <= Len(input) /\ Len(input) <= next /\ Start[k + 1] \in Nat
    <3>1. Parsed \in Nat
      BY <1>0, Numbers DEF InputInv, Parsed
    <3> QED
      BY <1>0, <2>2, <3>1, Numbers DEF InputInv
  <2>4. Start[k + 1] + Len(Drained) = next
    <3>1. Len(Drained) = Len(input) - run.off
      BY <1>0, DrainedFacts
    <3> QED
      BY <2>2, <2>3, <3>1 DEF Parsed
  <2>5. input' = Drained /\ next' = next /\ cbs' = cbs
    BY <1>1
  <2>6. \A i \in 1 .. Len(Drained) : Drained[i] = Stream[next - Len(Drained) + i]
    BY <1>3, <2>5, Zenon DEF InputInv
  <2>7. next - Len(Drained) = Start[k + 1]
    <3>1. Len(Drained) \in Nat
      BY <1>3, <2>5
    <3> QED
      BY <2>3, <2>4, <3>1
  <2>8. cbs[Len(cbs)].msg + 1 = k + 1
    BY <2>2, Zenon
  <2>9. \A i \in 1 .. Len(Drained) : Drained[i] = Stream[Start[k + 1] + i]
    BY <2>6, <2>7, Zenon
  <2> QED
    BY <2>4, <2>5, <2>8, <2>9, Zenon DEF HandoverExact
<1> QED
  BY <1>0, <1>1, <1>2, <1>3, <1>4, <1>5, <1>6, <1>7, CbsFrame DEF ConnInv, ParserInv

\* A step that leaves the parser, the stream and the order of the replies alone.
LEMMA QuietStep ==
    ASSUME ConnInv, Stays, TypeOK', PauseInv', c.state # "owned", next' = next,
           input' = input \/ input' = Drained,
           delivered' \o output' = delivered \o output, Unanswered' <=> Unanswered
    PROVE  ConnInv'
<1>0. TypeOK /\ InputInv /\ CbsInv /\ ParserInv /\ AnswerInv /\ RepliesInOrder
  BY DEF ConnInv
<1>1. c'.state = c.state /\ cbs' = cbs
  BY DEF Stays
<1>2. InputInv' /\ CbsInv' /\ ParserInv'
  BY <1>0, <1>1, InputStep, CbsFrame, ParserFrame
<1>3. AnswerInv' /\ RepliesInOrder'
  BY <1>0, <1>1, ReplyFrame
<1>4. HandoverExact'
  BY <1>1 DEF HandoverExact
<1> QED
  BY <1>2, <1>3, <1>4 DEF ConnInv

\* A body over max_body_size, or an error, ends the connection.
LEMMA ReadFreesInv == ASSUME ConnInv, ReadTooLong \/ ReadError PROVE ConnInv'
<1>0. TypeOK
  BY DEF ConnInv
<1>1. /\ FreeConn(output, c.writing)
      /\ input' = input \/ input' = Drained
      /\ UNCHANGED <<output, next, closed, delivered, cbs>>
  BY DEF ReadTooLong, ReadError
<1>2. c \in Conns /\ output \in Seq(Items) /\ delivered \in Seq(Items)
  BY <1>0, TypeParts
<1>3. c.writing \in BOOLEAN
  BY <1>2 DEF Conns
<1>4. output' \in Seq(Items) /\ delivered' \in Seq(Items) /\ delivered' \o output' = delivered \o output
  BY <1>1, <1>2
<1> QED
  BY <1>1, <1>3, <1>4, FreeStep

\* A request that a hook or its callback paused pauses the connection.
LEMMA ReadPauseInv == ASSUME ConnInv, ReadPause PROVE ConnInv'
<1>0. TypeOK /\ PauseInv /\ ParserInv
  BY DEF ConnInv
<1>1. /\ run.pc = "done" /\ "OWNER" \in c.flags /\ req.status = "PAUSE"
      /\ c' = [c EXCEPT !.flags = @ \cup {"PAUSED"}, !.reading = FALSE]
      /\ input' = Drained /\ run' = Loop
      /\ UNCHANGED <<req, p, output, next, closed, delivered, cbs>>
  BY DEF ReadPause
<1>2. c \in Conns /\ c.state = "live"
  BY <1>0, <1>1, TypeParts DEF PauseInv
<1>3. /\ c' \in Conns /\ c'.flags = c.flags \cup {"PAUSED"} /\ c'.reading = FALSE
      /\ c'.state = c.state /\ c'.scratch = c.scratch /\ c'.resume_ev = c.resume_ev
  BY <1>1, <1>2, Zenon DEF Conns
<1>4. input' \in Seq(Tokens) /\ Len(input') \in Nat
  BY <1>0, <1>1, DrainedFacts
<1>5. TypeOK'
  <2>1. /\ req' \in Requests /\ p' \in Parsers /\ next' \in 0 .. Len(Stream) /\ closed' \in BOOLEAN
        /\ output' \in Seq(Items) /\ delivered' \in Seq(Items) /\ cbs' \in Seq(Callbacks)
    BY <1>0, <1>1, TypeParts
  <2> QED
    BY <1>1, <1>3, <1>4, <2>1, LoopFields, TypeStep
<1>6. PauseInv'
  BY <1>0, <1>1, <1>2, <1>3, LoopFields DEF PauseInv
<1>7. Stays
  <2>1. Parsed' = Parsed
    BY <1>0, <1>1, LoopFields, ParsedFrame
  <2>2. ~(req.msg # 0 /\ req.cb = "none" /\ p.state = "error")
    BY <1>0, <1>1, <1>2 DEF ParserInv, ParsingInv
  <2> QED
    BY <1>1, <1>3, <2>1, <2>2 DEF Stays
<1> QED
  BY <1>1, <1>2, <1>5, <1>6, <1>7, QuietStep DEF Unanswered

\* A read callback that has nothing left to do: no connection is paused there.
LEMMA ReadReturnInv == ASSUME ConnInv, ReadReturn PROVE ConnInv'
<1>0. TypeOK /\ PauseInv /\ ParserInv
  BY DEF ConnInv
<1>1. /\ run.pc = "done" /\ "OWNER" \in c.flags /\ req.status # "PAUSE" /\ p.state # "error"
      /\ c' = IF Drained # << >> THEN Resumed(c) ELSE c
      /\ input' = Drained /\ run' = Loop
      /\ UNCHANGED <<req, p, output, next, closed, delivered, cbs>>
  BY DEF ReadReturn
<1>2. "PAUSED" \notin c.flags /\ c.state = "live"
  BY <1>0, <1>1 DEF PauseInv
<1>3. c' = c
  BY <1>1, <1>2 DEF Resumed
<1>4. input' \in Seq(Tokens) /\ Len(input') \in Nat
  BY <1>0, <1>1, DrainedFacts
<1>5. TypeOK'
  <2>1. /\ c' \in Conns /\ req' \in Requests /\ p' \in Parsers /\ next' \in 0 .. Len(Stream) /\ closed' \in BOOLEAN
        /\ output' \in Seq(Items) /\ delivered' \in Seq(Items) /\ cbs' \in Seq(Callbacks)
    BY <1>0, <1>1, <1>3, TypeParts, Zenon
  <2> QED
    BY <1>1, <1>4, <2>1, LoopFields, TypeStep
<1>6. PauseInv'
  BY <1>0, <1>1, <1>2, <1>3, LoopFields DEF PauseInv
<1>7. Stays
  <2>1. Parsed' = Parsed
    BY <1>0, <1>1, LoopFields, ParsedFrame
  <2> QED
    BY <1>1, <1>3, <2>1 DEF Stays
<1> QED
  BY <1>1, <1>2, <1>5, <1>6, <1>7, QuietStep DEF Unanswered

-----------------------------------------------------------------------------
(* htp__connection_writecb_ *)

\* Writing everything changes neither the replies nor their order.
LEMMA FlushFacts ==
    ASSUME TypeOK, FlushLast
    PROVE  /\ run.pc = "loop" /\ c.writing /\ output # << >> /\ output' = << >>
           /\ output' \in Seq(Items) /\ delivered' \in Seq(Items)
           /\ delivered' \o output' = delivered \o output
<1>1. output \in Seq(Items) /\ delivered \in Seq(Items)
  BY TypeParts
<1>2. run.pc = "loop" /\ c.writing /\ output # << >> /\ delivered' = delivered \o output /\ output' = << >>
  BY DEF FlushLast
<1>3. delivered \o output \in Seq(Items) /\ << >> \in Seq(Items)
  BY <1>1, ConcatFacts
<1> QED
  BY <1>2, <1>3, ConcatNothing

\* A write that leaves something in the buffer.
LEMMA FlushInv == ASSUME ConnInv, Flush PROVE ConnInv'
<1>0. TypeOK /\ PauseInv /\ ParserInv
  BY DEF ConnInv
<1>1. /\ run.pc = "loop" /\ c.state \in {"live", "draining"} /\ Len(output) > 1
      /\ delivered' = Append(delivered, Head(output)) /\ output' = Tail(output)
      /\ UNCHANGED <<c, req, p, run, input, next, closed, cbs>>
  BY DEF Flush
<1>2. output \in Seq(Items) /\ delivered \in Seq(Items)
  BY <1>0, TypeParts
<1>3. output # << >>
  BY <1>1
<1>4. output' \in Seq(Items) /\ delivered' \in Seq(Items) /\ delivered' \o output' = delivered \o output
  BY <1>1, <1>2, <1>3, FlushConcat
<1>5. TypeOK'
  BY <1>0, <1>1, <1>4, TypeParts, TypeStep
<1>6. PauseInv'
  BY <1>0, <1>1 DEF PauseInv
<1>7. Stays
  <2>1. Parsed' = Parsed
    BY <1>0, <1>1, ParsedFrame, Zenon
  <2>2. c.state = "live" => ~(req.msg # 0 /\ req.cb = "none" /\ p.state = "error")
    BY <1>0, <1>1 DEF ParserInv, ParsingInv
  <2> QED
    BY <1>1, <2>1, <2>2 DEF Stays
<1> QED
  BY <1>1, <1>4, <1>5, <1>6, <1>7, QuietStep DEF Unanswered

\* freecb: the last of the output of a freed connection is written.
LEMMA WriteDrainingInv == ASSUME ConnInv, WriteDraining PROVE ConnInv'
<1>0. TypeOK /\ PauseInv /\ InputInv /\ CbsInv /\ AnswerInv /\ RepliesInOrder
  BY DEF ConnInv
<1>1. /\ FlushLast /\ c.state = "draining" /\ c' = [c EXCEPT !.state = "freed"]
      /\ UNCHANGED <<req, p, run, input, next, closed, cbs>>
  BY DEF WriteDraining
<1>2. /\ run.pc = "loop" /\ output' \in Seq(Items) /\ delivered' \in Seq(Items)
      /\ delivered' \o output' = delivered \o output
  BY <1>0, <1>1, FlushFacts
<1>3. c \in Conns
  BY <1>0, TypeParts
<1>4. /\ c' \in Conns /\ c'.state = "freed" /\ c'.flags = c.flags /\ c'.reading = c.reading
      /\ c'.resume_ev = c.resume_ev
  BY <1>1, <1>3 DEF Conns
<1>5. TypeOK'
  BY <1>0, <1>1, <1>2, <1>4, TypeParts, TypeStep
<1>6. PauseInv'
  BY <1>0, <1>1, <1>4, Zenon DEF PauseInv
<1>7. ParserInv' /\ HandoverExact'
  BY <1>4 DEF ParserInv, HandoverExact
<1>8. InputInv' /\ CbsInv' /\ AnswerInv' /\ RepliesInOrder'
  BY <1>0, <1>1, <1>2, <1>4, InputStep, CbsFrame, ReplyFrame, Zenon
<1> QED
  BY <1>5, <1>6, <1>7, <1>8 DEF ConnInv

\* Between callbacks no request is stuck in a failed parse.
LEMMA IdleParser ==
    ASSUME ConnInv, run.pc = "loop", c.state = "live"
    PROVE  ~(req.msg # 0 /\ req.cb = "none" /\ p.state = "error")
BY DEF ConnInv, ParserInv, ParsingInv

\* The connection without WAITING.
LEMMA NotWaitingFacts ==
    ASSUME c \in Conns
    PROVE  /\ NotWaiting \in Conns /\ NotWaiting.flags = c.flags \ {"WAITING"}
           /\ NotWaiting.reading = (c.reading \/ "WAITING" \in c.flags)
           /\ NotWaiting.state = c.state /\ NotWaiting.scratch = c.scratch
           /\ NotWaiting.resume_ev = c.resume_ev /\ NotWaiting.htp = c.htp
           /\ NotWaiting.num_requests = c.num_requests /\ NotWaiting.body_bytes_read = c.body_bytes_read
BY Zenon DEF Conns, NotWaiting

\* A write while the connection is paused, or before the reply is finished.
LEMMA WriteQuietInv == ASSUME ConnInv, WritePaused \/ WriteUnfinished PROVE ConnInv'
<1>0. TypeOK /\ PauseInv
  BY DEF ConnInv
<1>1. /\ FlushLast /\ c.state = "live"
      /\ c' = c \/ (c' = NotWaiting /\ "PAUSED" \notin c.flags)
      /\ UNCHANGED <<req, p, run, input, next, closed, cbs>>
  BY DEF WritePaused, WriteUnfinished, Falls, Unpaused
<1>2. /\ run.pc = "loop" /\ output' \in Seq(Items) /\ delivered' \in Seq(Items)
      /\ delivered' \o output' = delivered \o output
  BY <1>0, <1>1, FlushFacts, Zenon
<1>3. c \in Conns
  BY <1>0, TypeParts
<1>4. /\ c' \in Conns /\ c'.state = c.state /\ c'.scratch = c.scratch /\ c'.resume_ev = c.resume_ev
      /\ \/ c'.flags = c.flags /\ c'.reading = c.reading
         \/ /\ "PAUSED" \notin c.flags /\ c'.flags = c.flags \ {"WAITING"}
            /\ c'.reading = (c.reading \/ "WAITING" \in c.flags)
  BY <1>1, <1>3, NotWaitingFacts, Zenon
<1>5. TypeOK'
  BY <1>0, <1>1, <1>2, <1>4, TypeParts, TypeStep
<1>6. PauseInv'
  BY <1>0, <1>1, <1>2, <1>4, Zenon DEF PauseInv
<1>7. Stays
  <2>1. Parsed' = Parsed
    BY <1>0, <1>1, ParsedFrame
  <2> QED
    BY <1>1, <1>2, <1>4, <2>1, IdleParser DEF Stays
<1> QED
  BY <1>1, <1>2, <1>5, <1>6, <1>7, QuietStep DEF Unanswered

\* The status of no request is EVHTP_RES_OK.
LEMMA NoReqStatus == [NoReq EXCEPT !.status = "OK"] = NoReq
<1>1. \A r \in Requests : r.status = "OK" => [r EXCEPT !.status = "OK"] = r
  BY DEF Requests
<1> QED
  BY <1>1, Initials

\* What the entry of htp__connection_readcb_ makes of the request and the loop.
LEMMA ReadCbFacts ==
    ASSUME NEW in, NEW r \in Requests, NEW f, ReadCb(in, r, f)
    PROVE  /\ req' \in Requests /\ run'.off = 0 /\ run'.pc \in {"loop", "run"}
           /\ \A n \in Nat : run' \in [pc : {"loop", "run", "done"}, off : 0 .. n]
           /\ req'.msg = r.msg /\ req'.cb = r.cb /\ req'.buf = r.buf
           /\ req'.finished = r.finished /\ req'.htp = r.htp
           /\ r = NoReq => req' = NoReq
           /\ run'.pc = "loop" => req' = r
           /\ run'.pc = "run" => req'.status = "OK" /\ "PAUSED" \notin f
<1>1. CASE ReadReturnsAtOnce(in, r, f)
  BY <1>1, LoopFields DEF ReadCb
<1>2. CASE ~ReadReturnsAtOnce(in, r, f)
  <2>1. run' = [pc |-> "run", off |-> 0] /\ req' = [r EXCEPT !.status = "OK"] /\ "PAUSED" \notin f
    BY <1>2 DEF ReadCb, ReadReturnsAtOnce
  <2>2. /\ req' \in Requests /\ req'.msg = r.msg /\ req'.cb = r.cb /\ req'.buf = r.buf
        /\ req'.finished = r.finished /\ req'.htp = r.htp /\ req'.status = "OK"
    BY <2>1, Zenon DEF Requests
  <2>3. r = NoReq => req' = NoReq
    BY <2>1, NoReqStatus
  <2> QED
    BY <2>1, <2>2, <2>3
<1> QED
  BY <1>1, <1>2

\* A connection that waited for its output reads again.
LEMMA WriteReadsInv == ASSUME ConnInv, WriteReads PROVE ConnInv'
<1>0. TypeOK /\ PauseInv
  BY DEF ConnInv
<1>1. /\ FlushLast /\ c.state = "live" /\ "PAUSED" \notin c.flags /\ "WAITING" \in c.flags
      /\ c' = NotWaiting /\ ReadCb(input, req, c'.flags)
      /\ UNCHANGED <<p, input, next, closed, cbs>>
  BY DEF WriteReads, Unpaused
<1>2. /\ run.pc = "loop" /\ output' \in Seq(Items) /\ delivered' \in Seq(Items)
      /\ delivered' \o output' = delivered \o output
  BY <1>0, <1>1, FlushFacts
<1>3. c \in Conns /\ req \in Requests /\ Len(input) \in Nat
  BY <1>0, TypeParts, Numbers, Zenon
<1>4. /\ c' \in Conns /\ c'.state = c.state /\ c'.scratch = c.scratch /\ c'.resume_ev = c.resume_ev
      /\ c'.flags = c.flags \ {"WAITING"}
  BY <1>1, <1>3, NotWaitingFacts, Zenon
<1>5. /\ req' \in Requests /\ run'.off = 0 /\ run'.pc \in {"loop", "run"}
      /\ run' \in [pc : {"loop", "run", "done"}, off : 0 .. Len(input)]
      /\ req'.msg = req.msg /\ req'.cb = req.cb /\ req'.buf = req.buf /\ req'.finished = req.finished
      /\ req = NoReq => req' = NoReq
      /\ run'.pc = "run" => req'.status = "OK"
  BY <1>1, <1>3, ReadCbFacts, Zenon
<1>6. TypeOK'
  BY <1>0, <1>1, <1>2, <1>4, <1>5, TypeParts, TypeStep, Zenon
<1>7. PauseInv'
  BY <1>0, <1>1, <1>2, <1>4, <1>5, Zenon DEF PauseInv
<1>8. Stays
  <2>1. Parsed' = Parsed
    BY <1>0, <1>1, <1>2, <1>5, ParsedFrame DEF PauseInv
  <2> QED
    BY <1>1, <1>2, <1>4, <1>5, <2>1, IdleParser, Zenon DEF Stays
<1> QED
  BY <1>1, <1>2, <1>5, <1>6, <1>7, <1>8, QuietStep DEF Unanswered

\* A request that is there and finished has had its callback.
LEMMA FinishedDispatched ==
    ASSUME ConnInv, c.state = "live", req # NoReq, req.finished
    PROVE  req.cb # "none" /\ req.msg # 0 /\ DispatchedInv
<1>1. ParserInv
  BY DEF ConnInv
<1>2. req.msg # 0
  BY <1>1, Zenon DEF ParserInv, NoRequestInv
<1>3. req.cb # "none"
  BY <1>1, <1>2 DEF ParserInv, ParsingInv
<1> QED
  BY <1>1, <1>2, <1>3 DEF ParserInv

\* The request is dropped and the connection kept for the next one.
LEMMA WriteKeepAliveInv == ASSUME ConnInv, WriteKeepAlive PROVE ConnInv'
<1>0. TypeOK /\ PauseInv /\ InputInv /\ CbsInv /\ AnswerInv /\ RepliesInOrder
  BY DEF ConnInv
<1>1. /\ FlushLast /\ c.state = "live" /\ "PAUSED" \notin c.flags /\ req # NoReq /\ req.finished
      /\ c' = [NotWaiting EXCEPT !.num_requests = Served, !.body_bytes_read = 0,
                                 !.htp = Main, !.flags = @ \cup {"KEEPALIVE"}]
      /\ req' = NoReq /\ p' = Parser
      /\ UNCHANGED <<run, input, next, closed, cbs>>
  BY DEF WriteKeepAlive, Falls, Unpaused
<1>2. /\ run.pc = "loop" /\ output' \in Seq(Items) /\ delivered' \in Seq(Items)
      /\ delivered' \o output' = delivered \o output
  BY <1>0, <1>1, FlushFacts
<1>3. c \in Conns
  BY <1>0, TypeParts
<1>4. /\ c' \in Conns /\ c'.state = c.state /\ c'.scratch = c.scratch /\ c'.resume_ev = c.resume_ev
      /\ c'.flags = (c.flags \ {"WAITING"}) \cup {"KEEPALIVE"}
      /\ c'.reading = (c.reading \/ "WAITING" \in c.flags)
  <2>1. Served \in Nat
    BY <1>3 DEF Served, Conns
  <2> DEFINE w == NotWaiting
  <2>2. /\ w \in Conns /\ w.flags = c.flags \ {"WAITING"} /\ w.state = c.state /\ w.scratch = c.scratch
        /\ w.reading = (c.reading \/ "WAITING" \in c.flags) /\ w.resume_ev = c.resume_ev
    BY <1>3, NotWaitingFacts
  <2>3. c' = [w EXCEPT !.num_requests = Served, !.body_bytes_read = 0,
                       !.htp = Main, !.flags = @ \cup {"KEEPALIVE"}]
    BY <1>1
  <2> HIDE DEF w
  <2> QED
    BY <2>1, <2>2, <2>3, Zenon DEF Conns
<1>5. TypeOK'
  BY <1>0, <1>1, <1>2, <1>4, Initials, TypeParts, TypeStep
<1>6. PauseInv'
  <2>1. "PAUSED" \notin c'.flags /\ "WAITING" \notin c'.flags /\ ("OWNER" \in c'.flags <=> "OWNER" \in c.flags)
    BY <1>1, <1>4
  <2>2. c.resume_ev => ~c.reading /\ "WAITING" \notin c.flags
    BY <1>0 DEF PauseInv
  <2> QED
    BY <1>0, <1>1, <1>2, <1>4, <2>1, <2>2, Zenon DEF PauseInv
<1>7. DispatchedInv /\ req.cb # "none"
  BY <1>1, FinishedDispatched
<1>8. ParserInv'
  <2>1. Parsed' = Parsed
    BY <1>0, <1>1, ParsedFrame
  <2> QED
    BY <1>1, <1>4, <1>7, <2>1, Initials DEF ParserInv, NoRequestInv, DispatchedInv, NoReq, Parser
<1>9. AnswerInv' /\ RepliesInOrder'
  BY <1>0, <1>1, <1>2, <1>4, Initials, ReplyFrame DEF Unanswered
<1>10. InputInv' /\ CbsInv' /\ HandoverExact'
  BY <1>0, <1>1, <1>4, InputStep, CbsFrame DEF HandoverExact
<1> QED
  BY <1>5, <1>6, <1>8, <1>9, <1>10 DEF ConnInv

\* Frees of the other callbacks.
LEMMA WriteCloseInv == ASSUME ConnInv, WriteClose PROVE ConnInv'
<1>0. TypeOK
  BY DEF ConnInv
<1>1. FlushLast /\ FreeConn(<< >>, c.writing) /\ UNCHANGED <<input, next, closed, cbs>>
  BY DEF WriteClose
<1>2. output' \in Seq(Items) /\ delivered' \in Seq(Items) /\ delivered' \o output' = delivered \o output
  BY <1>0, <1>1, FlushFacts
<1>3. c.writing \in BOOLEAN
  BY <1>0, TypeParts DEF Conns
<1> QED
  BY <1>1, <1>2, <1>3, FreeStep

-----------------------------------------------------------------------------
(* htp__connection_eventcb_ and freecb's errors *)

\* An end of file or an error: noted while the connection is paused, else its end.
LEMMA EventCbInv ==
    ASSUME ConnInv, c.state = "live", run.pc = "loop",
           NEW rd \in BOOLEAN, NEW w \in BOOLEAN, rd => c.reading, EventCb(rd, w)
    PROVE  ConnInv'
<1>0. TypeOK /\ PauseInv
  BY DEF ConnInv
<1>1. UNCHANGED <<input, output, next, closed, delivered, cbs>>
  BY DEF EventCb
<1>2. c \in Conns /\ output \in Seq(Items) /\ delivered \in Seq(Items)
  BY <1>0, TypeParts
<1>3. CASE /\ "PAUSED" \in c.flags
           /\ c' = [c EXCEPT !.flags = @ \cup {"ERROR", "FREE_CONN"}, !.reading = rd, !.writing = w]
           /\ UNCHANGED <<req, p, run>>
  <2>1. /\ c' \in Conns /\ c'.state = c.state /\ c'.scratch = c.scratch /\ c'.resume_ev = c.resume_ev
        /\ c'.flags = c.flags \cup {"ERROR", "FREE_CONN"} /\ c'.reading = rd
    BY <1>2, <1>3, Zenon DEF Conns
  <2>2. TypeOK'
    BY <1>0, <1>1, <1>3, <2>1, TypeParts, TypeStep
  <2>3. PauseInv'
    BY <1>0, <1>3, <2>1 DEF PauseInv
  <2>4. Stays
    <3>1. Parsed' = Parsed
      BY <1>0, <1>1, <1>3, ParsedFrame
    <3> QED
      BY <1>1, <1>3, <2>1, <3>1, IdleParser DEF Stays
  <2> QED
    BY <1>1, <1>3, <2>2, <2>3, <2>4, QuietStep DEF Unanswered
<1>4. CASE FreeConn(output, w)
  BY <1>1, <1>2, <1>4, FreeStep
<1> QED
  BY <1>3, <1>4 DEF EventCb

\* The socket's end of file, and its error on a write.
LEMMA SocketEventInv == ASSUME ConnInv, ReadEof \/ WriteFails PROVE ConnInv'
<1>1. c.state = "live" /\ run.pc = "loop" /\ (EventCb(FALSE, c.writing) \/ EventCb(c.reading, FALSE))
  BY Zenon DEF ReadEof, WriteFails, Idle
<1>2. c.writing \in BOOLEAN /\ c.reading \in BOOLEAN
  <2>1. c \in Conns
    BY TypeParts DEF ConnInv
  <2> QED
    BY <2>1 DEF Conns
<1> QED
  BY <1>1, <1>2, EventCbInv, Zenon

\* An error while a freed connection writes what is left.
LEMMA DrainFailsInv == ASSUME ConnInv, DrainFails PROVE ConnInv'
<1>0. TypeOK /\ PauseInv /\ InputInv /\ CbsInv /\ AnswerInv /\ RepliesInOrder
  BY DEF ConnInv
<1>1. /\ c.state = "draining" /\ c' = [c EXCEPT !.writing = FALSE]
      /\ UNCHANGED <<req, p, run, input, output, next, closed, delivered, cbs>>
  BY DEF DrainFails
<1>2. c \in Conns
  BY <1>0, TypeParts
<1>3. /\ c' \in Conns /\ c'.state = "draining" /\ c'.flags = c.flags /\ c'.reading = c.reading
      /\ c'.resume_ev = c.resume_ev
  BY <1>1, <1>2, Zenon DEF Conns
<1>4. TypeOK'
  BY <1>0, <1>1, <1>3, TypeParts, TypeStep
<1>5. PauseInv'
  BY <1>0, <1>1, <1>3, Zenon DEF PauseInv
<1>6. ParserInv' /\ HandoverExact'
  BY <1>3 DEF ParserInv, HandoverExact
<1>7. InputInv' /\ CbsInv' /\ AnswerInv' /\ RepliesInOrder'
  BY <1>0, <1>1, <1>3, InputStep, CbsFrame, ReplyFrame
<1> QED
  BY <1>4, <1>5, <1>6, <1>7 DEF ConnInv

\* The client closes its end: nothing of the server's changes.
LEMMA CloseInv == ASSUME ConnInv, Close PROVE ConnInv'
<1>0. TypeOK /\ PauseInv /\ InputInv /\ CbsInv /\ ParserInv /\ AnswerInv /\ RepliesInOrder /\ HandoverExact
  BY DEF ConnInv
<1>1. closed' = TRUE /\ UNCHANGED <<c, req, p, run, input, output, next, delivered, cbs>>
  BY DEF Close
<1>2. TypeOK'
  BY <1>0, <1>1, TypeParts, TypeStep, Zenon
<1>3. PauseInv' /\ HandoverExact'
  BY <1>0, <1>1 DEF PauseInv, HandoverExact
<1>4. ParserInv'
  BY <1>0, <1>1, Zenon DEF ParserInv, NoRequestInv, ParsingInv, DispatchedInv, Parsed, NoReq, Parser, Holds
<1>5. InputInv' /\ CbsInv' /\ AnswerInv' /\ RepliesInOrder'
  BY <1>0, <1>1, InputStep, CbsFrame, ReplyFrame DEF Unanswered
<1> QED
  BY <1>2, <1>3, <1>4, <1>5 DEF ConnInv

-----------------------------------------------------------------------------
(* htp__connection_resumecb_ *)

\* The connection and the request after the scratch buffer was moved.
LEMMA RequeueFacts ==
    ASSUME TypeOK
    PROVE  /\ Unscratched \in Conns /\ Requeued \in Requests
           /\ Unscratched.flags = c.flags \ {"PAUSED"} /\ Unscratched.resume_ev = FALSE
           /\ Unscratched.state = c.state /\ Unscratched.reading = c.reading
           /\ Unscratched.htp = c.htp /\ Unscratched.body_bytes_read = c.body_bytes_read
           /\ Unscratched.num_requests = c.num_requests
           /\ Unscratched.scratch = IF req = NoReq THEN c.scratch ELSE << >>
           /\ Requeued.msg = req.msg /\ Requeued.cb = req.cb /\ Requeued.finished = req.finished
           /\ Requeued.htp = req.htp
           /\ Requeued.buf = IF req = NoReq THEN req.buf ELSE req.buf \o c.scratch
           /\ req = NoReq => Requeued = NoReq
<1>1. c \in Conns /\ req \in Requests
  BY TypeParts
<1>2. << >> \in Seq(Tokens) /\ c.scratch \in Seq(Tokens) /\ req.buf \in Seq(Tokens)
  BY <1>1 DEF Conns, Requests
<1>3. req.buf \o c.scratch \in Seq(Tokens)
  BY <1>2, ConcatFacts
<1>4. /\ Unscratched \in Conns
      /\ Unscratched.flags = c.flags \ {"PAUSED"} /\ Unscratched.resume_ev = FALSE
      /\ Unscratched.state = c.state /\ Unscratched.reading = c.reading
      /\ Unscratched.htp = c.htp /\ Unscratched.body_bytes_read = c.body_bytes_read
      /\ Unscratched.num_requests = c.num_requests
      /\ Unscratched.scratch = IF req = NoReq THEN c.scratch ELSE << >>
  BY <1>1, <1>2, Zenon DEF Unscratched, Conns
<1>5. CASE req = NoReq
  BY <1>1, <1>4, <1>5 DEF Requeued
<1>6. CASE req # NoReq
  <2>1. Requeued = [req EXCEPT !.status = "OK", !.buf = @ \o c.scratch]
    BY <1>6, Zenon DEF Requeued
  <2> QED
    BY <1>1, <1>3, <1>4, <1>6, <2>1, Zenon DEF Requests
<1> QED
  BY <1>5, <1>6, Zenon

\* Moving the scratch buffer loses nothing of the body.
LEMMA RequeueParser ==
    ASSUME ConnInv, run.pc = "loop", c.state = "live",
           Parsed' = Parsed, cbs' = cbs, c'.state = c.state, c'.scratch = Unscratched.scratch,
           req'.msg = req.msg, req'.cb = req.cb, req'.finished = req.finished,
           req'.buf = Requeued.buf, req = NoReq => req' = NoReq,
           p'.state = p.state, p'.left = p.left, p = Parser => p' = Parser
    PROVE  ParserInv'
<1>0. TypeOK /\ ParserInv
  BY DEF ConnInv
<1>1. c \in Conns /\ req \in Requests
  BY <1>0, TypeParts, Zenon
<1>2. ASSUME req.msg = 0 PROVE NoRequestInv'
  <2>1. NoRequestInv
    BY <1>0, <1>2 DEF ParserInv
  <2>2. req = NoReq /\ p = Parser /\ c.scratch = << >> /\ Parsed = Start[Len(cbs) + 1]
    BY <2>1, Zenon DEF NoRequestInv
  <2>3. c'.scratch = << >>
    BY <1>0, <2>2, RequeueFacts, Zenon
  <2> QED
    BY <2>2, <2>3 DEF NoRequestInv, NoReq, Parser
<1>3. req.msg # 0 => req # NoReq
  BY Initials
<1>4. req.msg # 0 => req'.buf = req.buf \o c.scratch /\ c'.scratch = << >>
  BY <1>0, <1>3, RequeueFacts, Zenon
<1>5. ASSUME req.msg # 0, req.cb = "none" PROVE ParsingInv'
  <2>1. ParsingInv
    BY <1>0, <1>5, Zenon DEF ParserInv
  <2>2. p.state # "error"
    BY <1>5, IdleParser, Zenon
  <2>3. req.buf \in Seq(Tokens) /\ c.scratch \in Seq(Tokens)
    BY <1>1, Zenon DEF Conns, Requests
  <2> DEFINE h == req.buf \o c.scratch
  <2>4. h \in Seq(Tokens) /\ h \o << >> = h
    BY <2>3, ConcatFacts, ConcatNothing
  <2>5. req'.buf \o c'.scratch = h
    BY <1>4, <1>5, <2>4, Zenon
  <2>6. p.state = "head" => req'.buf = << >>
    <3>1. p.state = "head" => req.buf = << >> /\ c.scratch = << >>
      BY <2>1, Zenon DEF ParsingInv
    <3> QED
      BY <1>4, <1>5, <3>1, <2>3, ConcatNothing, Zenon
  <2> HIDE DEF h
  <2>7. p.state \in {"body", "complete"} => Holds(req'.buf \o c'.scratch, req.msg, Body[req.msg] - p.left)
    BY <2>1, <2>5 DEF ParsingInv, h
  <2> QED
    BY <1>4, <1>5, <2>1, <2>2, <2>6, <2>7, Zenon DEF ParsingInv, Holds
<1>6. ASSUME req.msg # 0, req.cb # "none" PROVE DispatchedInv'
  BY <1>0, <1>4, <1>6, Zenon DEF ParserInv, DispatchedInv
<1> QED
  BY <1>2, <1>5, <1>6 DEF ParserInv

\* What the branches of the resume callback have in common.
LEMMA ResumeStep ==
    ASSUME ConnInv, run.pc = "loop", c.state = "live", TypeOK', PauseInv', ParserInv',
           cbs' = cbs, c'.state = c.state, req'.cb = req.cb, req'.finished = req.finished,
           UNCHANGED <<input, output, next, delivered>>
    PROVE  ConnInv'
<1>0. TypeOK /\ InputInv /\ CbsInv /\ AnswerInv /\ RepliesInOrder
  BY Zenon DEF ConnInv
<1>1. InputInv' /\ CbsInv' /\ HandoverExact'
  BY <1>0, InputStep, CbsFrame, Zenon DEF HandoverExact
<1>2. AnswerInv' /\ RepliesInOrder'
  BY <1>0, ReplyFrame DEF Unanswered
<1> QED
  BY <1>1, <1>2 DEF ConnInv

\* A paused connection that met an error is freed when it is resumed.
LEMMA ResumeFreesInv == ASSUME ConnInv, ResumeFrees PROVE ConnInv'
<1>1. FreeConn(output, c.writing) /\ UNCHANGED <<input, output, next, closed, delivered, cbs>>
  BY DEF ResumeFrees
<1>2. c \in Conns /\ output \in Seq(Items) /\ delivered \in Seq(Items)
  BY TypeParts DEF ConnInv
<1>3. c.writing \in BOOLEAN
  BY <1>2 DEF Conns
<1> QED
  BY <1>1, <1>2, <1>3, FreeStep, Zenon

\* A resumed connection with output to write waits for it.
LEMMA ResumeWaitsInv == ASSUME ConnInv, ResumeWaits PROVE ConnInv'
<1>0. TypeOK /\ PauseInv
  BY DEF ConnInv
<1>1. /\ run.pc = "loop" /\ c.state = "live" /\ c.resume_ev /\ req' = Requeued
      /\ c' = [Unscratched EXCEPT !.flags = @ \cup {"WAITING"}, !.writing = TRUE]
      /\ UNCHANGED <<p, run, input, output, next, closed, delivered, cbs>>
  BY DEF ResumeWaits, Idle
<1>2. /\ Unscratched \in Conns /\ Unscratched.flags = c.flags \ {"PAUSED"} /\ Unscratched.resume_ev = FALSE
      /\ Unscratched.state = c.state /\ Unscratched.reading = c.reading
  BY <1>0, RequeueFacts, Zenon
<1>3. /\ c' \in Conns /\ c'.flags = (c.flags \ {"PAUSED"}) \cup {"WAITING"} /\ c'.resume_ev = FALSE
      /\ c'.state = c.state /\ c'.reading = c.reading /\ c'.scratch = Unscratched.scratch
  <2> DEFINE u == Unscratched
  <2> HIDE DEF u
  <2>1. /\ u \in Conns /\ u.flags = c.flags \ {"PAUSED"} /\ u.resume_ev = FALSE /\ u.state = c.state /\ u.reading = c.reading
        /\ c' = [u EXCEPT !.flags = @ \cup {"WAITING"}, !.writing = TRUE]
    BY <1>1, <1>2 DEF u
  <2>2. /\ c' \in Conns /\ c'.flags = (c.flags \ {"PAUSED"}) \cup {"WAITING"} /\ c'.resume_ev = FALSE
        /\ c'.state = c.state /\ c'.reading = c.reading /\ c'.scratch = u.scratch
    BY <2>1, Zenon DEF Conns
  <2> QED
    BY <2>2 DEF u
<1>4. /\ req' \in Requests /\ req'.msg = req.msg /\ req'.cb = req.cb /\ req'.finished = req.finished
      /\ req'.buf = Requeued.buf /\ (req = NoReq => req' = NoReq)
  BY <1>0, <1>1, RequeueFacts
<1>5. TypeOK'
  BY <1>0, <1>1, <1>3, <1>4, TypeParts, TypeStep
<1>6. PauseInv'
  <2>1. ~c.reading /\ "OWNER" \in c.flags /\ run.off = 0
    BY <1>0, <1>1, Zenon DEF PauseInv
  <2>2. "PAUSED" \notin c'.flags /\ "OWNER" \in c'.flags /\ ~c'.reading /\ ~c'.resume_ev
    BY <1>3, <2>1
  <2> QED
    BY <1>1, <1>3, <2>1, <2>2 DEF PauseInv
<1>7. ParserInv'
  <2>1. Parsed' = Parsed
    BY <1>0, <1>1, ParsedFrame
  <2> QED
    BY <1>1, <1>3, <1>4, <2>1, RequeueParser
<1> QED
  BY <1>1, <1>3, <1>4, <1>5, <1>6, <1>7, ResumeStep

\* A resumed connection without output takes its parser out of the pause and reads.
LEMMA ResumeReadsInv == ASSUME ConnInv, ResumeReads PROVE ConnInv'
<1>0. TypeOK /\ PauseInv
  BY DEF ConnInv
<1>1. /\ run.pc = "loop" /\ c.state = "live" /\ c.resume_ev
      /\ c' = [Unscratched EXCEPT !.reading = TRUE]
      /\ UNCHANGED <<input, output, next, closed, delivered, cbs>>
  BY DEF ResumeReads, Idle
<1>2. /\ Unscratched \in Conns /\ Unscratched.flags = c.flags \ {"PAUSED"} /\ Unscratched.resume_ev = FALSE
      /\ Unscratched.state = c.state
  BY <1>0, RequeueFacts, Zenon
<1>3. /\ c' \in Conns /\ c'.flags = c.flags \ {"PAUSED"} /\ c'.resume_ev = FALSE
      /\ c'.state = c.state /\ c'.scratch = Unscratched.scratch
  <2> DEFINE u == Unscratched
  <2> HIDE DEF u
  <2>1. /\ u \in Conns /\ u.flags = c.flags \ {"PAUSED"} /\ u.resume_ev = FALSE /\ u.state = c.state
        /\ c' = [u EXCEPT !.reading = TRUE]
    BY <1>1, <1>2 DEF u
  <2>2. /\ c' \in Conns /\ c'.flags = c.flags \ {"PAUSED"} /\ c'.resume_ev = FALSE
        /\ c'.state = c.state /\ c'.scratch = u.scratch
    BY <2>1, Zenon DEF Conns
  <2> QED
    BY <2>2 DEF u
<1>4. /\ Requeued \in Requests /\ Requeued.msg = req.msg /\ Requeued.cb = req.cb
      /\ Requeued.finished = req.finished /\ (req = NoReq => Requeued = NoReq)
  BY <1>0, RequeueFacts
<1>5. p \in Parsers /\ run.off = 0 /\ Len(input) \in Nat
      /\ run \in [pc : {"loop", "run", "done"}, off : 0 .. Len(input)]
  BY <1>0, <1>1, TypeParts, Numbers DEF PauseInv
<1>6. /\ p' \in Parsers /\ p'.state = p.state /\ p'.left = p.left /\ (p = Parser => p' = Parser)
  <2>1. p' = p \/ (p.paused /\ p' = [p EXCEPT !.paused = FALSE])
    BY DEF ResumeReads
  <2>2. p.paused => p # Parser
    BY DEF Parser
  <2>3. CASE p.paused /\ p' = [p EXCEPT !.paused = FALSE]
    <3>1. p' \in Parsers /\ p'.state = p.state /\ p'.left = p.left
      BY <1>5, <2>3, Zenon DEF Parsers
    <3> QED
      BY <2>2, <2>3, <3>1
  <2>4. CASE p' = p
    BY <1>5, <2>4, Zenon DEF Parser
  <2> QED
    BY <2>1, <2>3, <2>4
<1>7. /\ req' \in Requests /\ run'.off = 0 /\ run'.pc \in {"loop", "run"}
      /\ run' \in [pc : {"loop", "run", "done"}, off : 0 .. Len(input)]
      /\ req'.msg = req.msg /\ req'.cb = req.cb /\ req'.finished = req.finished /\ req'.buf = Requeued.buf
      /\ req = NoReq => req' = NoReq
      /\ run'.pc = "run" => req'.status = "OK"
  <2>1. ASSUME NEW r \in Requests, r.msg = req.msg, r.cb = req.cb, r.finished = req.finished,
               r.buf = Requeued.buf, req = NoReq => r = NoReq, ReadCb(input, r, c'.flags)
        PROVE  /\ req' \in Requests /\ run'.off = 0 /\ run'.pc \in {"loop", "run"}
               /\ run' \in [pc : {"loop", "run", "done"}, off : 0 .. Len(input)]
               /\ req'.msg = req.msg /\ req'.cb = req.cb /\ req'.finished = req.finished
               /\ req'.buf = Requeued.buf /\ (req = NoReq => req' = NoReq)
               /\ run'.pc = "run" => req'.status = "OK"
    BY <2>1, <1>5, ReadCbFacts
  <2> DEFINE q == Requeued
             r1 == [Requeued EXCEPT !.status = IF req = NoReq THEN @ ELSE "PAUSE"]
  <2>2. \/ ReadCb(input, r1, c'.flags) \/ ReadCb(input, q, c'.flags)
        \/ req' = q /\ run' = run
    BY DEF ResumeReads
  <2>3. /\ r1 \in Requests /\ r1.msg = q.msg /\ r1.cb = q.cb /\ r1.finished = q.finished /\ r1.buf = q.buf
        /\ (req = NoReq => r1 = NoReq)
    <3>1. CASE req = NoReq
      <4>1. q = NoReq /\ r1 = [NoReq EXCEPT !.status = NoReq.status]
        BY <1>4, <3>1
      <4> QED
        BY <4>1, NoReqStatus, Initials
    <3>2. CASE req # NoReq
      <4>1. q \in Requests /\ r1 = [q EXCEPT !.status = "PAUSE"]
        BY <1>4, <3>2
      <4> HIDE DEF q, r1
      <4> QED
        BY <4>1, <3>2 DEF Requests
    <3> QED
      BY <3>1, <3>2
  <2>4. q \in Requests /\ q.msg = req.msg /\ q.cb = req.cb /\ q.finished = req.finished
        /\ q.buf = Requeued.buf /\ (req = NoReq => q = NoReq)
    BY <1>4, Zenon
  <2> HIDE DEF q, r1
  <2>5. CASE ReadCb(input, r1, c'.flags)
    BY <2>1, <2>3, <2>4, <2>5, Zenon
  <2>6. CASE ReadCb(input, q, c'.flags)
    BY <2>1, <2>4, <2>6
  <2>7. CASE req' = q /\ run' = run
    BY <1>1, <1>5, <2>4, <2>7
  <2> QED
    BY <2>2, <2>5, <2>6, <2>7, Zenon
<1>8. TypeOK'
  BY <1>0, <1>1, <1>3, <1>6, <1>7, TypeParts, TypeStep
<1>9. PauseInv'
  <2>1. "OWNER" \in c.flags /\ "WAITING" \notin c.flags
    BY <1>0, <1>1 DEF PauseInv
  <2>2. "PAUSED" \notin c'.flags /\ "OWNER" \in c'.flags /\ "WAITING" \notin c'.flags /\ ~c'.resume_ev
    BY <1>3, <2>1
  <2> QED
    BY <1>1, <1>3, <1>7, <2>2 DEF PauseInv
<1>10. ParserInv'
  <2>1. Parsed' = Parsed
    BY <1>0, <1>1, <1>5, <1>7, ParsedFrame, Zenon
  <2> QED
    BY <1>1, <1>3, <1>6, <1>7, <2>1, RequeueParser
<1> QED
  BY <1>1, <1>3, <1>7, <1>8, <1>9, <1>10, ResumeStep

-----------------------------------------------------------------------------
(* The application and the client *)

\* evhtp_connection_resume on a paused connection.
LEMMA ResumedFacts ==
    ASSUME c \in Conns
    PROVE  /\ Resumed(c) \in Conns /\ Resumed(c).state = c.state /\ Resumed(c).scratch = c.scratch
           /\ Resumed(c).reading = c.reading /\ Resumed(c).flags = c.flags \ {"PAUSED"}
           /\ Resumed(c).htp = c.htp /\ Resumed(c).body_bytes_read = c.body_bytes_read
           /\ Resumed(c).num_requests = c.num_requests
           /\ Resumed(c).resume_ev = (c.resume_ev \/ "PAUSED" \in c.flags)
<1>1. CASE "PAUSED" \in c.flags
  BY <1>1, Zenon DEF Resumed, Conns
<1>2. CASE "PAUSED" \notin c.flags
  BY <1>2 DEF Resumed, Conns
<1> QED
  BY <1>1, <1>2

\* Resuming between callbacks keeps pause, waiting and resumption apart.
LEMMA ResumedPause ==
    ASSUME ConnInv, run.pc = "loop", c.state = "live", c' = Resumed(c), run' = run
    PROVE  PauseInv'
<1>0. TypeOK /\ PauseInv
  BY DEF ConnInv
<1>1. c \in Conns
  BY <1>0, TypeParts, Zenon
<1>2. /\ c'.state = "live" /\ c'.reading = c.reading /\ c'.flags = c.flags \ {"PAUSED"}
      /\ c'.resume_ev = (c.resume_ev \/ "PAUSED" \in c.flags)
  BY <1>1, ResumedFacts, Zenon
<1>3. /\ "PAUSED" \notin c'.flags /\ ("WAITING" \in c'.flags <=> "WAITING" \in c.flags)
      /\ "OWNER" \in c'.flags /\ run'.pc = "loop" /\ run'.off = 0
  BY <1>0, <1>2 DEF PauseInv
<1>4. c'.resume_ev => ~c.reading /\ "WAITING" \notin c.flags
  BY <1>0, <1>2, Zenon DEF PauseInv
<1>5. "WAITING" \in c.flags => ~c.reading
  BY <1>0, Zenon DEF PauseInv
<1> QED
  BY <1>2, <1>3, <1>4, <1>5 DEF PauseInv

\* The application resumes a connection that a hook paused.
LEMMA AppResumeInv == ASSUME ConnInv, AppResume PROVE ConnInv'
<1>0. TypeOK
  BY DEF ConnInv
<1>1. /\ run.pc = "loop" /\ c.state = "live" /\ c' = Resumed(c)
      /\ UNCHANGED <<req, p, run, input, output, next, closed, delivered, cbs>>
  BY Zenon DEF AppResume, Idle
<1>2. c' \in Conns /\ c'.state = c.state /\ c'.scratch = c.scratch
  <2>1. c \in Conns
    BY <1>0, TypeParts, Zenon
  <2> QED
    BY <1>1, <2>1, ResumedFacts
<1>3. TypeOK'
  BY <1>0, <1>1, <1>2, TypeParts, TypeStep
<1>4. PauseInv'
  BY <1>1, ResumedPause, Zenon
<1>5. Stays
  <2>1. Parsed' = Parsed
    BY <1>0, <1>1, ParsedFrame
  <2> QED
    BY <1>1, <1>2, <2>1, IdleParser DEF Stays
<1> QED
  BY <1>1, <1>3, <1>4, <1>5, QuietStep, Zenon DEF Unanswered

\* The next final reply is put behind the others.
LEMMA FinalStep ==
    ASSUME TypeOK, RepliesInOrder, NEW n \in Nat, n + 1 \in Msgs, Finals(delivered \o output, n),
           output' = Append(output, Item(n + 1, "final")), delivered' = delivered
    PROVE  /\ RepliesInOrder' /\ Finals(delivered' \o output', n + 1)
           /\ output' \in Seq(Items) /\ delivered' \in Seq(Items)
<1> DEFINE e == Item(n + 1, "final")
           a == delivered \o output
<1>1. output \in Seq(Items) /\ delivered \in Seq(Items)
  BY TypeParts
<1>2. e \in Items
  BY DEF Items, Item
<1>3. delivered' \o output' = Append(a, e) /\ a \in Seq(Items)
  BY <1>1, <1>2, AppendConcat
<1>4. InOrder(a) /\ Finals(a, n)
  BY DEF RepliesInOrder
<1> HIDE DEF a
<1>5. InOrder(Append(a, e)) /\ Finals(Append(a, e), n + 1)
  BY <1>3, <1>4, FinalAppend
<1>6. output' \in Seq(Items) /\ delivered' \in Seq(Items)
  BY <1>1, <1>2
<1>7. RepliesInOrder' <=> InOrder(delivered' \o output')
  BY Zenon DEF RepliesInOrder, InOrder, IsFinal, Item
<1> QED
  BY <1>3, <1>5, <1>6, <1>7, Zenon

\* AnswerInv of the next state, with the number of replies that are due.
LEMMA AnswerStep ==
    ASSUME Finals(delivered' \o output', IF Unanswered' THEN Len(cbs') - 1 ELSE Len(cbs'))
    PROVE  AnswerInv'
BY DEF AnswerInv, Finals, IsFinal, Item

\* A request whose callback has run is the last one there was a callback for.
LEMMA DispatchedMsg ==
    ASSUME ConnInv, c.state = "live", req.cb # "none"
    PROVE  DispatchedInv /\ req.msg = Len(cbs) /\ Len(cbs) \in Msgs /\ req.msg # 0
<1>0. TypeOK /\ ParserInv
  BY Zenon DEF ConnInv
<1>1. req.msg # 0
  BY <1>0, Initials DEF ParserInv, NoRequestInv
<1>2. DispatchedInv
  BY <1>0, <1>1 DEF ParserInv
<1>3. req \in Requests
  BY <1>0, TypeParts
<1>4. req.msg \in Msgs
  BY <1>1, <1>3 DEF Requests
<1> QED
  BY <1>1, <1>2, <1>4 DEF DispatchedInv

\* The application finishes its reply: evhtp_send_reply or evhtp_send_reply_end.
LEMMA AppFinishInv == ASSUME ConnInv, AppFinish PROVE ConnInv'
<1>0. TypeOK /\ InputInv /\ CbsInv /\ ParserInv /\ AnswerInv /\ RepliesInOrder
  BY DEF ConnInv
<1>1. /\ run.pc = "loop" /\ c.state = "live" /\ c' = Resumed(c) /\ ~req.finished
      /\ req.cb \in {"defer", "pause", "conn_pause", "stream_length", "stream_chunked"}
      /\ req' = [req EXCEPT !.finished = TRUE]
      /\ output' = IF req.cb = "stream_length" THEN output ELSE Append(output, Item(req.msg, "final"))
      /\ UNCHANGED <<p, run, input, next, closed, delivered, cbs>>
  BY DEF AppFinish, Idle
<1>2. c \in Conns /\ req \in Requests /\ output \in Seq(Items) /\ delivered \in Seq(Items)
  BY <1>0, TypeParts
<1>3. c' \in Conns /\ c'.state = c.state /\ c'.scratch = c.scratch
  BY <1>1, <1>2, ResumedFacts
<1>4. /\ req' \in Requests /\ req'.finished = TRUE /\ req'.msg = req.msg /\ req'.cb = req.cb
      /\ req'.buf = req.buf /\ req'.status = req.status
  BY <1>1, <1>2, Zenon DEF Requests
<1>5. req.cb # "none" /\ req.msg = Len(cbs) /\ Len(cbs) \in Msgs /\ req # NoReq
  BY <1>1, DispatchedMsg, Initials
<1>6. AnswerInv' /\ RepliesInOrder' /\ output' \in Seq(Items)
  <2>1. CASE req.cb = "stream_length"
    BY <1>0, <1>1, <1>2, <1>3, <1>4, <2>1, ReplyFrame DEF Unanswered
  <2>2. CASE req.cb # "stream_length"
    <3> DEFINE n == Len(cbs) - 1
    <3>1. n \in Nat /\ n + 1 = Len(cbs)
      BY <1>5, ConnectionAssumption DEF Msgs
    <3>2. Finals(delivered \o output, n)
      BY <1>0, <1>1, <1>5, <2>2 DEF AnswerInv, Unanswered
    <3>3. output' = Append(output, Item(n + 1, "final")) /\ n + 1 \in Msgs
      BY <1>1, <1>5, <2>2, <3>1
    <3> HIDE DEF n
    <3>4. RepliesInOrder' /\ Finals(delivered' \o output', n + 1) /\ output' \in Seq(Items)
      BY <1>0, <1>1, <3>1, <3>2, <3>3, FinalStep
    <3>5. ~Unanswered' /\ cbs' = cbs
      BY <1>1, <1>4 DEF Unanswered
    <3>6. AnswerInv'
      BY <3>1, <3>4, <3>5, AnswerStep
    <3> QED
      BY <3>4, <3>6, Zenon
  <2> QED
    BY <2>1, <2>2
<1>7. TypeOK'
  BY <1>0, <1>1, <1>2, <1>3, <1>4, <1>6, TypeParts, TypeStep
<1>8. PauseInv'
  BY <1>1, ResumedPause
<1>9. ParserInv'
  <2>1. Parsed' = Parsed
    BY <1>0, <1>1, ParsedFrame
  <2>2. Stays
    BY <1>1, <1>3, <1>4, <1>5, <2>1, Zenon DEF Stays
  <2> QED
    BY <1>0, <2>2, ParserFrame
<1>10. InputInv' /\ CbsInv' /\ HandoverExact'
  BY <1>0, <1>1, <1>3, InputStep, CbsFrame, Zenon DEF HandoverExact
<1> QED
  BY <1>6, <1>7, <1>8, <1>9, <1>10 DEF ConnInv

\* A read of n tokens.
ReadsMore(n) ==
    /\ next + n <= Len(Stream) /\ next' = next + n
    /\ input' = input \o SubSeq(Stream, next + 1, next + n)

\* What a read adds to the input is what the client sends next.
LEMMA RecvInput ==
    ASSUME TypeOK, InputInv, run.off = 0, NEW n \in Nat, ReadsMore(n), run'.off = 0
    PROVE  /\ InputInv' /\ input' \in Seq(Tokens) /\ Len(input') \in Nat
           /\ Parsed' = Parsed /\ next' \in 0 .. Len(Stream)
<1> DEFINE t == SubSeq(Stream, next + 1, next + n)
<1>1. input \in Seq(Tokens) /\ next \in Nat /\ Len(input) \in Nat /\ Len(Stream) \in Nat
  BY TypeParts, Numbers
<1>n. next + n <= Len(Stream) /\ next' = next + n
  BY Zenon DEF ReadsMore
<1>2. t \in Seq(Tokens) /\ Len(t) = n /\ \A i \in 1 .. n : t[i] = Stream[next + i]
  <2>1. Stream \in Seq(Tokens)
    BY StreamAssumption
  <2> QED
    BY <1>1, <1>n, <2>1, PieceFacts
<1>3. input' = input \o t
  BY Zenon DEF ReadsMore
<1> HIDE DEF t
<1>4. /\ input' \in Seq(Tokens) /\ Len(input') = Len(input) + n
      /\ \A k \in 1 .. Len(input) : input'[k] = input[k]
      /\ \A k \in Len(input) + 1 .. Len(input) + n : input'[k] = t[k - Len(input)]
  <2>1. /\ input' \in Seq(Tokens) /\ Len(input') = Len(input) + Len(t)
        /\ \A k \in 1 .. Len(input) : input'[k] = input[k]
        /\ \A k \in Len(input) + 1 .. Len(input) + Len(t) : input'[k] = t[k - Len(input)]
    BY <1>1, <1>2, <1>3, ConcatFacts, Zenon
  <2> QED
    BY <2>1, <1>2
<1>a. Len(input') = Len(input) + n /\ Len(input') \in Nat
  BY <1>1, <1>4
<1>5. /\ Len(input) <= next
      /\ \A i \in 1 .. Len(input) : input[i] = Stream[next - Len(input) + i]
  BY Zenon DEF InputInv
<1>6. ASSUME NEW k \in 1 .. Len(input') PROVE input'[k] = Stream[next' - Len(input') + k]
  <2>1. next' - Len(input') + k = next - Len(input) + k
    BY <1>1, <1>a, <1>n
  <2>2. CASE k \in 1 .. Len(input)
    BY <1>4, <1>5, <2>1, <2>2, Zenon
  <2>3. CASE k \in Len(input) + 1 .. Len(input) + n
    <3>1. k - Len(input) \in 1 .. n /\ next + (k - Len(input)) = next - Len(input) + k
      BY <1>1, <2>3
    <3>2. input'[k] = t[k - Len(input)] /\ t[k - Len(input)] = Stream[next + (k - Len(input))]
      BY <1>2, <1>4, <2>3, <3>1, Zenon
    <3> QED
      BY <2>1, <3>1, <3>2
  <2>4. k \in 1 .. Len(input) \/ k \in Len(input) + 1 .. Len(input) + n
    BY <1>1, <1>a
  <2> QED
    BY <2>2, <2>3, <2>4, Zenon
<1>7. Len(input') <= next' /\ Len(input') \in Nat /\ next' \in 0 .. Len(Stream)
  BY <1>1, <1>a, <1>n, <1>5
<1>8. Parsed' = Parsed
  BY <1>1, <1>a, <1>n DEF Parsed
<1> QED
  BY <1>4, <1>6, <1>7, <1>8 DEF InputInv

\* A read of the socket.
LEMMA RecvInv == ASSUME ConnInv, Recv PROVE ConnInv'
<1>0. TypeOK /\ PauseInv /\ InputInv /\ CbsInv /\ ParserInv /\ AnswerInv /\ RepliesInOrder
  BY DEF ConnInv
<1>1. /\ run.pc = "loop" /\ c.state = "live" /\ c.reading /\ ReadCb(input', req, c.flags)
      /\ UNCHANGED <<c, p, output, closed, delivered, cbs>>
  BY DEF Recv, Idle
<1>2. PICK n \in 1 .. MaxRead : ReadsMore(n)
  BY Zenon DEF Recv, ReadsMore
<1>3. n \in Nat
  BY ConnectionAssumption
<1>4. req \in Requests
  BY <1>0, TypeParts, Zenon
<1>5. /\ req' \in Requests /\ run'.off = 0 /\ run'.pc \in {"loop", "run"}
      /\ \A k \in Nat : run' \in [pc : {"loop", "run", "done"}, off : 0 .. k]
      /\ req'.msg = req.msg /\ req'.cb = req.cb /\ req'.buf = req.buf /\ req'.finished = req.finished
      /\ req = NoReq => req' = NoReq
      /\ run'.pc = "run" => req'.status = "OK"
  BY <1>1, <1>4, ReadCbFacts
<1>6. run.off = 0
  BY <1>0, <1>1, Zenon DEF PauseInv
<1>7. InputInv' /\ input' \in Seq(Tokens) /\ Len(input') \in Nat /\ Parsed' = Parsed /\ next' \in 0 .. Len(Stream)
  BY <1>0, <1>2, <1>3, <1>5, <1>6, RecvInput, Zenon
<1>8. TypeOK'
  <2>1. c' \in Conns /\ p' \in Parsers /\ closed' \in BOOLEAN /\ output' \in Seq(Items)
        /\ delivered' \in Seq(Items) /\ cbs' \in Seq(Callbacks)
    BY <1>0, <1>1, TypeParts, Zenon
  <2> QED
    BY <1>5, <1>7, <2>1, TypeStep, Zenon
<1>9. PauseInv'
  BY <1>0, <1>1, <1>5, Zenon DEF PauseInv
<1>10. Stays
  BY <1>1, <1>5, <1>7, IdleParser, Zenon DEF Stays
<1>11. ParserInv' /\ CbsInv' /\ HandoverExact'
  BY <1>0, <1>1, <1>10, ParserFrame, CbsFrame, Zenon DEF HandoverExact
<1>12. AnswerInv' /\ RepliesInOrder'
  BY <1>0, <1>1, <1>5, ReplyFrame DEF Unanswered
<1> QED
  BY <1>7, <1>8, <1>9, <1>11, <1>12, Zenon DEF ConnInv

-----------------------------------------------------------------------------
(* htparser_run *)

\* What the parser has not read of the input is what follows in the stream.
LEMMA Ahead ==
    ASSUME TypeOK, InputInv
    PROVE  /\ Parsed \in Nat /\ Parsed + (Len(input) - run.off) = next
           /\ \A i \in 1 .. Len(input) - run.off : input[run.off + i] = Stream[Parsed + i]
<1>1. /\ next \in Nat /\ Len(input) \in Nat /\ run.off \in Nat /\ run.off <= Len(input)
      /\ Len(input) <= next
  BY Numbers DEF InputInv
<1>2. Parsed \in Nat /\ Parsed + (Len(input) - run.off) = next
  BY <1>1 DEF Parsed
<1>3. ASSUME NEW i \in 1 .. Len(input) - run.off PROVE input[run.off + i] = Stream[Parsed + i]
  <2>1. run.off + i \in 1 .. Len(input) /\ next - Len(input) + (run.off + i) = Parsed + i
    BY <1>1 DEF Parsed
  <2> QED
    BY <2>1 DEF InputInv
<1> QED
  BY <1>2, <1>3

\* At the end of the k-th message, the next token is the head of the message after it.
LEMMA NextHead ==
    ASSUME TypeOK, InputInv, NEW k \in Nat, k <= NumMsgs, Parsed = Start[k + 1], run.off < Len(input)
    PROVE  k + 1 \in Msgs /\ Tok.msg = k + 1
<1>1. /\ next \in Nat /\ next <= Len(Stream) /\ Len(input) \in Nat /\ run.off \in Nat /\ NumMsgs \in Nat
  BY Numbers
<1>2. Parsed \in Nat /\ Parsed + (Len(input) - run.off) = next
  BY Ahead
<1>3. Tok = Stream[Parsed + 1]
  <2>1. 1 \in 1 .. Len(input) - run.off
    BY <1>1
  <2> QED
    BY <2>1, Ahead DEF Tok
<1>4. k # NumMsgs
  BY <1>1, <1>2, StreamAssumption
<1>5. k + 1 \in Msgs
  BY <1>1, <1>4 DEF Msgs
<1>6. Stream[Start[k + 1] + 1] = [msg |-> k + 1, part |-> 0]
  BY <1>5, StreamFacts, Zenon
<1> QED
  BY <1>3, <1>5, <1>6

\* A run of the parser has a live connection that is not paused.
LEMMA RunFacts ==
    ASSUME ConnInv, run.pc = "run"
    PROVE  /\ c.state = "live" /\ "PAUSED" \notin c.flags /\ "OWNER" \in c.flags
           /\ "WAITING" \notin c.flags /\ ~c.resume_ev
BY DEF ConnInv, PauseInv

\* on_msg_begin: a request that is not finished fails the parser, and the
\* next message has a request of its own.
LEMMA RunBeginInv == ASSUME ConnInv, RunBegin PROVE ConnInv'
<1>0. TypeOK /\ PauseInv /\ InputInv /\ CbsInv /\ ParserInv /\ AnswerInv /\ RepliesInOrder
  BY DEF ConnInv
<1>1. /\ run.pc = "run" /\ p.state = "start" /\ ~p.paused /\ run.off < Len(input)
      /\ UNCHANGED <<c, run, input, output, next, closed, delivered, cbs>>
  BY Zenon DEF RunBegin, Running
<1>2. c.state = "live" /\ "PAUSED" \notin c.flags /\ "OWNER" \in c.flags /\ "WAITING" \notin c.flags
      /\ ~c.resume_ev
  BY <1>1, RunFacts, Zenon
<1>3. req.msg # 0 => req.cb # "none" /\ DispatchedInv
  BY <1>0, <1>1, <1>2, Zenon DEF ParserInv, ParsingInv
<1>4. req.msg = 0 => NoRequestInv
  BY <1>0, <1>2 DEF ParserInv
<1>5. Parsed = Start[Len(cbs) + 1] /\ c.scratch = << >> /\ Parsed' = Parsed
  <2>1. Parsed' = Parsed
    BY <1>0, <1>1, ParsedFrame
  <2> QED
    BY <1>3, <1>4, <2>1 DEF DispatchedInv, NoRequestInv
<1>6. c \in Conns /\ req \in Requests /\ p \in Parsers
  BY <1>0, TypeParts, Zenon
<1>7. InputInv' /\ CbsInv' /\ HandoverExact'
  BY <1>0, <1>1, <1>2, InputStep, CbsFrame, Zenon DEF HandoverExact
<1>8. CASE p' = Failed /\ req' = req /\ req # NoReq
  <2>1. p' \in Parsers /\ p'.state = "error" /\ ~p'.paused
    BY <1>1, <1>6, <1>8, Zenon DEF Failed, Parsers
  <2>2. TypeOK'
    BY <1>0, <1>1, <1>8, <2>1, TypeParts, TypeStep, Zenon
  <2>3. PauseInv'
    BY <1>0, <1>1, <1>2, <1>8, <2>1 DEF PauseInv
  <2>4. req.msg # 0 /\ req.cb # "none" /\ DispatchedInv
    BY <1>3, <1>4, <1>8, Zenon DEF NoRequestInv
  <2>5. DispatchedInv'
    BY <1>1, <1>5, <1>8, <2>1, <2>4 DEF DispatchedInv
  <2>6. ParserInv'
    BY <1>8, <2>4, <2>5, Zenon DEF ParserInv
  <2>7. AnswerInv' /\ RepliesInOrder'
    BY <1>0, <1>1, <1>8, ReplyFrame, Zenon DEF Unanswered
  <2> QED
    BY <1>7, <2>2, <2>3, <2>6, <2>7 DEF ConnInv
<1>9. CASE p' = [Parser EXCEPT !.state = "head"] /\ req' = NewReq(Tok.msg) /\ (req = NoReq \/ req.finished)
  <2>1. Len(cbs) + 1 \in Msgs /\ Tok.msg = Len(cbs) + 1 /\ Len(cbs) \in Nat
    <3>1. Len(cbs) \in Nat /\ Len(cbs) <= NumMsgs
      BY <1>0, Numbers DEF CbsInv
    <3> QED
      BY <1>0, <1>1, <1>5, <3>1, NextHead, Zenon
  <2>2. p' \in Parsers /\ p'.state = "head" /\ ~p'.paused
    BY <1>9, Initials, Zenon DEF Parser, Parsers
  <2>3. /\ req' \in Requests /\ req'.msg = Len(cbs) + 1 /\ req'.cb = "none" /\ req'.status = "OK"
        /\ req'.finished = FALSE /\ req'.buf = << >>
    <3>1. c.htp \in Vhosts \cup {Main} /\ << >> \in Seq(Tokens)
      BY <1>6 DEF Conns
    <3> QED
      BY <1>9, <2>1, <3>1, Zenon DEF NewReq, NoReq, Requests
  <2>4. TypeOK'
    BY <1>0, <1>1, <2>2, <2>3, TypeParts, TypeStep, Zenon
  <2>5. PauseInv'
    BY <1>0, <1>1, <1>2, <2>2, <2>3, Zenon DEF PauseInv
  <2>6. ParsingInv'
    BY <1>1, <1>5, <2>1, <2>2, <2>3, Zenon DEF ParsingInv
  <2>7. req'.msg # 0
    BY <2>1, <2>3
  <2>8. ParserInv'
    BY <2>3, <2>6, <2>7 DEF ParserInv
  <2>9. ~Unanswered /\ ~Unanswered'
    BY <1>9, <2>3, Initials, Zenon DEF Unanswered
  <2>10. AnswerInv' /\ RepliesInOrder'
    BY <1>0, <1>1, <2>9, ReplyFrame, Zenon
  <2> QED
    BY <1>7, <2>4, <2>5, <2>8, <2>10 DEF ConnInv
<1> QED
  BY <1>2, <1>8, <1>9 DEF RunBegin

\* An interim reply or a part of one is put behind the others.
LEMMA PartStep ==
    ASSUME TypeOK, RepliesInOrder, NEW n \in Nat, Finals(delivered \o output, n),
           NEW e \in Items, ~IsFinal(e), output' = Append(output, e), delivered' = delivered
    PROVE  RepliesInOrder' /\ Finals(delivered' \o output', n) /\ output' \in Seq(Items)
<1> DEFINE a == delivered \o output
<1>1. output \in Seq(Items) /\ delivered \in Seq(Items)
  BY TypeParts, Zenon
<1>2. delivered' \o output' = Append(a, e) /\ a \in Seq(Items) /\ output' \in Seq(Items)
  BY <1>1, AppendConcat
<1>3. InOrder(a) /\ Finals(a, n)
  BY Zenon DEF RepliesInOrder
<1> HIDE DEF a
<1>4. InOrder(Append(a, e)) /\ Finals(Append(a, e), n)
  BY <1>2, <1>3, PartAppend, Zenon
<1>5. RepliesInOrder' <=> InOrder(delivered' \o output')
  BY DEF RepliesInOrder, InOrder, IsFinal, Item
<1> QED
  BY <1>2, <1>4, <1>5, Zenon

\* The parser reads d tokens of the input.
LEMMA RunMoves ==
    ASSUME TypeOK, run.pc = "run", NEW d \in Nat, run.off + d <= Len(input),
           run' = [run EXCEPT !.off = @ + d], input' = input, next' = next
    PROVE  /\ run'.pc = "run" /\ Parsed' = Parsed + d
           /\ run' \in [pc : {"loop", "run", "done"}, off : 0 .. Len(input')]
<1>1. /\ run \in [pc : {"loop", "run", "done"}, off : 0 .. Len(input)]
      /\ next \in Nat /\ Len(input) \in Nat /\ run.off \in Nat
  BY TypeParts, Numbers
<1>2. run'.pc = "run" /\ run'.off = run.off + d
  BY <1>1
<1>3. Parsed' = Parsed + d
  BY <1>1, <1>2 DEF Parsed
<1> QED
  BY <1>1, <1>2, <1>3

\* Inside a message the request is the one after those that had a callback.
LEMMA ParsingFacts ==
    ASSUME ConnInv, run.pc = "run", p.state \in {"head", "body", "complete"}
    PROVE  /\ ParsingInv /\ req.msg = Len(cbs) + 1 /\ req.msg \in Msgs /\ req.cb = "none" /\ req.msg # 0
           /\ ~req.finished /\ ~Unanswered /\ Finals(delivered \o output, Len(cbs))
           /\ Len(cbs) \in Nat /\ Len(cbs) <= NumMsgs
<1>0. TypeOK /\ ParserInv /\ CbsInv /\ AnswerInv
  BY Zenon DEF ConnInv
<1>1. c.state = "live"
  BY RunFacts, Zenon
<1>2. req.msg # 0
  BY <1>0, <1>1 DEF ParserInv, NoRequestInv, Parser
<1>3. req.cb = "none"
  BY <1>0, <1>1, <1>2, Zenon DEF ParserInv, DispatchedInv
<1>4. ParsingInv
  BY <1>0, <1>1, <1>2, <1>3, Zenon DEF ParserInv
<1>5. req \in Requests /\ Len(cbs) \in Nat
  BY <1>0, TypeParts, Numbers, Zenon
<1>6. req.msg \in Msgs
  BY <1>2, <1>5 DEF Requests
<1>7. ~Unanswered
  BY <1>3, Zenon DEF Unanswered
<1>8. Finals(delivered \o output, Len(cbs))
  BY <1>0, <1>1, <1>7, Zenon DEF AnswerInv
<1> QED
  BY <1>0, <1>2, <1>3, <1>4, <1>5, <1>6, <1>7, <1>8 DEF ParsingInv, CbsInv

\* hostname and on_hdrs_complete.
LEMMA RunHeadInv == ASSUME ConnInv, RunHead PROVE ConnInv'
<1>0. TypeOK /\ PauseInv /\ InputInv /\ CbsInv /\ RepliesInOrder
  BY DEF ConnInv
<1> DEFINE m == Tok.msg
<1>1. /\ run.pc = "run" /\ p.state = "head" /\ ~p.paused /\ run.off < Len(input)
      /\ run' = [run EXCEPT !.off = @ + 1]
      /\ UNCHANGED <<input, next, closed, delivered, cbs>>
  BY DEF RunHead, Running
<1>2. PICK r \in HookResults :
        /\ c' = [c EXCEPT !.htp = VhostFor(m)]
        /\ req' = [req EXCEPT !.htp = VhostFor(m), !.status = r, !.keepalive = KeepAlive[m]]
        /\ p' = IF r = "ERROR" THEN Failed
                ELSE [state |-> IF Body[m] = 0 THEN "complete" ELSE "body",
                      paused |-> r = "PAUSE", left |-> Body[m]]
        /\ output' = IF r # "ERROR" /\ Expect[m]
                     THEN Append(output, Item(m, "continue")) ELSE output
  BY Zenon DEF RunHead
<1>3. c.state = "live" /\ "PAUSED" \notin c.flags /\ "OWNER" \in c.flags /\ "WAITING" \notin c.flags
      /\ ~c.resume_ev
  BY <1>1, RunFacts
<1>4. /\ ParsingInv /\ req.msg = Len(cbs) + 1 /\ req.msg \in Msgs /\ req.cb = "none" /\ req.msg # 0
      /\ ~req.finished /\ ~Unanswered /\ Finals(delivered \o output, Len(cbs))
      /\ Len(cbs) \in Nat /\ Len(cbs) <= NumMsgs
  BY <1>1, ParsingFacts
<1>5. Parsed = Start[req.msg] /\ req.buf = << >> /\ c.scratch = << >>
  BY <1>1, <1>4 DEF ParsingInv
<1>6. m = req.msg
  BY <1>0, <1>1, <1>4, <1>5, NextHead, Zenon
<1> HIDE DEF m
<1>7. c \in Conns /\ req \in Requests /\ p \in Parsers /\ r \in {"OK", "PAUSE", "ERROR"}
  BY <1>0, TypeParts, ConnectionAssumption, Zenon
<1>8. m \in Msgs /\ Body[m] \in Nat /\ KeepAlive[m] \in BOOLEAN /\ VhostFor(m) \in Vhosts \cup {Main}
  <2>1. c.htp \in Vhosts \cup {Main}
    BY <1>7 DEF Conns
  <2> QED
    BY <1>4, <1>6, <2>1, ConnectionAssumption, Zenon DEF VhostFor
<1>9. /\ run'.pc = "run" /\ Parsed' = Parsed + 1
      /\ run' \in [pc : {"loop", "run", "done"}, off : 0 .. Len(input')]
  <2>1. run.off + 1 <= Len(input)
    BY <1>0, <1>1, Numbers
  <2> QED
    BY <1>0, <1>1, <2>1, RunMoves
<1>10. /\ c' \in Conns /\ c'.state = "live" /\ c'.flags = c.flags /\ c'.scratch = << >>
       /\ ~c'.resume_ev
  BY <1>2, <1>3, <1>5, <1>7, <1>8 DEF Conns
<1>11. /\ req' \in Requests /\ req'.msg = m /\ req'.status = r /\ req'.cb = "none"
       /\ ~req'.finished /\ req'.buf = << >>
  BY <1>2, <1>4, <1>5, <1>6, <1>7, <1>8, Zenon DEF Requests
<1>12. /\ p' \in Parsers /\ (r = "PAUSE" => p'.paused) /\ (p'.state = "error" <=> r = "ERROR")
       /\ p'.state \in {"body", "complete", "error"}
       /\ r # "ERROR" => p'.left = Body[m] /\ (p'.state = "complete" => Body[m] = 0)
  <2>1. CASE r = "ERROR"
    BY <1>2, <1>7, <2>1 DEF Failed, Parsers
  <2>2. CASE r # "ERROR"
    BY <1>2, <1>7, <1>8, <2>2, Zenon DEF Parsers
  <2> QED
    BY <2>1, <2>2
<1>13. RepliesInOrder' /\ Finals(delivered' \o output', Len(cbs)) /\ output' \in Seq(Items)
  <2>1. CASE output' = output
    <3>1. RepliesInOrder' <=> InOrder(delivered' \o output')
      BY DEF RepliesInOrder, InOrder, IsFinal, Item
    <3> QED
      BY <1>0, <1>1, <1>4, <2>1, <3>1, TypeParts, Zenon DEF RepliesInOrder
  <2>2. CASE output' = Append(output, Item(m, "continue"))
    <3>1. Item(m, "continue") \in Items /\ ~IsFinal(Item(m, "continue"))
      BY <1>8 DEF Items, Item, IsFinal
    <3> QED
      BY <1>0, <1>1, <1>4, <2>2, <3>1, PartStep, Zenon
  <2> QED
    BY <1>2, <2>1, <2>2
<1>14. TypeOK'
  BY <1>0, <1>1, <1>9, <1>10, <1>11, <1>12, <1>13, TypeParts, TypeStep, Zenon
<1>15. PauseInv'
  BY <1>3, <1>9, <1>10, <1>11, <1>12, Zenon DEF PauseInv
<1>16. ParsingInv'
  <2>1. p'.state \in {"body", "complete"} => p'.left = Body[m]
    BY <1>12, Zenon
  <2>2. Holds(req'.buf \o c'.scratch, m, 0) /\ Body[m] - Body[m] = 0 /\ Body[m] <= Body[m]
    <3>1. << >> \o << >> = << >>
      OBVIOUS
    <3> QED
      BY <1>8, <1>10, <1>11, <3>1, HoldsNothing
  <2>3. Parsed' = Start[m] + 1 + 0
    <3>1. Start[req.msg] \in Nat
      BY <1>4, StreamFacts, Zenon
    <3>2. Parsed' = Start[m] + 1
      BY <1>5, <1>6, <1>9, Zenon
    <3> QED
      BY <1>6, <3>1, <3>2
  <2>4. p'.state = "complete" => p'.left = 0
    BY <1>12, Zenon
  <2>5. p'.state # "start" /\ p'.state # "head" /\ (p'.state = "error" => req'.status = "ERROR")
    BY <1>11, <1>12
  <2>6. req'.msg = Len(cbs') + 1 /\ run'.pc # "loop"
    BY <1>1, <1>4, <1>6, <1>9, <1>11, Zenon
  <2> QED
    BY <1>10, <1>11, <2>1, <2>2, <2>3, <2>4, <2>5, <2>6 DEF ParsingInv, Holds
<1>17. ParserInv'
  BY <1>4, <1>6, <1>11, <1>16 DEF ParserInv
<1>18. AnswerInv'
  <2>1. ~Unanswered'
    BY <1>11 DEF Unanswered
  <2> QED
    BY <1>1, <1>13, <2>1, AnswerStep, Zenon
<1>19. InputInv' /\ CbsInv' /\ HandoverExact'
  BY <1>0, <1>1, <1>10, InputStep, CbsFrame, Zenon DEF HandoverExact
<1> QED
  BY <1>13, <1>14, <1>15, <1>17, <1>18, <1>19 DEF ConnInv

\* The units of the body that one run of the parser finds in the input.
Units == SubSeq(input, run.off + 1, run.off + BodyLen)

\* They are the ones that follow those the request has.
LEMMA BodyUnits ==
    ASSUME ConnInv, Running("body"), run.off < Len(input)
    PROVE  /\ BodyLen \in Nat /\ BodyLen <= p.left /\ run.off + BodyLen <= Len(input)
           /\ p.left \in Nat /\ p.left <= Body[req.msg] /\ Body[req.msg] \in Nat
           /\ c.scratch = << >> /\ Units \in Seq(Tokens) /\ req.buf \in Seq(Tokens)
           /\ Parsed = Start[req.msg] + 1 + (Body[req.msg] - p.left)
           /\ Holds(req.buf \o Units, req.msg, (Body[req.msg] - p.left) + BodyLen)
<1>0. TypeOK /\ InputInv
  BY DEF ConnInv
<1>1. run.pc = "run" /\ p.state = "body" /\ ~p.paused
  BY Zenon DEF Running
<1>2. ParsingInv /\ req.msg \in Msgs
  BY <1>1, ParsingFacts
<1> DEFINE m == req.msg
           j == Body[m] - p.left
           n == BodyLen
           t == Units
<1>3. /\ p.left <= Body[m] /\ Parsed = Start[m] + 1 + j /\ Holds(req.buf \o c.scratch, m, j)
      /\ c.scratch = << >>
  BY <1>1, <1>2, Zenon DEF ParsingInv
<1>4. /\ input \in Seq(Tokens) /\ req \in Requests /\ p \in Parsers
      /\ Len(input) \in Nat /\ run.off \in Nat /\ run.off <= Len(input)
  BY <1>0, TypeParts, Numbers, Zenon
<1>5. req.buf \in Seq(Tokens) /\ p.left \in Nat
  BY <1>4 DEF Requests, Parsers
<1>6. Body[m] \in Nat /\ Start[m] \in Nat /\ \A k \in 1 .. Body[m] : Stream[Start[m] + 1 + k] = [msg |-> m, part |-> k]
  BY <1>2, StreamFacts, Zenon
<1>7. n \in Nat /\ n <= p.left /\ run.off + n <= Len(input)
  BY <1>4, <1>5 DEF BodyLen
<1> HIDE DEF n
<1>8. t \in Seq(Tokens) /\ Len(t) = n /\ \A i \in 1 .. n : t[i] = input[run.off + i]
  <2>1. t = SubSeq(input, run.off + 1, run.off + n)
    BY DEF Units, n
  <2> HIDE DEF t
  <2>2. /\ SubSeq(input, run.off + 1, run.off + n) \in Seq(Tokens)
        /\ Len(SubSeq(input, run.off + 1, run.off + n)) = n
        /\ \A i \in 1 .. n : SubSeq(input, run.off + 1, run.off + n)[i] = input[run.off + i]
    <3>1. input \in Seq(Tokens) /\ run.off \in Nat /\ n \in Nat /\ run.off + n <= Len(input)
      BY <1>4, <1>7, Zenon
    <3> QED
      BY <3>1, InputPiece, Zenon
  <2> QED
    BY <2>1, <2>2, Zenon
<1> HIDE DEF t
<1>9. Holds(req.buf, m, j) /\ j \in Nat
  <2>1. req.buf \o << >> = req.buf
    BY <1>5, ConcatNothing, Zenon
  <2>2. j \in Nat
    BY <1>3, <1>5, <1>6
  <2> QED
    BY <1>3, <2>1, <2>2
<1>10. ASSUME NEW k \in 1 .. n PROVE t[k] = [msg |-> m, part |-> j + k]
  <2>1. k \in 1 .. Len(input) - run.off
    BY <1>4, <1>7
  <2>2. input[run.off + k] = Stream[Parsed + k]
    BY <1>0, <2>1, Ahead, Zenon
  <2>3. j + k \in 1 .. Body[m]
    BY <1>5, <1>6, <1>7, <1>9
  <2>4. Parsed + k = Start[m] + 1 + (j + k)
    BY <1>3, <1>6, <1>9
  <2>5. Stream[Start[m] + 1 + (j + k)] = [msg |-> m, part |-> j + k]
    BY <1>6, <2>3, Zenon
  <2> QED
    BY <1>8, <2>2, <2>4, <2>5, Zenon
<1> HIDE DEF j, m
<1>11. Holds(req.buf \o t, m, j + n)
  BY <1>5, <1>8, <1>9, <1>10, HoldsMore, Zenon
<1> QED
  BY <1>3, <1>5, <1>6, <1>7, <1>8, <1>11 DEF j, m, n, t

\* ParsingInv of the next state inside a body.
LEMMA BodyStep ==
    ASSUME req'.msg = Len(cbs') + 1, ~req'.finished, p'.state \in {"body", "complete"},
           p'.left <= Body[req'.msg], p'.state = "complete" => p'.left = 0,
           Parsed' = Start[req'.msg] + 1 + (Body[req'.msg] - p'.left),
           Holds(req'.buf \o c'.scratch, req'.msg, Body[req'.msg] - p'.left),
           ~p'.paused => c'.scratch = << >>
    PROVE  ParsingInv'
BY Zenon DEF ParsingInv, Holds

\* body: what the hook takes is in buffer_in, what it pauses on in the scratch
\* buffer, and an error ends the run.
LEMMA RunBodyInv == ASSUME ConnInv, RunBody PROVE ConnInv'
<1>0. TypeOK /\ PauseInv /\ InputInv /\ CbsInv /\ AnswerInv /\ RepliesInOrder
  BY DEF ConnInv
<1> DEFINE n == BodyLen
           m == req.msg
           t == Units
           j == Body[m] - p.left
<1>1. /\ Running("body") /\ run.pc = "run" /\ p.state = "body" /\ ~p.paused /\ run.off < Len(input)
      /\ run' = [run EXCEPT !.off = @ + n]
      /\ UNCHANGED <<input, output, next, closed, delivered, cbs>>
  BY Zenon DEF RunBody, Running
<1>2. /\ n \in Nat /\ n <= p.left /\ run.off + n <= Len(input)
      /\ p.left \in Nat /\ p.left <= Body[m] /\ Body[m] \in Nat
      /\ c.scratch = << >> /\ t \in Seq(Tokens) /\ req.buf \in Seq(Tokens)
      /\ Parsed = Start[m] + 1 + j /\ Holds(req.buf \o t, m, j + n)
  BY <1>1, BodyUnits, Zenon
<1>a. c.scratch \o t = t /\ t \o << >> = t
  BY <1>2, ConcatNothing, Zenon
<1>b. n \in Nat /\ n <= p.left /\ p.left \in Nat /\ p.left <= Body[m] /\ Body[m] \in Nat
  BY <1>2
<1>3. \/ /\ c' = [c EXCEPT !.flags = @ \cup {"ERROR"}]
         /\ req' = [req EXCEPT !.status = "TOO_LONG"]
         /\ p' = Failed
      \/ \E r \in HookResults :
           /\ req' = [req EXCEPT !.status = r, !.buf = IF r = "OK" THEN @ \o t ELSE @]
           /\ c' = [c EXCEPT !.scratch = IF r = "OK" THEN << >> ELSE t,
                             !.body_bytes_read = @ + n]
           /\ p' = IF r = "ERROR" THEN Failed
                   ELSE [[p EXCEPT !.left = @ - n,
                                   !.state = IF p.left = n THEN "complete" ELSE "body"]
                         EXCEPT !.paused = r = "PAUSE"]
  BY <1>a, Zenon DEF RunBody, Units
<1>4. c.state = "live" /\ "PAUSED" \notin c.flags /\ "OWNER" \in c.flags /\ "WAITING" \notin c.flags
      /\ ~c.resume_ev
  BY <1>1, RunFacts
<1>5. /\ m = Len(cbs) + 1 /\ m \in Msgs /\ req.cb = "none" /\ m # 0 /\ ~req.finished /\ ~Unanswered
  BY <1>1, ParsingFacts
<1>6. c \in Conns /\ req \in Requests /\ p \in Parsers
  BY <1>0, TypeParts, Zenon
<1>7. /\ run'.pc = "run" /\ Parsed' = Parsed + n
      /\ run' \in [pc : {"loop", "run", "done"}, off : 0 .. Len(input')]
  BY <1>0, <1>1, <1>2, RunMoves, Zenon
<1> HIDE DEF n, m, t, j
<1>8. SUFFICES /\ c' \in Conns /\ req' \in Requests /\ p' \in Parsers
               /\ c'.state = "live" /\ "PAUSED" \notin c'.flags /\ "OWNER" \in c'.flags
               /\ "WAITING" \notin c'.flags /\ ~c'.resume_ev
               /\ req'.msg = m /\ req'.cb = "none" /\ ~req'.finished
               /\ (req'.status = "PAUSE" => p'.paused) /\ ParsingInv'
  <2>1. TypeOK'
    BY <1>0, <1>1, <1>7, <1>8, TypeParts, TypeStep, Zenon
  <2>2. PauseInv'
    BY <1>7, <1>8, Zenon DEF PauseInv
  <2>3. ParserInv'
    BY <1>5, <1>8, Zenon DEF ParserInv
  <2>4. ~Unanswered'
    BY <1>8, Zenon DEF Unanswered
  <2>5. AnswerInv' /\ RepliesInOrder'
    BY <1>0, <1>1, <1>4, <1>5, <2>4, ReplyFrame
  <2>6. InputInv' /\ CbsInv' /\ HandoverExact'
    BY <1>0, <1>1, <1>8, InputStep, CbsFrame, Zenon DEF HandoverExact
  <2> QED
    BY <2>1, <2>2, <2>3, <2>5, <2>6 DEF ConnInv
<1>9. CASE /\ c' = [c EXCEPT !.flags = @ \cup {"ERROR"}]
           /\ req' = [req EXCEPT !.status = "TOO_LONG"]
           /\ p' = Failed
  <2>1. c' \in Conns /\ c'.state = "live" /\ c'.flags = c.flags \cup {"ERROR"} /\ ~c'.resume_ev
    BY <1>4, <1>6, <1>9 DEF Conns
  <2>2. req' \in Requests /\ req'.msg = m /\ req'.cb = "none" /\ ~req'.finished /\ req'.status = "TOO_LONG"
    BY <1>5, <1>6, <1>9 DEF Requests, m
  <2>3. p' \in Parsers /\ p'.state = "error"
    BY <1>6, <1>9 DEF Parsers, Failed
  <2>4. ParsingInv'
    BY <1>1, <1>5, <1>7, <2>2, <2>3, Zenon DEF ParsingInv
  <2> QED
    BY <1>4, <2>1, <2>2, <2>3, <2>4
<1>10. CASE \E r \in HookResults :
           /\ req' = [req EXCEPT !.status = r, !.buf = IF r = "OK" THEN @ \o t ELSE @]
           /\ c' = [c EXCEPT !.scratch = IF r = "OK" THEN << >> ELSE t,
                             !.body_bytes_read = @ + n]
           /\ p' = IF r = "ERROR" THEN Failed
                   ELSE [[p EXCEPT !.left = @ - n,
                                   !.state = IF p.left = n THEN "complete" ELSE "body"]
                         EXCEPT !.paused = r = "PAUSE"]
  <2>1. PICK r \in HookResults :
           /\ req' = [req EXCEPT !.status = r, !.buf = IF r = "OK" THEN @ \o t ELSE @]
           /\ c' = [c EXCEPT !.scratch = IF r = "OK" THEN << >> ELSE t,
                             !.body_bytes_read = @ + n]
           /\ p' = IF r = "ERROR" THEN Failed
                   ELSE [[p EXCEPT !.left = @ - n,
                                   !.state = IF p.left = n THEN "complete" ELSE "body"]
                         EXCEPT !.paused = r = "PAUSE"]
    BY <1>10, Zenon
  <2> DEFINE b == IF r = "OK" THEN req.buf \o t ELSE req.buf
             s == IF r = "OK" THEN << >> ELSE t
  <2>2. r \in {"OK", "PAUSE", "ERROR"}
    BY ConnectionAssumption, Zenon
  <2>3. b \in Seq(Tokens) /\ s \in Seq(Tokens) /\ b \o s = req.buf \o t /\ (r = "OK" => s = << >>)
    <3>1. req.buf \o t \in Seq(Tokens) /\ << >> \in Seq(Tokens)
      BY <1>2, ConcatFacts
    <3>2. (req.buf \o t) \o << >> = req.buf \o t
      BY <3>1, ConcatNothing
    <3> QED
      BY <1>2, <3>1, <3>2
  <2>4. req' = [req EXCEPT !.status = r, !.buf = b] /\ c' = [c EXCEPT !.scratch = s, !.body_bytes_read = @ + n]
    BY <2>1
  <2> HIDE DEF b, s
  <2>5. /\ c' \in Conns /\ c'.state = "live" /\ c'.flags = c.flags /\ ~c'.resume_ev /\ c'.scratch = s
    <3>1. c' = [c EXCEPT !.scratch = s, !.body_bytes_read = @ + n]
      BY <2>4
    <3>2. s \in Seq(Tokens)
      BY <2>3, Zenon
    <3>3. c.body_bytes_read \in Nat
      BY <1>6, Zenon DEF Conns
    <3>4. c.body_bytes_read + n \in Nat
      BY <1>b, <3>3
    <3> QED
      BY <1>4, <1>6, <3>1, <3>2, <3>4, Zenon DEF Conns
  <2>6. /\ req' \in Requests /\ req'.msg = m /\ req'.cb = "none" /\ ~req'.finished
        /\ req'.status = r /\ req'.buf = b
    BY <1>5, <1>6, <2>2, <2>3, <2>4, Zenon DEF Requests, m
  <2>7. CASE r = "ERROR"
    <3>1. p' \in Parsers /\ p'.state = "error"
      BY <1>6, <2>1, <2>7 DEF Parsers, Failed
    <3>2. ParsingInv'
      BY <1>1, <1>5, <1>7, <2>6, <2>7, <3>1 DEF ParsingInv
    <3> QED
      BY <1>4, <2>5, <2>6, <2>7, <3>1, <3>2
  <2>8. CASE r # "ERROR"
    <3>1. /\ p' \in Parsers /\ p'.left = p.left - n /\ p'.paused = (r = "PAUSE")
          /\ p'.state = IF p.left = n THEN "complete" ELSE "body"
      <4> DEFINE u == IF p.left = n THEN "complete" ELSE "body"
                 q == [p EXCEPT !.left = @ - n, !.state = u]
      <4>1. p' = [q EXCEPT !.paused = r = "PAUSE"]
        BY <2>1, <2>8, Zenon
      <4>2. u \in {"complete", "body"} /\ p.left - n \in Nat
        BY <1>b
      <4> HIDE DEF u
      <4>3. q \in Parsers /\ q.left = p.left - n /\ q.state = u
        BY <1>6, <4>2, Zenon DEF Parsers
      <4> HIDE DEF q
      <4>4. p' \in Parsers /\ p'.left = q.left /\ p'.state = q.state /\ p'.paused = (r = "PAUSE")
        BY <4>1, <4>3, Zenon DEF Parsers
      <4> QED
        BY <4>3, <4>4 DEF u
    <3>2. Body[m] - p'.left = j + n /\ p'.left <= Body[m] /\ (p'.state = "complete" => p'.left = 0)
      BY <1>b, <3>1 DEF j
    <3>3. Parsed' = Start[m] + 1 + (j + n)
      <4>1. Start[m] \in Nat
        BY <1>5, StreamFacts, Zenon
      <4>2. j \in Nat /\ Parsed = Start[m] + 1 + j /\ Parsed' = Parsed + n
        BY <1>2, <1>b, <1>7 DEF j
      <4> QED
        BY <1>b, <4>1, <4>2
    <3>4. p'.state \in {"body", "complete"} /\ (~p'.paused => s = << >>)
      BY <2>2, <2>3, <2>8, <3>1, Zenon
    <3>5. Holds(req'.buf \o c'.scratch, m, Body[m] - p'.left)
      BY <1>2, <2>3, <2>5, <2>6, <3>2, Zenon
    <3>6. ParsingInv'
      BY <1>1, <1>5, <2>5, <2>6, <3>2, <3>3, <3>4, <3>5, BodyStep, Zenon
    <3> QED
      BY <1>4, <2>5, <2>6, <3>1, <3>6, Zenon
  <2> QED
    BY <2>7, <2>8
<1> QED
  BY <1>3, <1>9, <1>10, Zenon

\* The callback of the next message joins the others.
LEMMA CbsAppend ==
    ASSUME TypeOK, CbsInv, NEW e \in Callbacks, e.msg = Len(cbs) + 1,
           Holds(e.body, Len(cbs) + 1, Body[Len(cbs) + 1]), cbs' = Append(cbs, e)
    PROVE  CbsInv' /\ Len(cbs') = Len(cbs) + 1 /\ cbs' \in Seq(Callbacks)
<1>1. cbs \in Seq(Callbacks) /\ Len(cbs) \in Nat
  BY TypeParts, Numbers, Zenon
<1>2. /\ cbs' \in Seq(Callbacks) /\ Len(cbs') = Len(cbs) + 1 /\ cbs'[Len(cbs) + 1] = e
      /\ \A i \in 1 .. Len(cbs) : cbs'[i] = cbs[i]
  BY <1>1
<1>3. Len(cbs') <= NumMsgs
  BY <1>1, <1>2, ConnectionAssumption DEF Callbacks, Msgs
<1>4. ASSUME NEW i \in 1 .. Len(cbs') PROVE cbs'[i].msg = i /\ Holds(cbs'[i].body, i, Body[i])
  <2>1. CASE i = Len(cbs) + 1
    BY <1>2, <2>1, Zenon
  <2>2. CASE i \in 1 .. Len(cbs)
    BY <1>2, <2>2, Zenon DEF CbsInv
  <2> QED
    BY <1>1, <1>2, <2>1, <2>2
<1> QED
  BY <1>2, <1>3, <1>4, Zenon DEF CbsInv, Holds

\* What the callback queues is nothing, a part, or the final reply that is due.
LEMMA ReplyStep ==
    ASSUME ConnInv, NEW a \in CbActions, NEW m \in Msgs, m = Len(cbs) + 1,
           Finals(delivered \o output, Len(cbs)),
           output' = output \o Reply(a, m), delivered' = delivered
    PROVE  /\ RepliesInOrder' /\ output' \in Seq(Items)
           /\ Finals(delivered' \o output', IF a \in {"reply", "stream_length"} THEN m ELSE m - 1)
<1>0. TypeOK /\ RepliesInOrder
  BY Zenon DEF ConnInv
<1>1. output \in Seq(Items) /\ delivered \in Seq(Items) /\ Len(cbs) \in Nat
  BY <1>0, TypeParts, Numbers, Zenon
<1>2. \A k \in {"final", "part"} : Item(m, k) \in Items /\ output \o <<Item(m, k)>> = Append(output, Item(m, k))
  <2>1. \A k \in {"final", "part"} : Item(m, k) \in Items
    BY Zenon DEF Items, Item
  <2> HIDE DEF Items, Item
  <2> QED
    BY <1>1, <2>1
<1>3. CASE a \in {"reply", "stream_length"}
  <2>1. output' = Append(output, Item(Len(cbs) + 1, "final"))
    BY <1>2, <1>3, Zenon DEF Reply
  <2> QED
    BY <1>0, <1>1, <1>3, <2>1, FinalStep, Zenon
<1>4. CASE a = "stream_chunked"
  <2>1. output' = Append(output, Item(m, "part"))
    BY <1>2, <1>4, Zenon DEF Reply
  <2>2. Item(m, "part") \in Items /\ ~IsFinal(Item(m, "part"))
    BY <1>2, Zenon DEF IsFinal, Item
  <2>3. m - 1 = Len(cbs)
    BY <1>1
  <2> QED
    BY <1>0, <1>1, <1>4, <2>1, <2>2, <2>3, PartStep, Zenon
<1>5. CASE a \notin {"reply", "stream_length", "stream_chunked"}
  <2>1. Reply(a, m) = << >>
    BY <1>5, Zenon DEF Reply
  <2>2. output' = output
    BY <1>1, <2>1, ConcatNothing, Zenon
  <2>3. RepliesInOrder' <=> InOrder(delivered' \o output')
    BY Zenon DEF RepliesInOrder, InOrder, IsFinal, Item
  <2>4. m - 1 = Len(cbs)
    BY <1>1
  <2> QED
    BY <1>0, <1>1, <1>5, <2>2, <2>3, <2>4, Zenon DEF RepliesInOrder
<1> QED
  BY <1>3, <1>4, <1>5

\* on_msg_complete: the callback runs with the body, once, and answers, pauses
\* or takes the connection.
LEMMA RunCompleteInv == ASSUME ConnInv, RunComplete PROVE ConnInv'
<1>0. TypeOK /\ PauseInv /\ InputInv /\ CbsInv
  BY DEF ConnInv
<1> DEFINE m == req.msg
           e == [msg |-> req.msg, htp |-> req.htp, body |-> req.buf]
<1>1. /\ run.pc = "run" /\ p.state = "complete" /\ ~p.paused
      /\ run' = [run EXCEPT !.pc = "done"]
      /\ UNCHANGED <<input, next, closed, delivered>>
  BY Zenon DEF RunComplete, Running
<1>2. c.state = "live" /\ "PAUSED" \notin c.flags /\ "OWNER" \in c.flags /\ "WAITING" \notin c.flags
      /\ ~c.resume_ev
  BY <1>1, RunFacts
<1>3. PICK a \in CbActions :
        /\ req' = [req EXCEPT !.cb = a, !.finished = a = "reply",
                              !.status = IF Pauses(a) /\ a # "conn_pause" THEN "PAUSE" ELSE @]
        /\ c' = CASE Pauses(a) -> [c EXCEPT !.flags = @ \cup {"PAUSED"}, !.reading = FALSE]
                  [] a = "own" -> [c EXCEPT !.flags = @ \ {"OWNER"}, !.reading = FALSE]
                  [] OTHER     -> c
        /\ p' = IF Pauses(a) THEN Failed ELSE [p EXCEPT !.state = "start"]
        /\ output' = output \o Reply(a, m)
        /\ cbs' = Append(cbs, e)
  BY <1>2, Zenon DEF RunComplete
<1>4. /\ ParsingInv /\ m = Len(cbs) + 1 /\ m \in Msgs /\ req.cb = "none" /\ m # 0
      /\ Finals(delivered \o output, Len(cbs)) /\ Len(cbs) \in Nat
  BY <1>1, ParsingFacts, Zenon
<1>5. c \in Conns /\ req \in Requests /\ p \in Parsers
  BY <1>0, TypeParts
<1>6. /\ p.left = 0 /\ Parsed = Start[m] + 1 + (Body[m] - p.left) /\ c.scratch = << >>
      /\ Holds(req.buf \o c.scratch, m, Body[m] - p.left)
  BY <1>1, <1>4, Zenon DEF ParsingInv
<1>7. req.buf \in Seq(Tokens) /\ Holds(req.buf, m, Body[m]) /\ Parsed = Start[m + 1]
  <2>1. Start[m] \in Nat /\ Body[m] \in Nat /\ Start[m + 1] = Start[m] + Body[m] + 1
    BY <1>4, StreamFacts, Zenon
  <2>2. Body[m] - 0 = Body[m] /\ Start[m] + 1 + Body[m] = Start[m + 1]
    BY <2>1
  <2>3. req.buf \in Seq(Tokens)
    BY <1>5, Zenon DEF Requests
  <2>4. req.buf \o << >> = req.buf
    BY <2>3, ConcatNothing
  <2> QED
    BY <1>6, <2>2, <2>3, <2>4
<1>8. CbsInv' /\ Len(cbs') = m /\ cbs' \in Seq(Callbacks)
  <2>1. e \in Callbacks /\ e.msg = m /\ e.body = req.buf
    BY <1>4, <1>5 DEF Requests, Callbacks
  <2> HIDE DEF e
  <2> QED
    BY <1>0, <1>3, <1>4, <1>7, <2>1, CbsAppend, Zenon
<1>9. RepliesInOrder' /\ output' \in Seq(Items)
      /\ Finals(delivered' \o output', IF a \in {"reply", "stream_length"} THEN m ELSE m - 1)
  BY <1>1, <1>3, <1>4, ReplyStep, Zenon
<1> HIDE DEF e
<1>10. /\ req' \in Requests /\ req'.msg = m /\ req'.cb = a /\ req'.finished = (a = "reply")
       /\ req'.status = IF Pauses(a) /\ a # "conn_pause" THEN "PAUSE" ELSE req.status
  <2>1. req' = [req EXCEPT !.cb = a, !.finished = a = "reply",
                           !.status = IF Pauses(a) /\ a # "conn_pause" THEN "PAUSE" ELSE @]
    BY <1>3
  <2> HIDE DEF m
  <2> QED
    BY <1>5, <2>1, Zenon DEF Requests, m
<1>11. /\ c' \in Conns /\ c'.state = "live" /\ c'.scratch = << >> /\ ~c'.resume_ev
       /\ c'.flags = IF Pauses(a) THEN c.flags \cup {"PAUSED"}
                     ELSE IF a = "own" THEN c.flags \ {"OWNER"} ELSE c.flags
       /\ Pauses(a) => ~c'.reading
  <2>1. CASE Pauses(a)
    <3>1. c' = [c EXCEPT !.flags = @ \cup {"PAUSED"}, !.reading = FALSE]
      BY <1>3, <2>1 DEF Pauses
    <3> QED
      BY <1>2, <1>5, <1>6, <2>1, <3>1, Zenon DEF Conns
  <2>2. CASE ~Pauses(a) /\ a = "own"
    <3>1. c' = [c EXCEPT !.flags = @ \ {"OWNER"}, !.reading = FALSE]
      BY <1>3, <2>2, Zenon
    <3> QED
      BY <1>2, <1>5, <1>6, <2>2, <3>1, Zenon DEF Conns
  <2>3. CASE ~Pauses(a) /\ a # "own"
    <3>1. c' = c
      BY <1>3, <2>3
    <3> QED
      BY <1>2, <1>5, <1>6, <2>3, <3>1
  <2> QED
    BY <2>1, <2>2, <2>3
<1>12. p' \in Parsers /\ p'.state = IF Pauses(a) THEN "error" ELSE "start"
  BY <1>3, <1>5, Zenon DEF Failed, Parsers
<1>13. /\ run'.pc = "done" /\ run'.off = run.off
       /\ run' \in [pc : {"loop", "run", "done"}, off : 0 .. Len(input')] /\ Parsed' = Parsed
  <2>1. run \in [pc : {"loop", "run", "done"}, off : 0 .. Len(input)]
    BY <1>0, TypeParts
  <2>2. /\ run'.pc = "done" /\ run'.off = run.off
        /\ run' \in [pc : {"loop", "run", "done"}, off : 0 .. Len(input')]
    BY <1>1, <2>1
  <2> QED
    BY <1>0, <1>1, <2>2, ParsedFrame
<1>14. TypeOK'
  BY <1>0, <1>1, <1>8, <1>9, <1>10, <1>11, <1>12, <1>13, TypeParts, TypeStep
<1>15. PauseInv'
  <2>1. req.status # "PAUSE"
    BY <1>0, <1>1 DEF PauseInv
  <2>2. Pauses(a) => a # "reply" /\ a # "own"
    BY Zenon DEF Pauses
  <2>3. "PAUSED" \in c'.flags <=> Pauses(a)
    BY <1>2, <1>11, Zenon
  <2>4. "OWNER" \notin c'.flags => a = "own"
    BY <1>2, <1>11, Zenon
  <2>5. "WAITING" \notin c'.flags /\ (Pauses(a) => "OWNER" \in c'.flags)
    BY <1>2, <1>11
  <2>6. req'.status = "PAUSE" => Pauses(a) /\ a # "conn_pause"
    BY <1>10, <2>1, Zenon
  <2> QED
    BY <1>10, <1>11, <1>12, <1>13, <2>2, <2>3, <2>4, <2>5, <2>6, Zenon DEF PauseInv
<1>16. ParserInv'
  <2>1. a # "none"
    BY ConnectionAssumption
  <2>2. DispatchedInv'
    BY <1>7, <1>8, <1>10, <1>11, <1>12, <1>13, Zenon DEF DispatchedInv
  <2> QED
    BY <1>4, <1>10, <2>1, <2>2, Zenon DEF ParserInv
<1>17. AnswerInv'
  <2>1. a # "none"
    BY ConnectionAssumption
  <2>2. Unanswered' <=> a \notin {"reply", "stream_length"}
    BY <1>10, <2>1, Zenon DEF Unanswered
  <2> QED
    BY <1>8, <1>9, <2>2, AnswerStep
<1>18. InputInv' /\ HandoverExact'
  BY <1>0, <1>1, <1>11, InputStep DEF HandoverExact
<1> QED
  BY <1>8, <1>9, <1>14, <1>15, <1>16, <1>17, <1>18 DEF ConnInv

-----------------------------------------------------------------------------
(* The invariant and what follows from it *)

\* A connection that has just been accepted.
LEMMA InitInv == ASSUME Init PROVE ConnInv
<1>1. /\ c = Conn /\ req = NoReq /\ p = Parser /\ run = Loop /\ input = << >> /\ output = << >>
      /\ next = 0 /\ closed = FALSE /\ delivered = << >> /\ cbs = << >>
  BY DEF Init
<1>2. Len(<< >>) = 0 /\ << >> \o << >> = << >> /\ DOMAIN << >> = {} /\ 1 .. 0 = {}
  OBVIOUS
<1>3. NumMsgs \in Nat /\ Len(Stream) \in Nat /\ Start[1] = 0
  BY ConnectionAssumption, StreamAssumption
<1>4. TypeOK
  <2>1. << >> \in Seq(Tokens) /\ << >> \in Seq(Items) /\ << >> \in Seq(Callbacks)
    OBVIOUS
  <2>2. 0 \in 0 .. Len(Stream)
    BY <1>3
  <2>3. run \in [pc : {"loop", "run", "done"}, off : 0 .. Len(input)]
    BY <1>1, <1>2, LoopFields
  <2>4. input \in Seq(Tokens) /\ output \in Seq(Items) /\ delivered \in Seq(Items) /\ cbs \in Seq(Callbacks)
    BY <1>1, <2>1, Zenon
  <2> QED
    BY <1>1, <2>2, <2>3, <2>4, Initials, TypeParts, Zenon
<1>5. PauseInv
  BY <1>1, LoopFields, Initials, Zenon DEF PauseInv, Conn
<1>6. InputInv /\ CbsInv
  BY <1>1, <1>2, <1>3 DEF InputInv, CbsInv
<1>7. ParserInv
  <2>1. Parsed = 0
    <3>1. next = 0 /\ Len(input) = 0 /\ run.off = 0
      BY <1>1, <1>2, LoopFields, Zenon
    <3> QED
      BY <3>1 DEF Parsed
  <2>2. NoRequestInv
    BY <1>1, <1>2, <1>3, <2>1 DEF NoRequestInv, Conn
  <2> QED
    BY <1>1, <2>2, Initials DEF ParserInv
<1>8. AnswerInv /\ RepliesInOrder
  <2>1. ~Unanswered
    BY <1>1, Initials, Zenon DEF Unanswered
  <2> QED
    BY <1>1, <1>2, <2>1, Zenon DEF AnswerInv, RepliesInOrder, InOrder, Finals
<1>9. HandoverExact
  BY <1>1, Zenon DEF HandoverExact, Conn
<1> QED
  BY <1>4, <1>5, <1>6, <1>7, <1>8, <1>9, Zenon DEF ConnInv

\* A step that changes nothing.
LEMMA StutterInv == ASSUME ConnInv, UNCHANGED vars PROVE ConnInv'
<1>0. TypeOK /\ PauseInv /\ ParserInv
  BY Zenon DEF ConnInv
<1>1. UNCHANGED <<c, req, p, run, input, output, next, closed, delivered, cbs>>
  BY Zenon DEF vars
<1>2. TypeOK'
  BY <1>0, <1>1, TypeParts, TypeStep, Zenon
<1>3. PauseInv'
  BY <1>0, <1>1, Zenon DEF PauseInv
<1>4. ParserInv' /\ InputInv' /\ CbsInv' /\ HandoverExact'
  <2>1. Parsed' = Parsed
    BY <1>0, <1>1, ParsedFrame
  <2>2. ParserInv'
    BY <1>0, <1>1, <2>1, Zenon DEF ParserInv, NoRequestInv, ParsingInv, DispatchedInv, Holds
  <2> QED
    BY <1>0, <1>1, <2>2, InputStep, CbsFrame, Zenon DEF ConnInv, HandoverExact
<1>5. AnswerInv' /\ RepliesInOrder'
  BY <1>1, ReplyFrame DEF ConnInv, Unanswered
<1> QED
  BY <1>2, <1>3, <1>4, <1>5 DEF ConnInv

\* Every callback of the event loop keeps the invariant.
LEMMA NextInv == ASSUME ConnInv, [Next]_vars PROVE ConnInv'
<1>1. CASE RunParser
  BY <1>1, RunBeginInv, RunHeadInv, RunBodyInv, RunCompleteInv, RunOutInv, Zenon DEF RunParser
<1>2. CASE ReadDone
  BY <1>2, ReadHandoverInv, ReadFreesInv, ReadPauseInv, ReadReturnInv, Zenon DEF ReadDone
<1>3. CASE Flush \/ WriteCb
  BY <1>3, FlushInv, WriteDrainingInv, WriteQuietInv, WriteReadsInv, WriteKeepAliveInv, WriteCloseInv, Zenon
     DEF WriteCb
<1>4. CASE ReadEof \/ WriteFails \/ DrainFails \/ ResumeCb
  BY <1>4, SocketEventInv, DrainFailsInv, ResumeFreesInv, ResumeWaitsInv, ResumeReadsInv, Zenon DEF ResumeCb
<1>5. CASE AppFinish \/ AppResume \/ Recv \/ Close
  BY <1>5, AppFinishInv, AppResumeInv, RecvInv, CloseInv, Zenon
<1> QED
  BY <1>1, <1>2, <1>3, <1>4, <1>5, StutterInv, Zenon DEF Next

\* Of every connection: where the parser is, what the request holds, which
\* replies are queued and whether it is paused agree, whatever the callbacks do.
THEOREM Invariant == Spec => []ConnInv
<1>1. Init => ConnInv
  BY InitInv
<1>2. ConnInv /\ [Next]_vars => ConnInv'
  BY NextInv
<1> QED
  BY <1>1, <1>2, PTL DEF Spec

\* The client receives the replies in the order of its requests, one to a
\* request, whatever the callbacks pause, defer or stream.
THEOREM RepliesOrdered == Spec => []RepliesInOrder
<1>1. ConnInv => RepliesInOrder
  BY DEF ConnInv
<1> QED
  BY <1>1, Invariant, PTL

\* A request callback finds the whole body of its own message and nothing else
\* in buffer_in, however it was cut into reads and however often a hook paused.
THEOREM BodiesIntact == Spec => []BodyIntact
<1>1. ConnInv => BodyIntact
  <2> SUFFICES ASSUME ConnInv, NEW i \in DOMAIN cbs
               PROVE  cbs[i].body = [k \in 1 .. Body[cbs[i].msg] |-> [msg |-> cbs[i].msg, part |-> k]]
    BY Zenon DEF BodyIntact
  <2>1. cbs \in Seq(Callbacks) /\ CbsInv
    BY TypeParts DEF ConnInv
  <2>2. i \in 1 .. Len(cbs) /\ cbs[i] \in Callbacks
    BY <2>1
  <2>3. cbs[i].msg = i /\ Holds(cbs[i].body, i, Body[i])
    BY <2>1, <2>2, Zenon DEF CbsInv
  <2>4. i \in Msgs /\ cbs[i].body \in Seq(Tokens)
    BY <2>2, <2>3 DEF Callbacks
  <2>5. cbs[i].body = [k \in 1 .. Body[i] |-> [msg |-> i, part |-> k]]
    BY <2>3, <2>4, HoldsAll, Zenon
  <2> QED
    BY <2>3, <2>5, Zenon
<1> QED
  BY <1>1, Invariant, PTL

\* A connection that is handed over has exactly the bytes after its request.
THEOREM HandedOver == Spec => []HandoverExact
<1>1. ConnInv => HandoverExact
  BY DEF ConnInv
<1> QED
  BY <1>1, Invariant, PTL

\* What a step does to a paused connection.
PauseStep ==
    "PAUSED" \in c.flags =>
        /\ c'.state = "live" /\ req'.msg = req.msg
        /\ Idle => cbs' = cbs /\ p' = p

\* Only the step that resumes and the ones that touch neither the request nor
\* the parser are possible.
LEMMA NextPause == ASSUME ConnInv, "conn_pause" \notin CbActions, Next PROVE PauseStep
<1> SUFFICES ASSUME "PAUSED" \in c.flags
             PROVE  c'.state = "live" /\ req'.msg = req.msg /\ (Idle => cbs' = cbs /\ p' = p)
  BY Zenon DEF PauseStep
<1>1. TypeOK /\ PauseInv
  BY Zenon DEF ConnInv
<1>2. c \in Conns /\ req \in Requests
  BY <1>1, TypeParts, Zenon
<1>3. /\ c.state = "live" /\ ~c.reading /\ ~c.resume_ev /\ run.pc # "run" /\ "OWNER" \in c.flags
      /\ run.pc = "done" => req.status = "PAUSE"
  BY <1>1, <1>2 DEF PauseInv, Requests
<1>4. ~RunParser
  BY <1>3, Zenon DEF RunParser, RunBegin, RunHead, RunBody, RunComplete, RunOut, Running
<1>5. CASE ReadDone
  BY <1>2, <1>3, <1>5, Zenon DEF ReadDone, ReadHandover, ReadTooLong, ReadPause, ReadError, ReadReturn, Conns, Idle
<1>6. CASE Flush
  BY <1>3, <1>6, Zenon DEF Flush
<1>7. CASE WriteCb
  BY <1>3, <1>7 DEF WriteCb, WriteDraining, WritePaused, WriteReads, WriteUnfinished, WriteKeepAlive,
                    WriteClose, Falls, Unpaused
<1>8. CASE ReadEof \/ WriteFails
  BY <1>2, <1>3, <1>8, Zenon DEF ReadEof, WriteFails, EventCb, Conns
<1>9. ~DrainFails /\ ~ResumeCb /\ ~Recv
  BY <1>3, Zenon DEF DrainFails, ResumeCb, ResumeFrees, ResumeWaits, ResumeReads, Recv
<1>10. CASE AppFinish
  <2>1. c'.state = c.state
    BY <1>2, <1>10, ResumedFacts DEF AppFinish
  <2>2. req'.msg = req.msg
    BY <1>2, <1>10, Zenon DEF AppFinish, Requests
  <2> QED
    BY <1>3, <1>10, <2>1, <2>2 DEF AppFinish
<1>11. CASE AppResume
  BY <1>2, <1>3, <1>11, ResumedFacts, Zenon DEF AppResume
<1>12. CASE Close
  BY <1>3, <1>12 DEF Close
<1> QED
  BY <1>4, <1>5, <1>6, <1>7, <1>8, <1>9, <1>10, <1>11, <1>12, Zenon DEF Next

\* From evhtp_request_pause until the application resumes, the connection and
\* the request it holds on to stay, nothing is parsed and nothing is called,
\* also when the socket fails.  evhtp_connection_pause does not promise it: the
\* parser's error frees the connection when the callback returns.
THEOREM PauseKept == ASSUME "conn_pause" \notin CbActions PROVE Spec => PauseHolds
<1>1. ConnInv /\ [Next]_vars => [PauseStep]_vars
  BY NextPause, Zenon
<1>2. PauseStep <=> (("PAUSED" \in c.flags) =>
                       /\ c'.state = "live" /\ req'.msg = req.msg
                       /\ Idle => cbs' = cbs /\ p' = p)
  BY Zenon DEF PauseStep
<1> QED
  BY <1>1, <1>2, Invariant, PTL DEF Spec, PauseHolds

-----------------------------------------------------------------------------
(* A client that waits for each reply *)

\* No final reply is in the output.
NoFinal(s) == \A i \in DOMAIN s : ~IsFinal(s[i])

\* The final reply of k is the last thing in the output, and the only final one.
LastFinal(s, k) ==
    /\ s # << >> /\ s[Len(s)] = Item(k, "final")
    /\ \A i \in DOMAIN s : IsFinal(s[i]) => i = Len(s)

\* What is queued and what is written.
LEMMA FinalFacts ==
    ASSUME NEW s \in Seq(Items), NEW e \in Items, NEW k
    PROVE  /\ NoFinal(<< >>)
           /\ NoFinal(s) /\ ~IsFinal(e) => NoFinal(Append(s, e))
           /\ NoFinal(s) /\ e = Item(k, "final") => LastFinal(Append(s, e), k)
<1>1. /\ Len(s) \in Nat /\ Len(Append(s, e)) = Len(s) + 1 /\ Append(s, e)[Len(s) + 1] = e
      /\ \A i \in 1 .. Len(s) : Append(s, e)[i] = s[i]
      /\ DOMAIN s = 1 .. Len(s) /\ DOMAIN Append(s, e) = 1 .. Len(s) + 1 /\ Append(s, e) # << >>
  OBVIOUS
<1>2. NoFinal(<< >>)
  BY DEF NoFinal
<1> DEFINE t == Append(s, e)
<1> HIDE DEF t
<1>3. NoFinal(s) /\ ~IsFinal(e) => NoFinal(t)
  BY <1>1 DEF t, NoFinal
<1>4. NoFinal(s) /\ e = Item(k, "final") => LastFinal(t, k)
  BY <1>1 DEF t, NoFinal, LastFinal
<1> QED
  BY <1>2, <1>3, <1>4, Zenon DEF t

\* A write that leaves something in the buffer leaves its last item.
LEMMA FinalTail ==
    ASSUME NEW s \in Seq(Items), Len(s) > 1, NEW k
    PROVE  (NoFinal(s) => NoFinal(Tail(s))) /\ (LastFinal(s, k) => LastFinal(Tail(s), k))
<1> DEFINE t == Tail(s)
<1>1. /\ Len(s) \in Nat /\ Len(t) = Len(s) - 1 /\ t # << >>
      /\ \A i \in 1 .. Len(s) - 1 : t[i] = s[i + 1]
      /\ DOMAIN s = 1 .. Len(s) /\ DOMAIN t = 1 .. Len(s) - 1
  BY TailFacts, Zenon
<1> HIDE DEF t
<1>2. NoFinal(s) => NoFinal(t)
  BY <1>1 DEF NoFinal
<1>3. ASSUME LastFinal(s, k) PROVE LastFinal(t, k)
  <2>1. s[Len(s)] = Item(k, "final") /\ \A i \in DOMAIN s : IsFinal(s[i]) => i = Len(s)
    BY <1>3, Zenon DEF LastFinal
  <2>2. Len(t) \in 1 .. Len(s) - 1 /\ Len(t) + 1 = Len(s)
    BY <1>1
  <2>3. t[Len(t)] = Item(k, "final")
    BY <1>1, <2>1, <2>2, Zenon
  <2>4. \A i \in DOMAIN t : IsFinal(t[i]) => i = Len(t)
    BY <1>1, <2>1
  <2> QED
    BY <1>1, <2>3, <2>4, Zenon DEF LastFinal
<1> QED
  BY <1>2, <1>3 DEF t

\* The two halves of TurnInv: what is in the output, and how far the client has sent.
Queued == IF req.finished THEN LastFinal(output, Len(cbs)) ELSE NoFinal(output)

Bounded ==
    /\ req.cb # "none" => next <= Start[Len(cbs) + 1]
    /\ req.cb = "none" /\ Len(cbs) < NumMsgs => next <= Start[Len(cbs) + 2]

LEMMA TurnParts == TurnInv <=> (c.state = "live" => Queued /\ Bounded)
BY Zenon DEF TurnInv, Queued, Bounded, LastFinal, NoFinal

LEMMA TurnStep == ASSUME c'.state = "live" => Queued' /\ Bounded' PROVE TurnInv'
BY Zenon DEF TurnInv, Queued, Bounded, LastFinal, NoFinal

\* A step that leaves what is kept for the request alone.
Keeps ==
    /\ cbs' = cbs /\ p'.state = p.state /\ p'.left = p.left
    /\ req'.msg = req.msg /\ req'.cb = req.cb /\ req'.htp = req.htp
    /\ req'.status = "TOO_LONG" => req.status = "TOO_LONG"
    /\ c'.state = c.state /\ c'.htp = c.htp /\ c'.body_bytes_read = c.body_bytes_read
    /\ c'.num_requests = c.num_requests

LEMMA KeepsFresh == ASSUME FreshInv, PerRequestState, Keeps PROVE FreshInv' /\ PerRequestState'
<1>1. FreshInv'
  BY Zenon DEF FreshInv, Keeps
<1>2. PerRequestState'
  BY Zenon DEF PerRequestState, Keeps
<1> QED
  BY <1>1, <1>2, Zenon

\* A step that, besides, leaves the output and the stream alone.
LEMMA KeepsSequential ==
    ASSUME SequentialInv, Keeps, output' = output, next' = next, req'.finished = req.finished
    PROVE  SequentialInv'
<1>1. FreshInv' /\ PerRequestState'
  BY KeepsFresh, Zenon DEF SequentialInv
<1>2. TurnInv'
  BY Zenon DEF SequentialInv, TurnInv, Keeps
<1> QED
  BY <1>1, <1>2, Zenon DEF SequentialInv

\* A connection that is not live any more.
LEMMA GoneSequential ==
    ASSUME SequentialInv, c'.state # "live", cbs' = cbs, req' = req \/ req' = NoReq
    PROVE  SequentialInv'
<1>1. req'.status = "TOO_LONG" => req' = req /\ req.status = "TOO_LONG"
  BY Initials, Zenon
<1>2. PerRequestState'
  BY <1>1, Zenon DEF SequentialInv, PerRequestState
<1> QED
  BY <1>2, Zenon DEF SequentialInv, TurnInv, FreshInv

\* evhtp_connection_free, from whichever callback.
LEMMA FreedSequential ==
    ASSUME SequentialInv, NEW out, NEW w \in BOOLEAN, FreeConn(out, w), cbs' = cbs
    PROVE  SequentialInv'
<1>1. c' = [Conn EXCEPT !.state = IF out = << >> THEN "freed" ELSE "draining",
                        !.reading = FALSE, !.writing = w]
  BY DEF FreeConn
<1>2. c'.state # "live" /\ req' = NoReq
  BY <1>1, Initials DEF Conns, FreeConn
<1> QED
  BY <1>2, GoneSequential

\* The rest of the read callback.
LEMMA ReadSequential == ASSUME ConnInv, SequentialInv, ReadDone \/ RunOut PROVE SequentialInv'
<1>2. CASE RunOut
  BY <1>2, KeepsSequential, Zenon DEF RunOut, Keeps
<1>3. CASE ReadHandover
  <2>1. c'.state = "owned" /\ req' = NoReq /\ cbs' = cbs
    BY <1>3, Initials, Zenon DEF ReadHandover, Conns
  <2> QED
    BY <2>1, GoneSequential
<1>4. CASE ReadTooLong \/ ReadError
  <2>1. c.writing \in BOOLEAN
    BY TypeParts DEF ConnInv, Conns
  <2> QED
    BY <1>4, <2>1, FreedSequential, Zenon DEF ReadTooLong, ReadError
<1>5. CASE ReadPause
  <2>1. c \in Conns
    BY TypeParts DEF ConnInv
  <2>2. c' = [c EXCEPT !.flags = @ \cup {"PAUSED"}, !.reading = FALSE]
    BY <1>5 DEF ReadPause
  <2>3. /\ c'.state = c.state /\ c'.htp = c.htp /\ c'.body_bytes_read = c.body_bytes_read
        /\ c'.num_requests = c.num_requests
    BY <2>1, <2>2, Zenon DEF Conns
  <2> QED
    BY <1>5, <2>3, KeepsSequential, Zenon DEF ReadPause, Keeps
<1>6. CASE ReadReturn
  <2>1. c \in Conns
    BY TypeParts DEF ConnInv
  <2>2. c' = c \/ c' = Resumed(c)
    BY <1>6, Zenon DEF ReadReturn
  <2>3. /\ c'.state = c.state /\ c'.htp = c.htp /\ c'.body_bytes_read = c.body_bytes_read
        /\ c'.num_requests = c.num_requests
    BY <2>1, <2>2, ResumedFacts, Zenon
  <2> QED
    BY <1>6, <2>3, KeepsSequential, Zenon DEF ReadReturn, Keeps
<1> QED
  BY <1>2, <1>3, <1>4, <1>5, <1>6, Zenon DEF ReadDone

\* What the client sends ends where the next reply has to come first.
LEMMA SendBound ==
    ASSUME ~Pipelined, TypeOK, NEW k \in Msgs, k \notin Answered, next <= Start[k + 1],
           NEW n \in Nat, next + n <= Len(Stream),
           \A i \in next + 1 .. next + n : MaySend(Stream[i])
    PROVE  next + n <= Start[k + 1]
<1>1. /\ next \in Nat /\ Len(Stream) \in Nat /\ k \in Nat \ {0} /\ k <= NumMsgs /\ NumMsgs \in Nat
      /\ Start[k + 1] \in Nat
  BY Numbers, StreamFacts, Zenon
<1> SUFFICES ASSUME Start[k + 1] < next + n PROVE FALSE
  BY <1>1
<1>2. k # NumMsgs
  BY <1>1, StreamAssumption
<1>3. k + 1 \in Msgs
  BY <1>1, <1>2 DEF Msgs
<1>4. Stream[Start[k + 1] + 1] = [msg |-> k + 1, part |-> 0]
  BY <1>3, StreamFacts, Zenon
<1>5. Start[k + 1] + 1 \in next + 1 .. next + n
  BY <1>1
<1>6. MaySend(Stream[Start[k + 1] + 1])
  BY <1>5, Zenon
<1>7. 1 .. (k + 1) - 1 \subseteq Answered
  BY <1>4, <1>6 DEF MaySend
<1>8. k \in 1 .. (k + 1) - 1
  BY <1>1
<1> QED
  BY <1>7, <1>8

\* A reply that was delivered is one of those in delivered and output.
LEMMA DeliveredFinal ==
    ASSUME TypeOK, NEW k, k \in Answered
    PROVE  \E i \in 1 .. Len(delivered) : (delivered \o output)[i] = Item(k, "final") /\ delivered[i] = Item(k, "final")
<1>1. delivered \in Seq(Items) /\ output \in Seq(Items)
  BY TypeParts, Zenon
<1>2. \A i \in 1 .. Len(delivered) : (delivered \o output)[i] = delivered[i]
  BY <1>1, ConcatFacts
<1>3. DOMAIN delivered = 1 .. Len(delivered)
  BY <1>1
<1> QED
  BY <1>2, <1>3, Zenon DEF Answered

\* With the final replies of 1 .. n in the connection, a later one was not delivered.
LEMMA LaterUnanswered ==
    ASSUME TypeOK, NEW n \in Nat, Finals(delivered \o output, n), NEW k \in Nat, n < k
    PROVE  k \notin Answered
<1> SUFFICES ASSUME k \in Answered PROVE FALSE
  OBVIOUS
<1>1. delivered \in Seq(Items) /\ output \in Seq(Items)
  BY TypeParts, Zenon
<1> DEFINE s == delivered \o output
<1>2. Len(delivered) \in Nat /\ Len(output) \in Nat /\ DOMAIN s = 1 .. Len(delivered) + Len(output)
  <2>1. s \in Seq(Items) /\ Len(delivered) \in Nat /\ Len(output) \in Nat /\ Len(s) = Len(delivered) + Len(output)
    BY <1>1, ConcatFacts, Zenon
  <2> HIDE DEF s
  <2> QED
    BY <2>1
<1>3. PICK i \in 1 .. Len(delivered) : s[i] = Item(k, "final")
  BY DeliveredFinal, Zenon
<1>4. Finals(s, n)
  OBVIOUS
<1> HIDE DEF s
<1>5. i \in DOMAIN s /\ IsFinal(s[i]) /\ s[i].msg = k
  BY <1>2, <1>3 DEF IsFinal, Item
<1> QED
  BY <1>4, <1>5 DEF Finals

\* A final reply that waits in the output was not delivered before.
LEMMA QueuedUnanswered ==
    ASSUME TypeOK, RepliesInOrder, NEW k \in Nat, LastFinal(output, k)
    PROVE  k \notin Answered
<1> SUFFICES ASSUME k \in Answered PROVE FALSE
  OBVIOUS
<1>1. delivered \in Seq(Items) /\ output \in Seq(Items)
  BY TypeParts, Zenon
<1> DEFINE s == delivered \o output
           j == Len(delivered) + Len(output)
<1>2. /\ Len(delivered) \in Nat /\ Len(output) \in Nat /\ DOMAIN s = 1 .. j
      /\ \A x \in Len(delivered) + 1 .. j : s[x] = output[x - Len(delivered)]
  <2>1. /\ s \in Seq(Items) /\ Len(delivered) \in Nat /\ Len(output) \in Nat /\ Len(s) = j
        /\ \A x \in Len(delivered) + 1 .. j : s[x] = output[x - Len(delivered)]
    BY <1>1, ConcatFacts, Zenon
  <2> HIDE DEF s
  <2> QED
    BY <2>1
<1>3. PICK i \in 1 .. Len(delivered) : s[i] = Item(k, "final")
  BY DeliveredFinal
<1>4. InOrder(s)
  BY DEF RepliesInOrder
<1> HIDE DEF s
<1>5. Len(output) \in Nat \ {0} /\ output[Len(output)] = Item(k, "final")
  BY <1>1, HeadFact, Zenon DEF LastFinal
<1>6. j \in Len(delivered) + 1 .. j /\ j - Len(delivered) = Len(output) /\ i \in 1 .. j - 1 /\ j \in 1 .. j
  BY <1>2, <1>5
<1>7. s[j] = Item(k, "final")
  BY <1>2, <1>5, <1>6, Zenon
<1>8. IsFinal(s[i]) /\ s[i].msg = k /\ IsFinal(s[j]) /\ s[j].msg = k
  BY <1>3, <1>7 DEF IsFinal, Item
<1> HIDE DEF j
<1>9. s[i].msg < s[j].msg
  BY <1>2, <1>4, <1>6, <1>8, Zenon DEF InOrder
<1> QED
  BY <1>8, <1>9

\* A read of the socket brings nothing of the message after the one that waits
\* for its reply.
LEMMA RecvSequential ==
    ASSUME ~Pipelined, "stream_length" \notin CbActions, ConnInv, SequentialInv, Recv PROVE SequentialInv'
<1>0. TypeOK /\ RepliesInOrder /\ AnswerInv /\ CbsInv
  BY Zenon DEF ConnInv
<1>1. /\ c.state = "live" /\ ReadCb(input', req, c.flags)
      /\ UNCHANGED <<c, p, output, closed, delivered, cbs>>
  BY Zenon DEF Recv, Idle
<1>2. PICK n \in 1 .. MaxRead :
        /\ next + n <= Len(Stream) /\ next' = next + n
        /\ \A i \in next + 1 .. next + n : MaySend(Stream[i])
  BY Zenon DEF Recv
<1>3. n \in Nat /\ next \in Nat /\ Len(cbs) \in Nat /\ NumMsgs \in Nat
  BY <1>0, ConnectionAssumption, Numbers
<1>4. req \in Requests
  BY <1>0, TypeParts, Zenon
<1>5. /\ req'.msg = req.msg /\ req'.cb = req.cb /\ req'.finished = req.finished /\ req'.htp = req.htp
      /\ run'.pc = "loop" => req' = req
      /\ run'.pc = "run" => req'.status = "OK"
      /\ run'.pc \in {"loop", "run"}
  BY <1>1, <1>4, ReadCbFacts
<1>6. FreshInv' /\ PerRequestState'
  BY <1>1, <1>5, KeepsFresh, Zenon DEF SequentialInv, Keeps
<1>7. Queued /\ Bounded
  BY <1>1, TurnParts, Zenon DEF SequentialInv
<1>8. Queued'
  BY <1>1, <1>5, <1>7, Zenon DEF Queued, LastFinal, NoFinal
<1>9. CASE req.cb # "none"
  <2>1. Len(cbs) \in Msgs
    BY <1>1, <1>9, DispatchedMsg, Zenon
  <2>2. Len(cbs) \notin Answered
    <3>1. CASE req.finished
      BY <1>0, <1>3, <1>7, <3>1, QueuedUnanswered, Zenon DEF Queued
    <3>2. CASE ~req.finished
      <4>1. Unanswered
        BY <1>4, <1>9, <3>2, Zenon DEF Unanswered, Requests
      <4>2. Finals(delivered \o output, Len(cbs) - 1) /\ Len(cbs) - 1 \in Nat /\ Len(cbs) - 1 < Len(cbs)
        BY <1>0, <1>1, <1>3, <2>1, <4>1 DEF AnswerInv, Msgs
      <4> QED
        BY <1>0, <1>3, <4>2, LaterUnanswered, Zenon
    <3> QED
      BY <3>1, <3>2, Zenon
  <2>3. next + n <= Start[Len(cbs) + 1]
    BY <1>0, <1>2, <1>3, <1>7, <1>9, <2>1, <2>2, SendBound, Zenon DEF Bounded
  <2>4. Bounded'
    BY <1>1, <1>2, <1>5, <1>9, <2>3, Zenon DEF Bounded
  <2> QED
    BY <1>6, <1>8, <2>4, TurnStep, Zenon DEF SequentialInv
<1>10. CASE req.cb = "none"
  <2> SUFFICES ASSUME Len(cbs) < NumMsgs PROVE next + n <= Start[Len(cbs) + 2]
    <3>1. Bounded'
      BY <1>1, <1>2, <1>5, <1>10 DEF Bounded
    <3> QED
      BY <1>6, <1>8, <3>1, TurnStep, Zenon DEF SequentialInv
  <2>1. ~Unanswered
    BY <1>10, Zenon DEF Unanswered
  <2>2. Finals(delivered \o output, Len(cbs))
    BY <1>0, <1>1, <2>1, Zenon DEF AnswerInv
  <2> DEFINE k == Len(cbs) + 1
  <2>3. k \in Msgs /\ k \in Nat /\ Len(cbs) < k /\ k + 1 = Len(cbs) + 2
    BY <1>3 DEF Msgs
  <2>4. next <= Start[k + 1]
    BY <1>7, <1>10, <2>3, Zenon DEF Bounded
  <2> HIDE DEF k
  <2>5. k \notin Answered
    BY <1>0, <1>3, <2>2, <2>3, LaterUnanswered
  <2>6. next + n <= Start[k + 1]
    BY <1>0, <1>2, <1>3, <2>3, <2>4, <2>5, SendBound, Zenon
  <2> QED
    BY <2>3, <2>6, Zenon
<1> QED
  BY <1>9, <1>10

\* A request whose callback ran has all that was sent behind it in the parser.
LEMMA NothingBehind ==
    ASSUME ConnInv, SequentialInv, c.state = "live", req.cb # "none"
    PROVE  run.off = Len(input)
<1>1. TypeOK /\ InputInv
  BY Zenon DEF ConnInv
<1>2. Len(input) \in Nat /\ run.off \in Nat /\ next \in Nat /\ run.off <= Len(input)
  BY <1>1, Numbers, Zenon
<1>3. Parsed = Start[Len(cbs) + 1]
  BY DispatchedMsg, Zenon DEF DispatchedInv
<1>4. next <= Start[Len(cbs) + 1]
  BY TurnParts, Zenon DEF SequentialInv, Bounded
<1>5. Parsed \in Nat /\ Parsed + (Len(input) - run.off) = next
  BY <1>1, Ahead, Zenon
<1> QED
  BY <1>2, <1>3, <1>4, <1>5

\* A write that leaves the request unfinished.
LEMMA WriteUnfinishedSequential ==
    ASSUME SequentialInv, c.state = "live", ~req.finished, ~req'.finished, Keeps,
           output' = << >>, next' = next
    PROVE  SequentialInv'
<1>1. FreshInv' /\ PerRequestState'
  BY KeepsFresh DEF SequentialInv
<1>2. Bounded
  BY TurnParts, Zenon DEF SequentialInv
<1>3. Bounded'
  BY <1>2, Zenon DEF Bounded, Keeps
<1>4. Queued'
  BY DEF Queued, NoFinal
<1> QED
  BY <1>1, <1>3, <1>4, TurnStep, Zenon DEF SequentialInv

\* The request is dropped when its reply was written, and with it what the
\* connection kept for it.
LEMMA WriteKeepAliveSequential ==
    ASSUME ConnInv, SequentialInv, WriteKeepAlive PROVE SequentialInv'
<1>0. TypeOK
  BY DEF ConnInv
<1>1. /\ c.state = "live" /\ req # NoReq /\ req.finished /\ KeepsAlive
      /\ c' = [NotWaiting EXCEPT !.num_requests = Served, !.body_bytes_read = 0,
                                 !.htp = Main, !.flags = @ \cup {"KEEPALIVE"}]
      /\ req' = NoReq /\ p' = Parser /\ output' = << >> /\ next' = next /\ cbs' = cbs
  BY DEF WriteKeepAlive, FlushLast, Falls, Unpaused
<1>2. req.cb # "none" /\ Len(cbs) \in Msgs
  BY <1>1, FinishedDispatched, DispatchedMsg, Zenon
<1>3. c \in Conns /\ Len(cbs) \in Nat /\ next \in Nat /\ NumMsgs \in Nat
  BY <1>0, TypeParts, Numbers
<1>4. c'.htp = Main /\ c'.body_bytes_read = 0 /\ c'.num_requests = Served
  <2> DEFINE u == NotWaiting
  <2>1. u \in Conns
    BY <1>3, NotWaitingFacts
  <2>2. c' = [u EXCEPT !.num_requests = Served, !.body_bytes_read = 0,
                       !.htp = Main, !.flags = @ \cup {"KEEPALIVE"}]
    BY <1>1
  <2> HIDE DEF u
  <2> QED
    BY <2>1, <2>2, Zenon DEF Conns
<1>5. req'.cb = "none" /\ ~req'.finished /\ req'.status = "OK" /\ req'.msg = 0 /\ p'.state = "start"
  BY <1>1, Initials DEF Parser
<1>6. FreshInv /\ Bounded /\ PerRequestState
  BY <1>1, TurnParts, Zenon DEF SequentialInv
<1>7. MaxKeepalive > 0 => Served = Len(cbs) /\ Len(cbs) < MaxKeepalive
  <2>1. MaxKeepalive > 0 => c.num_requests = Len(cbs) - 1 /\ Served = c.num_requests + 1
    BY <1>1, <1>2, <1>6 DEF FreshInv, Served
  <2>2. MaxKeepalive > 0 => Served < MaxKeepalive
    BY <1>1 DEF KeepsAlive
  <2> QED
    BY <1>3, <2>1, <2>2
<1>8. FreshInv'
  BY <1>1, <1>4, <1>5, <1>7 DEF FreshInv
<1>9. PerRequestState'
  BY <1>1, <1>5, <1>6, Zenon DEF PerRequestState
<1>10. Bounded'
  <2> SUFFICES ASSUME Len(cbs) < NumMsgs PROVE next <= Start[Len(cbs) + 2]
    BY <1>1, <1>5, Zenon DEF Bounded
  <2> DEFINE k == Len(cbs) + 1
  <2>1. k \in Msgs /\ k + 1 = Len(cbs) + 2
    BY <1>3 DEF Msgs
  <2>2. next <= Start[k]
    BY <1>2, <1>6 DEF Bounded
  <2> HIDE DEF k
  <2>3. Start[k] \in Nat /\ Start[k + 1] \in Nat /\ Start[k + 1] = Start[k] + Body[k] + 1 /\ Body[k] \in Nat
    BY <2>1, StreamFacts, Zenon
  <2>4. next <= Start[k + 1]
    BY <1>3, <2>2, <2>3
  <2> QED
    BY <2>1, <2>4
<1>11. Queued'
  BY <1>1, <1>5 DEF Queued, NoFinal
<1> QED
  BY <1>8, <1>9, <1>10, <1>11, TurnStep DEF SequentialInv

\* The write callback.
LEMMA WriteSequential == ASSUME ConnInv, SequentialInv, Flush \/ WriteCb PROVE SequentialInv'
<1>0. TypeOK /\ PauseInv
  BY Zenon DEF ConnInv
<1>1. c \in Conns /\ req \in Requests /\ output \in Seq(Items)
  BY <1>0, TypeParts, Zenon
<1>2. CASE Flush
  <2>1. /\ c.state \in {"live", "draining"} /\ Len(output) > 1 /\ output' = Tail(output)
        /\ UNCHANGED <<c, req, p, run, input, next, closed, cbs>>
    BY <1>2, Zenon DEF Flush
  <2>2. CASE c.state = "live"
    <3>1. Queued /\ Bounded
      BY <2>2, TurnParts DEF SequentialInv
    <3>2. IF req.finished THEN LastFinal(Tail(output), Len(cbs)) ELSE NoFinal(Tail(output))
      BY <1>1, <2>1, <3>1, FinalTail, Zenon DEF Queued
    <3>3. Queued' /\ Bounded'
      BY <2>1, <3>1, <3>2, Zenon DEF Queued, Bounded, LastFinal, NoFinal
    <3>4. FreshInv' /\ PerRequestState'
      BY <2>1, KeepsFresh, Zenon DEF SequentialInv, Keeps
    <3> QED
      BY <3>3, <3>4, TurnStep DEF SequentialInv
  <2>3. CASE c.state = "draining"
    BY <2>1, <2>3, GoneSequential, Zenon
  <2> QED
    BY <2>1, <2>2, <2>3, Zenon
<1>3. CASE WriteDraining
  <2>1. c'.state = "freed" /\ req' = req /\ cbs' = cbs
    BY <1>1, <1>3, Zenon DEF WriteDraining, Conns
  <2> QED
    BY <2>1, GoneSequential
<1>4. CASE WritePaused
  <2>1. /\ c.state = "live" /\ "PAUSED" \in c.flags /\ output' = << >>
        /\ UNCHANGED <<c, req, p, run, input, next, closed, cbs>>
    BY <1>4, Zenon DEF WritePaused, FlushLast
  <2>2. ~req.finished
    BY <1>0, <2>1, Zenon DEF PauseInv
  <2> QED
    BY <2>1, <2>2, WriteUnfinishedSequential, Zenon DEF Keeps
<1>5. CASE WriteReads
  <2>1. /\ c.state = "live" /\ run.pc = "loop" /\ input # << >> /\ output' = << >> /\ req # NoReq
        /\ c' = NotWaiting /\ ReadCb(input, req, c'.flags)
        /\ UNCHANGED <<p, input, next, closed, cbs>>
    BY <1>5, Zenon DEF WriteReads, FlushLast, Unpaused
  <2>2. ~req.finished
    <3> SUFFICES ASSUME req.finished PROVE FALSE
      OBVIOUS
    <3>1. run.off = Len(input)
      BY <2>1, FinishedDispatched, NothingBehind, Zenon
    <3>2. run.off = 0
      BY <1>0, <2>1 DEF PauseInv
    <3>3. input \in Seq(Tokens)
      BY <1>0, TypeParts, Zenon
    <3>4. Len(input) # 0
      BY <2>1, <3>3, HeadFact, Zenon
    <3> QED
      BY <3>1, <3>2, <3>4
  <2>3. /\ req'.msg = req.msg /\ req'.cb = req.cb /\ req'.finished = req.finished /\ req'.htp = req.htp
        /\ run'.pc = "loop" => req' = req
        /\ run'.pc = "run" => req'.status = "OK"
        /\ run'.pc \in {"loop", "run"}
    BY <1>1, <2>1, ReadCbFacts, Zenon
  <2>4. /\ c'.state = c.state /\ c'.htp = c.htp /\ c'.body_bytes_read = c.body_bytes_read
        /\ c'.num_requests = c.num_requests
    BY <1>1, <2>1, NotWaitingFacts, Zenon
  <2>5. Keeps
    BY <2>1, <2>3, <2>4, Zenon DEF Keeps
  <2> QED
    BY <2>1, <2>2, <2>3, <2>5, WriteUnfinishedSequential, Zenon
<1>6. CASE WriteUnfinished
  <2>1. /\ c.state = "live" /\ output' = << >> /\ ~req.finished /\ c' = NotWaiting
        /\ UNCHANGED <<req, p, run, input, next, closed, cbs>>
    BY <1>6, Zenon DEF WriteUnfinished, FlushLast
  <2>2. /\ c'.state = c.state /\ c'.htp = c.htp /\ c'.body_bytes_read = c.body_bytes_read
        /\ c'.num_requests = c.num_requests
    BY <1>1, <2>1, NotWaitingFacts
  <2> QED
    BY <2>1, <2>2, WriteUnfinishedSequential, Zenon DEF Keeps
<1>7. CASE WriteKeepAlive
  BY <1>7, WriteKeepAliveSequential, Zenon
<1>8. CASE WriteClose
  <2>1. c.writing \in BOOLEAN
    BY <1>1 DEF Conns
  <2> QED
    BY <1>8, <2>1, FreedSequential DEF WriteClose
<1> QED
  BY <1>2, <1>3, <1>4, <1>5, <1>6, <1>7, <1>8, Zenon DEF WriteCb

\* Events of the socket, and the resumption.
LEMMA EventSequential ==
    ASSUME ConnInv, SequentialInv, ReadEof \/ WriteFails \/ DrainFails \/ ResumeCb PROVE SequentialInv'
<1>0. TypeOK
  BY Zenon DEF ConnInv
<1>1. c \in Conns /\ c.reading \in BOOLEAN /\ c.writing \in BOOLEAN
  <2>1. c \in Conns
    BY <1>0, TypeParts
  <2> QED
    BY <2>1 DEF Conns
<1>2. ASSUME NEW r \in BOOLEAN, NEW w \in BOOLEAN, EventCb(r, w) PROVE SequentialInv'
  <2>1. CASE FreeConn(output, w)
    BY <1>2, <2>1, FreedSequential DEF EventCb
  <2>2. CASE /\ c' = [c EXCEPT !.flags = @ \cup {"ERROR", "FREE_CONN"}, !.reading = r, !.writing = w]
             /\ UNCHANGED <<req, p, run>>
    <3>1. /\ c'.state = c.state /\ c'.htp = c.htp /\ c'.body_bytes_read = c.body_bytes_read
          /\ c'.num_requests = c.num_requests
      BY <1>1, <2>2 DEF Conns
    <3>2. output' = output /\ next' = next /\ cbs' = cbs
      BY <1>2 DEF EventCb
    <3> QED
      BY <2>2, <3>1, <3>2, KeepsSequential DEF Keeps
  <2> QED
    BY <1>2, <2>1, <2>2 DEF EventCb
<1>3. CASE ReadEof \/ WriteFails
  BY <1>1, <1>2, <1>3, Zenon DEF ReadEof, WriteFails
<1>4. CASE DrainFails
  <2>1. c'.state = "draining" /\ req' = req /\ cbs' = cbs
    BY <1>1, <1>4, Zenon DEF DrainFails, Conns
  <2> QED
    BY <2>1, GoneSequential
<1>5. CASE ResumeFrees
  BY <1>1, <1>5, FreedSequential, Zenon DEF ResumeFrees
<1> DEFINE u == Unscratched
           q == Requeued
<1>6. /\ u \in Conns /\ u.state = c.state /\ u.htp = c.htp /\ u.body_bytes_read = c.body_bytes_read
      /\ u.num_requests = c.num_requests
      /\ q \in Requests /\ q.msg = req.msg /\ q.cb = req.cb /\ q.finished = req.finished /\ q.htp = req.htp
  BY <1>0, RequeueFacts
<1>7. q.status = "OK"
  <2>1. req \in Requests
    BY <1>0, TypeParts
  <2>2. CASE req = NoReq
    BY <2>2, Initials DEF Requeued
  <2>3. CASE req # NoReq
    BY <2>1, <2>3 DEF Requeued, Requests
  <2> QED
    BY <2>2, <2>3, Zenon
<1>8. CASE ResumeWaits
  <2>1. /\ c' = [u EXCEPT !.flags = @ \cup {"WAITING"}, !.writing = TRUE] /\ req' = q
        /\ UNCHANGED <<p, run, input, output, next, closed, delivered, cbs>>
    BY <1>8 DEF ResumeWaits
  <2> HIDE DEF u, q
  <2>2. /\ c'.state = c.state /\ c'.htp = c.htp /\ c'.body_bytes_read = c.body_bytes_read
        /\ c'.num_requests = c.num_requests
    BY <1>6, <2>1 DEF Conns
  <2> QED
    BY <1>6, <1>7, <2>1, <2>2, KeepsSequential DEF Keeps
<1>9. CASE ResumeReads
  <2> DEFINE r1 == [q EXCEPT !.status = IF req = NoReq THEN @ ELSE "PAUSE"]
  <2>1. /\ c' = [u EXCEPT !.reading = TRUE] /\ UNCHANGED <<input, output, next, closed, delivered, cbs>>
        /\ \/ p' = [p EXCEPT !.paused = FALSE] /\ ReadCb(input, r1, c'.flags)
           \/ p' = p /\ ReadCb(input, q, c'.flags)
           \/ p' = p /\ req' = q
    BY <1>9 DEF ResumeReads
  <2>2. /\ r1 \in Requests /\ r1.msg = q.msg /\ r1.cb = q.cb /\ r1.finished = q.finished /\ r1.htp = q.htp
        /\ r1.status \in {"OK", "PAUSE"}
    <3>1. q \in Requests /\ q.status = "OK"
      BY <1>6, <1>7
    <3> HIDE DEF q
    <3> DEFINE x == IF req = NoReq THEN q.status ELSE "PAUSE"
    <3>2. r1 = [q EXCEPT !.status = x] /\ x \in {"OK", "PAUSE"}
      BY <3>1
    <3> HIDE DEF x, r1
    <3> QED
      BY <3>1, <3>2, Zenon DEF Requests
  <2> HIDE DEF u, q, r1
  <2>3. /\ c'.state = c.state /\ c'.htp = c.htp /\ c'.body_bytes_read = c.body_bytes_read
        /\ c'.num_requests = c.num_requests
    BY <1>6, <2>1 DEF Conns
  <2>4. p'.state = p.state /\ p'.left = p.left
    <3>1. p \in Parsers
      BY <1>0, TypeParts
    <3> QED
      BY <2>1, <3>1, Zenon DEF Parsers
  <2>5. /\ req'.msg = req.msg /\ req'.cb = req.cb /\ req'.finished = req.finished /\ req'.htp = req.htp
        /\ req'.status # "TOO_LONG"
    <3>1. ASSUME NEW r \in Requests, ReadCb(input, r, c'.flags), r.status # "TOO_LONG"
          PROVE  /\ req'.msg = r.msg /\ req'.cb = r.cb /\ req'.finished = r.finished /\ req'.htp = r.htp
                 /\ req'.status # "TOO_LONG"
      BY <3>1, ReadCbFacts
    <3>2. CASE ReadCb(input, r1, c'.flags)
      BY <1>6, <2>2, <3>1, <3>2, Zenon
    <3>3. CASE ReadCb(input, q, c'.flags)
      BY <1>6, <1>7, <3>1, <3>3, Zenon
    <3>4. CASE req' = q
      BY <1>6, <1>7, <3>4
    <3> QED
      BY <2>1, <3>2, <3>3, <3>4, Zenon
  <2>6. Keeps
    BY <2>1, <2>3, <2>4, <2>5, Zenon DEF Keeps
  <2> QED
    BY <2>1, <2>5, <2>6, KeepsSequential
<1> QED
  BY <1>3, <1>4, <1>5, <1>8, <1>9, Zenon DEF ResumeCb

\* The application finishes or resumes, or the client closes its end.
LEMMA AppSequential ==
    ASSUME "stream_length" \notin CbActions, ConnInv, SequentialInv, AppFinish \/ AppResume \/ Close
    PROVE  SequentialInv'
<1>0. TypeOK
  BY Zenon DEF ConnInv
<1>1. c \in Conns /\ req \in Requests /\ output \in Seq(Items)
  BY <1>0, TypeParts, Zenon
<1>2. c' = Resumed(c) => /\ c'.state = c.state /\ c'.htp = c.htp /\ c'.body_bytes_read = c.body_bytes_read
                         /\ c'.num_requests = c.num_requests
  BY <1>1, ResumedFacts, Zenon
<1>3. CASE AppResume
  BY <1>2, <1>3, KeepsSequential, Zenon DEF AppResume, Keeps
<1>4. CASE Close
  BY <1>4, KeepsSequential, Zenon DEF Close, Keeps
<1>5. CASE AppFinish
  <2>1. /\ c.state = "live" /\ req.cb # "none" /\ req.cb # "stream_length" /\ ~req.finished
        /\ req' = [req EXCEPT !.finished = TRUE] /\ c' = Resumed(c)
        /\ UNCHANGED <<p, run, input, next, closed, delivered, cbs>>
    BY <1>1, <1>5, ConnectionAssumption DEF AppFinish, Idle, Requests
  <2>2. output' = Append(output, Item(req.msg, "final"))
    BY <1>5, <2>1 DEF AppFinish
  <2>3. req.msg = Len(cbs) /\ Len(cbs) \in Msgs
    BY <2>1, DispatchedMsg
  <2>4. /\ req'.msg = req.msg /\ req'.cb = req.cb /\ req'.finished = TRUE /\ req'.htp = req.htp
        /\ req'.status = req.status
    BY <1>1, <2>1 DEF Requests
  <2>5. FreshInv' /\ PerRequestState'
    BY <1>2, <2>1, <2>4, KeepsFresh DEF SequentialInv, Keeps
  <2>6. Queued /\ Bounded
    BY <2>1, TurnParts, Zenon DEF SequentialInv
  <2>7. LastFinal(output', Len(cbs))
    <3> DEFINE e == Item(req.msg, "final")
    <3>1. e \in Items /\ e = Item(Len(cbs), "final")
      BY <2>3 DEF Item, Items
    <3>2. NoFinal(output)
      BY <2>1, <2>6, Zenon DEF Queued
    <3> HIDE DEF e
    <3>3. LastFinal(Append(output, e), Len(cbs))
      BY <1>1, <3>1, <3>2, FinalFacts
    <3> QED
      BY <2>2, <3>3, Zenon DEF e
  <2>8. Queued'
    BY <2>1, <2>4, <2>7 DEF Queued, LastFinal
  <2>9. Bounded'
    BY <2>1, <2>4, <2>6, Zenon DEF Bounded
  <2> QED
    BY <2>5, <2>8, <2>9, TurnStep DEF SequentialInv
<1> QED
  BY <1>3, <1>4, <1>5

\* on_msg_begin: the request before is gone, so what was kept for it is reset.
LEMMA BeginSequential == ASSUME ConnInv, SequentialInv, RunBegin PROVE SequentialInv'
<1>0. TypeOK /\ ParserInv
  BY DEF ConnInv
<1>1. /\ run.pc = "run" /\ p.state = "start" /\ run.off < Len(input)
      /\ UNCHANGED <<c, run, input, output, next, closed, delivered, cbs>>
  BY Zenon DEF RunBegin, Running
<1>2. c.state = "live" /\ "PAUSED" \notin c.flags
  BY <1>1, RunFacts, Zenon
<1>3. p \in Parsers /\ Len(input) \in Nat /\ run.off \in Nat
  BY <1>0, TypeParts, Numbers, Zenon
<1>4. req.cb = "none"
  <2>1. run.off # Len(input)
    BY <1>1, <1>3
  <2> QED
    BY <1>2, <2>1, NothingBehind, Zenon
<1>5. req = NoReq
  <2>1. req.msg = 0
    BY <1>0, <1>1, <1>2, <1>4 DEF ParserInv, ParsingInv
  <2> QED
    BY <1>0, <1>2, <2>1, Zenon DEF ParserInv, NoRequestInv
<1>6. p' = [Parser EXCEPT !.state = "head"] /\ req' = NewReq(Tok.msg)
  BY <1>2, <1>5 DEF RunBegin
<1>7. p'.state = "head" /\ req'.cb = "none" /\ ~req'.finished /\ req'.status = "OK"
  BY <1>6 DEF Parser, NewReq, NoReq
<1>8. FreshInv /\ PerRequestState /\ Queued /\ Bounded
  BY <1>2, TurnParts, Zenon DEF SequentialInv
<1>9. FreshInv'
  BY <1>1, <1>2, <1>5, <1>7, <1>8, Initials, Zenon DEF FreshInv
<1>10. PerRequestState'
  BY <1>1, <1>7, <1>8, Zenon DEF PerRequestState
<1>11. Queued'
  BY <1>1, <1>5, <1>7, <1>8, Initials, Zenon DEF Queued, NoFinal
<1>12. Bounded'
  BY <1>1, <1>4, <1>7, <1>8, Zenon DEF Bounded
<1> QED
  BY <1>9, <1>10, <1>11, <1>12, TurnStep DEF SequentialInv

\* The host is looked up from the one that accepted.
LEMMA HeadSequential == ASSUME ConnInv, SequentialInv, RunHead PROVE SequentialInv'
<1>0. TypeOK /\ InputInv
  BY DEF ConnInv
<1> DEFINE m == Tok.msg
<1>1. /\ run.pc = "run" /\ p.state = "head" /\ run.off < Len(input)
      /\ UNCHANGED <<input, next, closed, delivered, cbs>>
  BY DEF RunHead, Running
<1>2. PICK r \in HookResults :
        /\ c' = [c EXCEPT !.htp = VhostFor(m)]
        /\ req' = [req EXCEPT !.htp = VhostFor(m), !.status = r, !.keepalive = KeepAlive[m]]
        /\ p' = IF r = "ERROR" THEN Failed
                ELSE [state |-> IF Body[m] = 0 THEN "complete" ELSE "body",
                      paused |-> r = "PAUSE", left |-> Body[m]]
        /\ output' = IF r # "ERROR" /\ Expect[m]
                     THEN Append(output, Item(m, "continue")) ELSE output
  BY Zenon DEF RunHead
<1>3. c.state = "live" /\ c \in Conns /\ req \in Requests /\ p \in Parsers /\ output \in Seq(Items)
  BY <1>0, <1>1, RunFacts, TypeParts, Zenon
<1>4. /\ ParsingInv /\ req.msg = Len(cbs) + 1 /\ req.msg \in Msgs /\ req.cb = "none" /\ req.msg # 0
      /\ ~req.finished /\ Len(cbs) \in Nat /\ Len(cbs) <= NumMsgs
  BY <1>1, ParsingFacts, Zenon
<1>5. m = req.msg
  <2>1. Parsed = Start[Len(cbs) + 1]
    BY <1>1, <1>4, Zenon DEF ParsingInv
  <2> QED
    BY <1>0, <1>1, <1>4, <2>1, NextHead, Zenon
<1> HIDE DEF m
<1>6. FreshInv /\ PerRequestState /\ Queued /\ Bounded
  BY <1>3, TurnParts, Zenon DEF SequentialInv
<1>7. c.htp = Main /\ c.body_bytes_read = 0
  BY <1>1, <1>3, <1>6, Zenon DEF FreshInv
<1>8. VhostFor(m) = Host[m] /\ Body[m] \in Nat /\ r \in {"OK", "PAUSE", "ERROR"}
  BY <1>4, <1>5, <1>7, ConnectionAssumption DEF VhostFor
<1>9. /\ c'.state = "live" /\ c'.body_bytes_read = 0 /\ c'.num_requests = c.num_requests
  BY <1>2, <1>3, <1>7 DEF Conns
<1>10. req'.msg = m /\ req'.cb = "none" /\ ~req'.finished /\ req'.status = r /\ req'.htp = Host[m]
  BY <1>2, <1>3, <1>4, <1>5, <1>8, Zenon DEF Requests
<1>11. p'.state \in {"body", "complete", "error"} /\ (p'.state # "error" => p'.left = Body[m])
  <2>1. CASE r = "ERROR"
    BY <1>2, <1>3, <2>1 DEF Failed, Parsers
  <2>2. CASE r # "ERROR"
    BY <1>2, <2>2, Zenon
  <2> QED
    BY <2>1, <2>2
<1>12. FreshInv'
  <2>1. Body[m] - Body[m] = 0
    BY <1>8
  <2>2. MaxKeepalive > 0 => c'.num_requests = Len(cbs') /\ Len(cbs') < MaxKeepalive
    BY <1>1, <1>3, <1>4, <1>6, <1>9, Zenon DEF FreshInv
  <2>3. req'.msg # 0 /\ p'.state # "head"
    BY <1>4, <1>5, <1>10, <1>11
  <2> QED
    BY <1>9, <1>10, <1>11, <2>1, <2>2, <2>3, Zenon DEF FreshInv
<1>13. PerRequestState'
  BY <1>1, <1>6, <1>8, <1>10, Zenon DEF PerRequestState
<1>14. Queued'
  <2>1. NoFinal(output)
    BY <1>4, <1>6, Zenon DEF Queued
  <2> DEFINE e == Item(m, "continue")
  <2>2. e \in Items /\ ~IsFinal(e)
    BY <1>4, <1>5 DEF Items, Item, IsFinal
  <2>3. output' = output \/ output' = Append(output, e)
    BY <1>2, Zenon
  <2> HIDE DEF e
  <2>4. NoFinal(Append(output, e))
    BY <1>3, <2>1, <2>2, FinalFacts
  <2>5. NoFinal(output')
    BY <2>1, <2>3, <2>4, Zenon
  <2> QED
    BY <1>10, <2>5, Zenon DEF Queued, NoFinal
<1>15. Bounded'
  BY <1>1, <1>4, <1>6, <1>10 DEF Bounded
<1> QED
  BY <1>12, <1>13, <1>14, <1>15, TurnStep DEF SequentialInv

\* A body is refused for its own size.
LEMMA BodySequential == ASSUME ConnInv, SequentialInv, RunBody PROVE SequentialInv'
<1>0. TypeOK
  BY DEF ConnInv
<1> DEFINE n == BodyLen
           m == req.msg
           buf == c.scratch \o SubSeq(input, run.off + 1, run.off + n)
<1>1. /\ Running("body") /\ run.pc = "run" /\ p.state = "body" /\ run.off < Len(input)
      /\ UNCHANGED <<input, output, next, closed, delivered, cbs>>
  BY Zenon DEF RunBody, Running
<1>2. n \in Nat /\ n <= p.left /\ p.left \in Nat /\ p.left <= Body[m] /\ Body[m] \in Nat
  BY <1>1, BodyUnits, Zenon
<1>3. c.state = "live" /\ c \in Conns /\ req \in Requests /\ p \in Parsers
  BY <1>0, <1>1, RunFacts, TypeParts, Zenon
<1>4. m \in Msgs /\ req.cb = "none" /\ m # 0 /\ ~req.finished
  BY <1>1, ParsingFacts
<1>5. FreshInv /\ PerRequestState /\ Queued /\ Bounded
  BY <1>3, TurnParts, Zenon DEF SequentialInv
<1>6. req.htp = Host[m] /\ c.body_bytes_read = Body[m] - p.left
  BY <1>1, <1>3, <1>5 DEF FreshInv
<1>7. \/ /\ TooLong(n)
         /\ c' = [c EXCEPT !.flags = @ \cup {"ERROR"}]
         /\ req' = [req EXCEPT !.status = "TOO_LONG"]
         /\ p' = Failed
      \/ \E r \in HookResults :
           /\ req' = [req EXCEPT !.status = r, !.buf = IF r = "OK" THEN @ \o buf ELSE @]
           /\ c' = [c EXCEPT !.scratch = IF r = "OK" THEN << >> ELSE buf,
                             !.body_bytes_read = @ + n]
           /\ p' = IF r = "ERROR" THEN Failed
                   ELSE [[p EXCEPT !.left = @ - n,
                                   !.state = IF p.left = n THEN "complete" ELSE "body"]
                         EXCEPT !.paused = r = "PAUSE"]
  BY Zenon DEF RunBody
<1> HIDE DEF n, m, buf
<1>8. SUFFICES /\ c'.state = "live" /\ c'.num_requests = c.num_requests
               /\ req'.msg = m /\ req'.cb = "none" /\ ~req'.finished
               /\ req'.status = "TOO_LONG" => Body[m] >= MaxBody
               /\ p'.state \in {"body", "complete", "error"}
               /\ p'.state # "error" => req'.htp = Host[m] /\ c'.body_bytes_read = Body[m] - p'.left
  <2>1. FreshInv'
    BY <1>1, <1>3, <1>4, <1>5, <1>8 DEF FreshInv
  <2>2. PerRequestState'
    BY <1>1, <1>5, <1>8, Zenon DEF PerRequestState
  <2>3. Queued'
    BY <1>1, <1>4, <1>5, <1>8, Zenon DEF Queued, NoFinal
  <2>4. Bounded'
    BY <1>1, <1>4, <1>5, <1>8, Zenon DEF Bounded
  <2> QED
    BY <2>1, <2>2, <2>3, <2>4, TurnStep, Zenon DEF SequentialInv
<1>9. CASE /\ TooLong(n)
           /\ c' = [c EXCEPT !.flags = @ \cup {"ERROR"}]
           /\ req' = [req EXCEPT !.status = "TOO_LONG"]
           /\ p' = Failed
  <2>1. c'.state = "live" /\ c'.num_requests = c.num_requests
    BY <1>3, <1>9 DEF Conns
  <2>2. req'.msg = m /\ req'.cb = "none" /\ ~req'.finished
    BY <1>3, <1>4, <1>9 DEF Requests, m
  <2>3. p'.state = "error"
    BY <1>3, <1>9 DEF Parsers, Failed
  <2>4. Body[m] >= MaxBody
    BY <1>2, <1>6, <1>9, ConnectionAssumption DEF TooLong
  <2> QED
    BY <2>1, <2>2, <2>3, <2>4
<1>10. CASE \E r \in HookResults :
           /\ req' = [req EXCEPT !.status = r, !.buf = IF r = "OK" THEN @ \o buf ELSE @]
           /\ c' = [c EXCEPT !.scratch = IF r = "OK" THEN << >> ELSE buf,
                             !.body_bytes_read = @ + n]
           /\ p' = IF r = "ERROR" THEN Failed
                   ELSE [[p EXCEPT !.left = @ - n,
                                   !.state = IF p.left = n THEN "complete" ELSE "body"]
                         EXCEPT !.paused = r = "PAUSE"]
  <2>1. PICK r \in HookResults :
           /\ req' = [req EXCEPT !.status = r, !.buf = IF r = "OK" THEN @ \o buf ELSE @]
           /\ c' = [c EXCEPT !.scratch = IF r = "OK" THEN << >> ELSE buf,
                             !.body_bytes_read = @ + n]
           /\ p' = IF r = "ERROR" THEN Failed
                   ELSE [[p EXCEPT !.left = @ - n,
                                   !.state = IF p.left = n THEN "complete" ELSE "body"]
                         EXCEPT !.paused = r = "PAUSE"]
    BY <1>10, Zenon
  <2> DEFINE b == IF r = "OK" THEN req.buf \o buf ELSE req.buf
             s == IF r = "OK" THEN << >> ELSE buf
  <2>a. req' = [req EXCEPT !.status = r, !.buf = b] /\ c' = [c EXCEPT !.scratch = s, !.body_bytes_read = @ + n]
    BY <2>1
  <2> HIDE DEF b, s
  <2>2. c'.state = "live" /\ c'.num_requests = c.num_requests /\ c'.body_bytes_read = c.body_bytes_read + n
    <3>1. c' = [c EXCEPT !.scratch = s, !.body_bytes_read = @ + n]
      BY <2>a
    <3> QED
      BY <1>3, <3>1 DEF Conns
  <2>3. req'.msg = m /\ req'.cb = "none" /\ ~req'.finished /\ req'.status = r /\ req'.htp = req.htp
    <3>1. req' = [req EXCEPT !.status = r, !.buf = b]
      BY <2>a, Zenon
    <3> QED
      BY <1>3, <1>4, <3>1 DEF Requests, m
  <2>4. r # "TOO_LONG"
    BY ConnectionAssumption, Zenon
  <2>5. CASE r = "ERROR"
    <3>1. p'.state = "error"
      BY <1>3, <2>1, <2>5, Zenon DEF Parsers, Failed
    <3> QED
      BY <2>2, <2>3, <2>4, <3>1
  <2>6. CASE r # "ERROR"
    <3> DEFINE u == IF p.left = n THEN "complete" ELSE "body"
               q == [p EXCEPT !.left = @ - n, !.state = u]
    <3>1. p' = [q EXCEPT !.paused = r = "PAUSE"]
      BY <2>1, <2>6, Zenon
    <3>2. u \in {"complete", "body"} /\ p.left - n \in Nat
      BY <1>2
    <3> HIDE DEF u
    <3>3. q \in Parsers /\ q.left = p.left - n /\ q.state = u
      BY <1>3, <3>2, Zenon DEF Parsers
    <3> HIDE DEF q
    <3>4. p'.left = q.left /\ p'.state = q.state
      BY <3>1, <3>3, Zenon DEF Parsers
    <3>5. c'.body_bytes_read = Body[m] - p'.left
      BY <1>2, <1>6, <2>2, <3>3, <3>4
    <3> QED
      BY <1>6, <2>2, <2>3, <2>4, <3>2, <3>3, <3>4, <3>5
  <2> QED
    BY <2>5, <2>6
<1> QED
  BY <1>7, <1>9, <1>10, Zenon

\* on_msg_complete: the callback is that of the request's own host, and one of
\* max_keepalive_requests.
LEMMA CompleteSequential ==
    ASSUME "stream_length" \notin CbActions, ConnInv, SequentialInv, RunComplete PROVE SequentialInv'
<1>0. TypeOK
  BY DEF ConnInv
<1> DEFINE m == req.msg
           e == [msg |-> req.msg, htp |-> req.htp, body |-> req.buf]
<1>1. /\ run.pc = "run" /\ p.state = "complete"
      /\ UNCHANGED <<input, next, closed, delivered>>
  BY Zenon DEF RunComplete, Running
<1>2. c.state = "live" /\ "PAUSED" \notin c.flags
  BY <1>1, RunFacts
<1>3. PICK a \in CbActions :
        /\ req' = [req EXCEPT !.cb = a, !.finished = a = "reply",
                              !.status = IF Pauses(a) /\ a # "conn_pause" THEN "PAUSE" ELSE @]
        /\ c' = CASE Pauses(a) -> [c EXCEPT !.flags = @ \cup {"PAUSED"}, !.reading = FALSE]
                  [] a = "own" -> [c EXCEPT !.flags = @ \ {"OWNER"}, !.reading = FALSE]
                  [] OTHER     -> c
        /\ p' = IF Pauses(a) THEN Failed ELSE [p EXCEPT !.state = "start"]
        /\ output' = output \o Reply(a, m)
        /\ cbs' = Append(cbs, e)
  BY <1>2, Zenon DEF RunComplete
<1>4. /\ m = Len(cbs) + 1 /\ m \in Msgs /\ req.cb = "none" /\ m # 0 /\ ~req.finished /\ Len(cbs) \in Nat
  BY <1>1, ParsingFacts, Zenon
<1>5. c \in Conns /\ req \in Requests /\ p \in Parsers /\ output \in Seq(Items) /\ cbs \in Seq(Callbacks)
  BY <1>0, TypeParts, Zenon
<1>6. FreshInv /\ PerRequestState /\ Queued /\ Bounded
  BY <1>2, TurnParts, Zenon DEF SequentialInv
<1>7. req.htp = Host[m]
  BY <1>1, <1>2, <1>6, Zenon DEF FreshInv
<1>8. /\ Len(cbs') = m /\ DOMAIN cbs = 1 .. Len(cbs) /\ DOMAIN cbs' = 1 .. m
      /\ \A i \in 1 .. Len(cbs) : cbs'[i] = cbs[i]
      /\ cbs'[m] = e
  <2>1. e \in Callbacks /\ cbs' = Append(cbs, e)
    BY <1>3, <1>4, <1>5, Zenon DEF Requests, Callbacks
  <2> HIDE DEF e, m
  <2> QED
    BY <1>4, <1>5, <2>1
<1>9. e.msg = m /\ e.htp = Host[m]
  BY <1>7
<1> HIDE DEF e
<1>10. /\ req'.msg = m /\ req'.cb = a /\ req'.finished = (a = "reply") /\ req'.status \in {"PAUSE", req.status}
  <2>1. req' = [req EXCEPT !.cb = a, !.finished = a = "reply",
                           !.status = IF Pauses(a) /\ a # "conn_pause" THEN "PAUSE" ELSE @]
    BY <1>3, Zenon
  <2> HIDE DEF m
  <2> QED
    BY <1>5, <2>1 DEF Requests, m
<1>11. c'.state = "live" /\ c'.num_requests = c.num_requests
  <2>1. CASE Pauses(a)
    <3>1. c' = [c EXCEPT !.flags = @ \cup {"PAUSED"}, !.reading = FALSE]
      BY <1>3, <2>1 DEF Pauses
    <3> QED
      BY <1>2, <1>5, <3>1 DEF Conns
  <2>2. CASE ~Pauses(a) /\ a = "own"
    <3>1. c' = [c EXCEPT !.flags = @ \ {"OWNER"}, !.reading = FALSE]
      BY <1>3, <2>2, Zenon
    <3> QED
      BY <1>2, <1>5, <3>1 DEF Conns
  <2>3. CASE ~Pauses(a) /\ a # "own"
    <3>1. c' = c
      BY <1>3, <2>3
    <3> QED
      BY <1>2, <3>1
  <2> QED
    BY <2>1, <2>2, <2>3
<1>12. p'.state \in {"start", "error"} /\ a # "none" /\ a # "stream_length"
  BY <1>3, <1>5, ConnectionAssumption, Zenon DEF Failed, Parsers
<1>13. MaxKeepalive > 0 => c.num_requests = Len(cbs) /\ Len(cbs) < MaxKeepalive
  BY <1>2, <1>4, <1>6, Zenon DEF FreshInv
<1>14. FreshInv'
  <2>1. MaxKeepalive > 0 => c'.num_requests = Len(cbs') - 1
    BY <1>4, <1>8, <1>11, <1>13
  <2> QED
    BY <1>4, <1>10, <1>12, <2>1, Zenon DEF FreshInv
<1>15. PerRequestState'
  <2>1. ASSUME NEW i \in DOMAIN cbs' PROVE cbs'[i].htp = Host[cbs'[i].msg]
    <3>1. CASE i = m
      BY <1>8, <1>9, <3>1, Zenon
    <3>2. CASE i \in 1 .. Len(cbs)
      BY <1>6, <1>8, <3>2, Zenon DEF PerRequestState
    <3> QED
      BY <1>4, <1>8, <3>1, <3>2
  <2>2. MaxKeepalive > 0 => Len(cbs') <= MaxKeepalive
    BY <1>4, <1>8, <1>13, ConnectionAssumption
  <2>3. req'.status = "TOO_LONG" => Body[req'.msg] >= MaxBody
    BY <1>6, <1>10, Zenon DEF PerRequestState
  <2> QED
    BY <2>1, <2>2, <2>3, Zenon DEF PerRequestState
<1>16. Queued'
  <2>1. NoFinal(output)
    BY <1>4, <1>6 DEF Queued
  <2>2. CASE a = "reply"
    <3> DEFINE f == Item(m, "final")
    <3>1. f \in Items /\ output' = output \o <<f>>
      BY <1>3, <1>4, <2>2, Zenon DEF Item, Items, Reply
    <3> HIDE DEF f
    <3>2. LastFinal(Append(output, f), m)
      BY <1>5, <2>1, <3>1, FinalFacts, Zenon DEF f
    <3>3. output \o <<f>> = Append(output, f)
      BY <1>5, <3>1, AppendIsConcat
    <3>4. LastFinal(output', Len(cbs'))
      BY <1>8, <3>1, <3>2, <3>3, Zenon
    <3> QED
      BY <1>10, <2>2, <3>4, Zenon DEF Queued, LastFinal
  <2>3. CASE a = "stream_chunked"
    <3> DEFINE f == Item(m, "part")
    <3>1. f \in Items /\ ~IsFinal(f) /\ output' = output \o <<f>>
      BY <1>3, <1>4, <2>3 DEF Item, Items, Reply, IsFinal
    <3> HIDE DEF f
    <3>2. NoFinal(Append(output, f))
      BY <1>5, <2>1, <3>1, FinalFacts, Zenon
    <3>3. output \o <<f>> = Append(output, f)
      BY <1>5, <3>1, AppendIsConcat
    <3>4. NoFinal(output')
      BY <3>1, <3>2, <3>3, Zenon
    <3> QED
      BY <1>10, <2>3, <3>4, Zenon DEF Queued, NoFinal
  <2>4. CASE a \notin {"reply", "stream_chunked"}
    <3>1. Reply(a, m) = << >>
      BY <1>12, <2>4 DEF Reply
    <3>2. output' = output
      BY <1>3, <1>5, <3>1, ConcatNothing, Zenon
    <3> QED
      BY <1>10, <2>1, <2>4, <3>2, Zenon DEF Queued, NoFinal
  <2> QED
    BY <2>2, <2>3, <2>4, Zenon
<1>17. Bounded'
  <2>1. Len(cbs) < NumMsgs /\ m + 1 = Len(cbs) + 2
    BY <1>4, ConnectionAssumption DEF Msgs
  <2>2. next <= Start[m + 1]
    BY <1>4, <1>6, <2>1 DEF Bounded
  <2> QED
    BY <1>1, <1>8, <1>10, <1>12, <2>2, Zenon DEF Bounded
<1> QED
  BY <1>14, <1>15, <1>16, <1>17, TurnStep DEF SequentialInv

\* Every callback keeps it.
LEMMA NextSequential ==
    ASSUME ~Pipelined, "stream_length" \notin CbActions, ConnInv, SequentialInv, [Next]_vars
    PROVE  SequentialInv'
<1>1. CASE RunParser \/ ReadDone
  BY <1>1, BeginSequential, HeadSequential, BodySequential, CompleteSequential, ReadSequential, Zenon DEF RunParser
<1>2. CASE Flush \/ WriteCb
  BY <1>2, WriteSequential, Zenon
<1>3. CASE ReadEof \/ WriteFails \/ DrainFails \/ ResumeCb
  BY <1>3, EventSequential, Zenon
<1>4. CASE AppFinish \/ AppResume \/ Recv \/ Close
  BY <1>4, AppSequential, RecvSequential, Zenon
<1>5. CASE UNCHANGED vars
  BY <1>5, KeepsSequential DEF vars, Keeps
<1> QED
  BY <1>1, <1>2, <1>3, <1>4, <1>5, Zenon DEF Next

\* Nothing has been sent or kept when the connection is accepted.
LEMMA InitSequential == ASSUME Init PROVE SequentialInv
<1>1. /\ c = Conn /\ req = NoReq /\ p = Parser /\ output = << >> /\ next = 0 /\ cbs = << >>
  BY Zenon DEF Init
<1>2. Len(cbs) = 0 /\ DOMAIN cbs = {}
  BY <1>1
<1>3. NumMsgs \in Nat /\ MaxKeepalive \in Nat
  BY ConnectionAssumption, Zenon
<1>4. /\ c.htp = Main /\ c.body_bytes_read = 0 /\ c.num_requests = 0
      /\ req.cb = "none" /\ ~req.finished /\ req.status = "OK" /\ req.msg = 0 /\ p.state = "start"
  BY <1>1, Initials, Zenon DEF Conn, Parser
<1>5. FreshInv
  BY <1>2, <1>3, <1>4, Zenon DEF FreshInv
<1>6. PerRequestState
  BY <1>2, <1>3, <1>4 DEF PerRequestState
<1>7. Queued
  BY <1>1, <1>4 DEF Queued, NoFinal
<1>8. Bounded
  <2> SUFFICES ASSUME 0 < NumMsgs PROVE 0 <= Start[0 + 2]
    BY <1>1, <1>2, <1>4, Zenon DEF Bounded
  <2>1. 1 \in Msgs
    BY <1>3 DEF Msgs
  <2>2. Start[1 + 1] \in Nat
    BY <2>1, StreamFacts, Zenon
  <2> QED
    BY <2>2
<1> QED
  BY <1>5, <1>6, <1>7, <1>8, TurnParts, Zenon DEF SequentialInv

\* What the connection keeps for one request does not outlive it, when the client
\* waits for each reply: the virtual host is the request's own, a body is refused
\* for its own size, and max_keepalive_requests is never exceeded.  With a reply
\* whose length is announced the client may send on before the application ends
\* it, and with a client that does not wait the next request begins before the
\* write callback has reset anything.
THEOREM RequestStateFresh ==
    ASSUME ~Pipelined, "stream_length" \notin CbActions PROVE Spec => []PerRequestState
<1>1. Init => ConnInv /\ SequentialInv
  BY InitInv, InitSequential, Zenon
<1>2. ConnInv /\ SequentialInv /\ [Next]_vars => (ConnInv /\ SequentialInv)'
  BY NextInv, NextSequential
<1>3. SequentialInv => PerRequestState
  BY DEF SequentialInv
<1> QED
  BY <1>1, <1>2, <1>3, PTL DEF Spec

=============================================================================
