----------------------------- MODULE MsgGrammar -----------------------------
(***************************************************************************)
(* What a stream of HTTP/1.x messages means, read off the whole stream at  *)
(* once: where each message begins, how its body is framed (RFC 9112, 6.3),*)
(* which symbols are body, and where the first error is.  The definitions  *)
(* follow the grammar, not msgparser.c: they know no states, no flags and  *)
(* no pieces.  Reads(s, response) is the sequence of reports a parser owes *)
(* for the stream s:                                                       *)
(*   [what |-> "begin"], [what |-> "head", arg |-> the framing],           *)
(*   [what |-> "byte", arg |-> its position], [what |-> "end"],            *)
(*   [what |-> "error"].                                                   *)
(* A stream that stops inside a message is reported as far as it goes.     *)
(***************************************************************************)
EXTENDS Integers, Sequences, FiniteSets, SequencesExt

LOCAL Report(w, x) == [what |-> w, arg |-> x]

\* the position of the LF that ends the line at i, 0 if there is none
LineEnd(s, i) ==
    IF \E j \in i .. Len(s) : s[j] = "LF"
    THEN CHOOSE j \in i .. Len(s) : s[j] = "LF" /\ \A k \in i .. j - 1 : s[k] # "LF"
    ELSE 0

\* the line at i without its line end
Line(s, i) ==
    LET e == LineEnd(s, i)
    IN  IF e > i /\ s[e - 1] = "CR" THEN SubSeq(s, i, e - 2) ELSE SubSeq(s, i, e - 1)

\* the lines from i up to the first empty one, and where the next line is
RECURSIVE Section(_, _)
Section(s, i) ==
    IF LineEnd(s, i) = 0 THEN [lines |-> << >>, whole |-> FALSE, next |-> i]
    ELSE IF Line(s, i) = << >>
    THEN [lines |-> << >>, whole |-> TRUE, next |-> LineEnd(s, i) + 1]
    ELSE LET rest == Section(s, LineEnd(s, i) + 1)
         IN  [rest EXCEPT !.lines = <<Line(s, i)>> \o @]

Field(line) == Len(line) = 1 /\ line[1] \in {"host", "hdr", "cl1", "cl2", "chunked",
                                             "gzip", "unknown", "close", "keepalive"}

\* the values of the fields of one name, in order
Values(lines, names) ==
    LET named(line) == line[1] \in names
    IN  [i \in DOMAIN SelectSeq(lines, named) |-> SelectSeq(lines, named)[i][1]]

\* RFC 9112, 6.3: how the body of a message is delimited
Framing(first, fields, response) ==
    LET codings == Values(fields, {"chunked", "gzip", "unknown"})
        lengths == ToSet(Values(fields, {"cl1", "cl2"}))
        last    == Len(codings)
        chunked == { i \in 1 .. last : codings[i] = "chunked" }
    IN  CASE Cardinality(lengths) > 1 -> "error"
          [] response /\ first \in {"r204v11", "r100v11"} -> "NONE"
          [] codings # << >> /\ chunked \notin {{}, {last}} -> "error"
          [] codings # << >> /\ response ->
               IF chunked = {last} THEN "CHUNKED" ELSE "IDENTITY"
          [] codings # << >> /\ ~response ->
               IF chunked = {last} /\ lengths = {} /\ "unknown" \notin ToSet(codings)
               THEN "CHUNKED" ELSE "error"
          [] codings = << >> /\ lengths # {} -> "LENGTH"
          [] codings = << >> /\ lengths = {} /\ response /\ first = "r200v10"
             /\ Values(fields, {"keepalive"}) = << >> -> "IDENTITY"
          [] OTHER -> "NONE"

LengthOf(fields) == IF Values(fields, {"cl1", "cl2"})[1] = "cl1" THEN 1 ELSE 2

\* n symbols of body from position i on, as far as the stream has them
RawBytes(s, i, n) ==
    LET m == IF Len(s) - i + 1 < n THEN Len(s) - i + 1 ELSE n
    IN  [k \in 1 .. m |-> Report("byte", i + k - 1)]

RECURSIVE Messages(_, _, _)
RECURSIVE Chunks(_, _, _)

\* a chunked body at i, its trailer section, and the messages after it
Chunks(s, i, response) ==
    IF LineEnd(s, i) = 0 THEN << >>
    ELSE LET size == Line(s, i)
             d    == LineEnd(s, i) + 1
             n    == IF size = <<"s1">> THEN 1 ELSE 2
             e    == d + n
             trailers == Section(s, d)
         IN  IF size \notin {<<"s0">>, <<"s1">>, <<"s2">>} THEN <<Report("error", 0)>>
             ELSE IF size = <<"s0">>
             THEN IF \E k \in DOMAIN trailers.lines : ~Field(trailers.lines[k])
                  THEN <<Report("error", 0)>>
                  ELSE IF ~trailers.whole THEN << >>
                  ELSE <<Report("end", 0)>> \o Messages(s, trailers.next, response)
             ELSE RawBytes(s, d, n) \o
                  IF e > Len(s) \/ (e = Len(s) /\ s[e] # "LF") THEN << >>
                  ELSE IF s[e] = "LF" THEN Chunks(s, e + 1, response)
                  ELSE IF s[e] = "CR" /\ s[e + 1] = "LF" THEN Chunks(s, e + 2, response)
                  ELSE <<Report("error", 0)>>

\* the messages of s from position i on
Messages(s, i, response) ==
    IF \A k \in i .. Len(s) : s[k] \in {"CR", "LF"} THEN << >>
    ELSE LET b == CHOOSE k \in i .. Len(s) :
                    s[k] \notin {"CR", "LF"} /\ \A j \in i .. k - 1 : s[j] \in {"CR", "LF"}
             head   == Section(s, b)
             first  == head.lines[1]
             fields == Tail(head.lines)
             bad    == \/ Len(first) # 1
                       \/ first[1] \notin (IF response THEN {"r200v11", "r200v10",
                                                             "r204v11", "r100v11"}
                                                       ELSE {"req", "req_args", "req_absolute",
                                                             "req_authority"})
                       \/ \E k \in DOMAIN fields : ~Field(fields[k])
                       \/ Cardinality(ToSet(Values(fields, {"cl1", "cl2"}))) > 1
             kind   == Framing(first[1], fields, response)
         IN  <<Report("begin", 0)>> \o
             IF head.lines = << >> THEN << >>
             ELSE IF bad THEN <<Report("error", 0)>>
             ELSE IF ~head.whole THEN << >>
             ELSE IF kind = "error" THEN <<Report("error", 0)>>
             ELSE <<Report("head", kind)>> \o
               CASE kind = "NONE" ->
                      <<Report("end", 0)>> \o Messages(s, head.next, response)
                 [] kind = "LENGTH" ->
                      LET n == LengthOf(fields)
                          body == RawBytes(s, head.next, n)
                      IN  IF Len(body) < n THEN body
                          ELSE body \o <<Report("end", 0)>>
                                    \o Messages(s, head.next + n, response)
                 [] kind = "CHUNKED" -> Chunks(s, head.next, response)
                 [] kind = "IDENTITY" ->
                      RawBytes(s, head.next, Len(s)) \o <<Report("end", 0)>>

Reads(s, response) == Messages(s, 1, response)

=============================================================================
