----------------------------- MODULE MCMsgParser -----------------------------
(* MsgParser on small streams, compared with the grammar.                  *)
EXTENDS MsgParser, MsgGrammar

\* head of a message with the given fields
Head1(first, fields) ==
    <<first, "CR", "LF">> \o FlattenSeq([i \in DOMAIN fields |-> <<fields[i], "LF">>])
                          \o <<"CR", "LF">>

ChunkBodies == {
    <<"s2", "CR", "LF", "x", "LF", "CR", "LF", "s0", "LF", "LF">>,
    <<"s1", "LF", "s0", "LF", "s0", "LF", "hdr", "LF", "LF">>,
    <<"s1", "LF", "x", "y", "LF">>,
    <<"s0", "LF", "cl1", "CR", "LF", "CR", "LF">> }

FieldLists == { << >>, <<"hdr">>, <<"host", "cl1">>, <<"cl2", "cl2">>, <<"cl1", "cl2">>,
                <<"x">>, <<"chunked", "cl1">>, <<"gzip", "chunked">>,
                <<"chunked", "gzip">>, <<"chunked", "chunked">>, <<"unknown", "chunked">>,
                <<"gzip">>, <<"keepalive">>, <<"close">>, <<"hdr", "hdr", "cl1">> }

RequestStreams ==
    { Head1("req", f) \o <<"x", "LF", "CR">> : f \in FieldLists }
    \cup { Head1("req", <<"chunked">>) \o b \o <<"req">> : b \in ChunkBodies }
    \cup { Head1(r, <<"cl1">>) \o <<"x">> : r \in {"req_args", "req_absolute", "req_authority",
                                                  "bad_uri", "bad_scheme", "bad_method"} }
    \cup { <<"req", "x", "y", "LF", "LF">>, <<"LF", "LF">> \o Head1("req", << >>) }
    \cup { Head1("req", << >>) \o <<"CR", "LF">> \o Head1("req", <<"cl1">>) \o <<"z">> }

ResponseStreams ==
    { Head1(r, f) \o <<"x", "LF">> : r \in StatusLines, f \in FieldLists }
    \cup { Head1("r200v11", <<"chunked">>) \o b : b \in ChunkBodies }

-----------------------------------------------------------------------------
\* what the hook calls report, in the terms of the grammar
Told(e) ==
    CASE e.name = "msg_begin"     -> <<[what |-> "begin", arg |-> 0]>>
      [] e.name = "hdrs_complete" -> <<[what |-> "head", arg |-> e.arg]>>
      [] e.name = "body"          -> [i \in DOMAIN e.arg |-> [what |-> "byte", arg |-> e.arg[i]]]
      [] e.name = "msg_complete"  -> <<[what |-> "end", arg |-> 0]>>
      [] OTHER                    -> << >>

\* a hook or a limit of the configuration ended the message
Refused == p.error \in {"user", "too_big"}

Reports ==
    FlattenSeq([i \in DOMAIN ev |-> Told(ev[i])])
    \o IF p.state = "ERROR" /\ ~Refused THEN <<[what |-> "error", arg |-> 0]>>
                                       ELSE << >>

(* However the stream is cut into pieces, and wherever hooks pause the     *)
(* parser, it never reports anything the grammar does not: no byte is      *)
(* skipped, reported twice or taken for part of another message.  A limit  *)
(* of the configuration or a failing hook may end the reports early.       *)
ReportsFollowGrammar ==
    (\A i \in DOMAIN ev : ~SkipsBody(ev[i])) => IsPrefix(Reports, Reads(stream, Response))

(* A paused run that is resumed carries on, also with no new data, until   *)
(* all there is has been reported.                                         *)
EventuallyRead ==
    <>(\/ Reports = Reads(stream, Response)
       \/ Refused \/ \E i \in DOMAIN ev : SkipsBody(ev[i]))

=============================================================================
