---------------------------- MODULE MCConnection ----------------------------
(* Connection with the messages of small clients.                          *)
EXTENDS Connection, FiniteSetsExt, SequencesExt

CONSTANTS main, vhost1, vhost2

MCVhosts == {vhost1, vhost2}

\* the stream of a client: a head and Body[m] units of body for each m
MCStart  == [m \in 1 .. NumMsgs + 1 |-> MapThenSumSet(LAMBDA k : Body[k] + 1, 1 .. m - 1)]
MCStream == FlattenSeq([m \in Msgs |-> [k \in 1 .. Body[m] + 1 |-> [msg |-> m, part |-> k - 1]]])

\* three requests: to virtual host 1, to 2 with a body, to the main host
MCHost      == <<vhost1, vhost2, main>>
MCBody      == <<0, 2, 1>>
MCKeepAlive == <<TRUE, TRUE, TRUE>>
MCExpect    == <<FALSE, FALSE, FALSE>>

\* the second asks for 100 Continue; the second asks to close the connection
MCExpectSecond == <<FALSE, TRUE, FALSE>>
MCCloseSecond  == <<TRUE, FALSE, TRUE>>

\* the third body reaches max_body_size
MCBodyLimit == <<0, 2, 3>>

\* one more request than the connection may make
MCHostLong      == MCHost \o <<vhost1>>
MCBodyLong      == MCBody \o <<0>>
MCKeepAliveLong == MCKeepAlive \o <<TRUE>>
MCExpectLong    == MCExpect \o <<FALSE>>

=============================================================================
