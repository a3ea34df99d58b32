------------------------------ MODULE H2Headers ------------------------------
(***************************************************************************)
(* Which headers of a list go out over HTTP/2: the filters of evhtp.c for  *)
(* the requests of a client and for the replies of a server.               *)
(***************************************************************************)
EXTENDS KvList

Tab == 9
Blank(c) == c \in {Space, Tab}

\* Mutant: the blanks behind a token belong to it.
TokenEndLoose(val, p, e) == e - 1

\* where the token that starts at p, before the comma at e, ends
TokenEnd(val, p, e) == Max({ i \in p .. e - 1 : ~Blank(val[i]) } \cup {p - 1})

\* h2__connection_lists
RECURSIVE ConnectionLists(_, _)
ConnectionLists(val, name) ==
    LET p == Min({ i \in DOMAIN val : ~Blank(val[i]) /\ val[i] # Comma } \cup {Len(val) + 1})
        e == Min({ i \in p .. Len(val) : val[i] = Comma } \cup {Len(val) + 1})
    IN  /\ val # << >>
        /\ \/ SameName(SubSeq(val, p, TokenEnd(val, p, e)), name)
           \/ ConnectionLists(SubSeq(val, e, Len(val)), name)

\* h2__named_by_connection
NamedByConnection(kvs, name) ==
    \E i \in DOMAIN kvs : /\ SameName(KeyText(kvs[i]), Connection)
                          /\ ConnectionLists(ValText(kvs[i]), name)

\* skip_hop_by_hop_request_header
SkipRequestHeader(kv, kvs) ==
    LET Is(name) == SameName(KeyText(kv), name)
    IN  \/ \E n \in {Host, Connection, KeepAlive, ProxyConnection, TransferEncoding, Upgrade} : Is(n)
        \/ IF Is(TE) THEN ~SameName(ValText(kv), Trailers)
                     ELSE NamedByConnection(kvs, KeyText(kv))

\* skip_h2_response_header
SkipReplyHeader(kv) ==
    \E n \in {Upgrade, Connection, KeepAlive, ProxyConnection, TransferEncoding} :
        SameName(KeyText(kv), n)

\* h2__client_authority: the name TLS was given, else the peer's address; then
\* the port, unless it is 443 or the peer is not known
ClientAuthority(c) ==
    LET name == IF c.sni # NULL THEN c.sni ELSE c.peer
    IN  [host |-> name, port |-> IF name = NULL \/ c.peer = NULL THEN {} ELSE {c.port} \ {443}]

\* The headers of evhtp_h2_make_request; :method, :path and :scheme do not
\* depend on the list.
RequestNv(c, kvs) ==
    [authority |-> IF KvFind(kvs, Host) = NULL THEN ClientAuthority(c)
                   ELSE [host |-> KvFind(kvs, Host), port |-> {}],
     fields    |-> SelectSeq(kvs, LAMBDA kv : ~SkipRequestHeader(kv, kvs))]

\* h2__response_nv_
ReplyNv(kvs) == SelectSeq(kvs, LAMBDA kv : ~SkipReplyHeader(kv))
=============================================================================
