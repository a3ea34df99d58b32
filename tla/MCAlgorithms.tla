---------------------------- MODULE MCAlgorithms ----------------------------
(* The pure algorithms of evhtp.c on every short input of each kind. *)
EXTENDS MCHeaders

CONSTANT MaxLen    \* bound: per kind of text, its length

vars == <<kind, text>>

Lengths == [path |-> 5, query |-> 5, bytes |-> 4, headers |-> 4, calls |-> 6]

\* the characters, or calls, that may come next
Alphabet(k) ==
    CASE k = "path"    -> {"/", "a", "b"}
      [] k = "query"   -> {"a", "z", "%", "=", "&", ";", "#"}
      [] k = "bytes"   -> {0, 37, 65, 102, 255}
      [] k = "headers" -> ListCalls
      [] k = "calls"   -> NextCalls

Init == kind \in DOMAIN MaxLen /\ text = << >>

Grow ==
    /\ Len(text) < MaxLen[kind]
    /\ \E ch \in Alphabet(kind) : text' = Append(text, ch)
    /\ UNCHANGED kind

Spec == Init /\ [][Grow]_vars
=============================================================================
