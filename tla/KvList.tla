------------------------------- MODULE KvList -------------------------------
(***************************************************************************)
(* The key/value lists of evhtp.c (evhtp_kvs_t), which hold the headers of *)
(* requests and replies and the arguments of a query.                      *)
(*                                                                         *)
(* A key is a sequence of bytes; the names HTTP gives a meaning to are     *)
(* abbreviated to two letters.  A pointer that may be NULL is a set.  Each *)
(* text has a storage: "heap" is a block of its own, "static" outlives     *)
(* every list, "local" ends with the function that made it.                *)
(***************************************************************************)
EXTENDS Integers, SequencesExt

CONSTANT MaxResults    \* MAX_RESULTS of evhtp_collapse_headers (100 in the code)

ASSUME MaxResultsAssumption == MaxResults \in Nat /\ MaxResults >= 2

NULL == {}

\* the names with a meaning, and values of theirs
ContentLength    == <<99, 108>>     \* "cl"
ContentType      == <<99, 116>>     \* "ct"
Connection       == <<99, 110>>     \* "cn"
KeepAlive        == <<107, 97>>     \* "ka"
ProxyConnection  == <<112, 99>>     \* "pc"
TransferEncoding == <<116, 101>>    \* "te"
Upgrade          == <<117, 112>>    \* "up"
Host             == <<104, 111>>    \* "ho"
TE               == <<116>>         \* "t"
Trailers         == <<116, 114>>    \* "tr"

-----------------------------------------------------------------------------
(* Making, adding and removing *)

\* a text with the storage it is in
Static(t) == [text |-> t, in |-> "static"]
Local(t)  == [text |-> t, in |-> "local"]
Heap(t)   == [text |-> t, in |-> "heap"]

\* what a pair keeps of a text: a copy, or the text itself
Kept(p, alloc) == { IF alloc THEN Heap(t.text) ELSE t : t \in p }

\* evhtp_kv_new
KvNew(key, val, kalloc, valloc) ==
    [key |-> Kept(key, kalloc), val |-> Kept(val, valloc), k_heaped |-> kalloc, v_heaped |-> valloc]

\* evhtp_kvs_add_kv
AddKv(kvs, kv) == Append(kvs, kv)

\* evhtp_kvs_add_kvs: a copy of every pair; what the pair does not own is shared
AddKvs(dst, src) ==
    dst \o [i \in DOMAIN src |-> KvNew(src[i].key, src[i].val, src[i].k_heaped, src[i].v_heaped)]

\* evhtp_header_key_add, evhtp_header_val_add: the value goes to the last key,
\* which must not have one; {} is a refusal
HeaderKeyAdd(kvs, key, alloc) == AddKv(kvs, KvNew({key}, NULL, alloc, FALSE))
HeaderValAdd(kvs, val, alloc) ==
    IF kvs = << >> \/ Last(kvs).val # NULL THEN {}
    ELSE { [kvs EXCEPT ![Len(kvs)].val = Kept({val}, alloc), ![Len(kvs)].v_heaped = alloc] }

\* htp__request_parse_header_key_, _val_: the texts the parser reports are
\* copied first and handed over to the list
ParseHeaderKey(kvs, text) ==
    LET added == HeaderKeyAdd(kvs, Heap(text), FALSE)
    IN  [added EXCEPT ![Len(added)].k_heaped = TRUE]
ParseHeaderVal(kvs, text) ==
    { [added EXCEPT ![Len(added)].v_heaped = TRUE] : added \in HeaderValAdd(kvs, Heap(text), FALSE) }

\* evhtp_kv_rm_and_free
RmAndFree(kvs, kv) == IF kv = NULL THEN kvs ELSE RemoveAt(kvs, Min(kv))

-----------------------------------------------------------------------------
(* Lookup *)

\* (unsigned char)c | 0x20
ToLower(c) == IF (c \div 32) % 2 = 0 THEN c + 32 ELSE c

\* Mutant: the bytes are compared as they are.
MatchHeaderKeyCase(kv, key) == \A k \in kv.key : k.text = key

MatchHeaderKey(kv, key) ==
    \A k \in kv.key : /\ Len(k.text) = Len(key)
                      /\ \A i \in DOMAIN key : ToLower(k.text[i]) = ToLower(key[i])

\* kvs_find_kv_n: where the first match is, if there is one
FindKv(kvs, key) ==
    LET found == { i \in DOMAIN kvs : MatchHeaderKey(kvs[i], key) }
    IN  IF found = {} THEN NULL ELSE {Min(found)}

\* kv_find_n: its value
KvFind(kvs, key) == UNION { { v.text : v \in kvs[i].val } : i \in FindKv(kvs, key) }

\* kvs_count_kv_n
CountKv(kvs, key) == Len(SelectSeq(kvs, LAMBDA kv : MatchHeaderKey(kv, key)))

-----------------------------------------------------------------------------
(* evhtp_collapse_headers.  The buffer for the value has room for the      *)
(* separators and the final NUL only: with a value that is not empty the   *)
(* copy runs over its end, and nothing is said of the list from there on.  *)

Comma == 44
Space == 32

\* strcasecmp
LowerCase(t) == [i \in DOMAIN t |-> IF t[i] \in 65 .. 90 THEN t[i] + 32 ELSE t[i]]
SameName(s, t) == LowerCase(s) = LowerCase(t)
KeyText(kv) == (CHOOSE k \in kv.key : TRUE).text
ValText(kv) == (CHOOSE v \in kv.val : TRUE).text

\* the first MaxResults pairs with the key
Results(kvs, key) ==
    LET same == { i \in DOMAIN kvs : SameName(KeyText(kvs[i]), key) }
    IN  { i \in same : Cardinality({ j \in same : j < i }) < MaxResults }

Joined(vals) ==
    FlattenSeq([i \in DOMAIN vals |-> (IF i > 1 THEN <<Comma, Space>> ELSE << >>) \o vals[i]])

\* the list, {} when the copy is undefined; key and value are copied again by
\* evhtp_header_new, the first copies are not freed
Collapse(kvs, key) ==
    LET found == Results(kvs, key)
        order == SetToSortSeq(found, <)
        rest  == SetToSortSeq(DOMAIN kvs \ found, <)
        value == Joined([i \in DOMAIN order |-> ValText(kvs[order[i]])])
        room  == 2 * (Cardinality(found) - 1)
    IN  IF Cardinality(found) <= 1 THEN {kvs}
        ELSE IF Len(value) > room THEN {}
        ELSE {AddKv([i \in DOMAIN rest |-> kvs[rest[i]]],
                    KvNew({Heap(key)}, {Heap(value)}, TRUE, TRUE))}

=============================================================================
