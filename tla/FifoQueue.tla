----------------------------- MODULE FifoQueue -----------------------------
(***************************************************************************)
(* What mpsc_queue_insert and mpsc_queue_poll promise: a queue of nodes    *)
(* that are delivered once each, in the order of their insertion.  EMPTY   *)
(* is answered only when nothing is queued and RETRY only when something   *)
(* is.  The queue is kept as two histories, so that queued nodes are those *)
(* of sent beyond Len(got).                                                *)
(***************************************************************************)
EXTENDS Integers, Sequences

CONSTANTS Nodes, MaxSent

VARIABLES sent, got, res

Init == sent = <<>> /\ got = <<>> /\ res = "none"

Insert(n) ==
    /\ Len(sent) < MaxSent
    /\ sent' = Append(sent, n)
    /\ UNCHANGED <<got, res>>

Deliver ==
    /\ res = "none" /\ Len(got) < Len(sent)
    /\ got' = Append(got, sent[Len(got) + 1])
    /\ res' = "ITEM"
    /\ UNCHANGED sent

AnswerEmpty ==
    /\ res = "none" /\ Len(got) = Len(sent)
    /\ res' = "EMPTY"
    /\ UNCHANGED <<sent, got>>

AnswerRetry ==
    /\ res = "none" /\ Len(got) < Len(sent)
    /\ res' = "RETRY"
    /\ UNCHANGED <<sent, got>>

\* The consumer takes the answer and may poll again.
Take ==
    /\ res # "none"
    /\ res' = "none"
    /\ UNCHANGED <<sent, got>>

Next == (\E n \in Nodes : Insert(n)) \/ Deliver \/ AnswerEmpty \/ AnswerRetry \/ Take

Spec == Init /\ [][Next]_<<sent, got, res>>
=============================================================================
