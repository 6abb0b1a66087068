----------------------------- MODULE MuxPromise -----------------------------
(***************************************************************************)
(* What the multiplexer service promises its clients: every transfer it    *)
(* accepts is answered once, in the order of acceptance, and a device has  *)
(* at most one transfer open.                                              *)
(***************************************************************************)
EXTENDS Integers, Sequences

CONSTANTS Device, Transfer   \* every transfer has a device in its field dev

VARIABLE open    \* the accepted transfers that are not yet answered

Init == open = <<>>

Accept(t) ==
    /\ \A i \in 1..Len(open) : open[i].dev # t.dev
    /\ open' = Append(open, t)

Answer == open # <<>> /\ open' = Tail(open)

Next == Answer \/ \E t \in Transfer : Accept(t)

Safety == Init /\ [][Next]_open
Spec == Safety /\ WF_open(Answer)
=============================================================================
