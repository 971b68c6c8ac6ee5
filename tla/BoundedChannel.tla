--------------------------- MODULE BoundedChannel ---------------------------
(***************************************************************************)
(* What a bounded first-in first-out channel promises, whatever it is      *)
(* built from: at most Capacity messages are under way, and each of them   *)
(* is delivered once, unaltered and in the order of sending.               *)
(*                                                                         *)
(* SphServerClient implements it with Capacity 1 (one shared segment),     *)
(* Spooler with Capacity MaxBuffers (a ring of buffers).                   *)
(***************************************************************************)
EXTENDS Naturals, Sequences

CONSTANTS Message,    \* the messages that can be sent
          Capacity    \* how many may be under way

VARIABLES sent,       \* every message sent so far, in order
          delivered   \* every message delivered so far, in order

vars == <<sent, delivered>>

Init == sent = <<>> /\ delivered = <<>>

Send(m) ==
    /\ Len(sent) < Len(delivered) + Capacity
    /\ sent' = Append(sent, m)
    /\ UNCHANGED delivered

Deliver ==
    /\ Len(delivered) < Len(sent)
    /\ delivered' = Append(delivered, sent[Len(delivered) + 1])
    /\ UNCHANGED sent

Next == Deliver \/ \E m \in Message : Send(m)

Spec == Init /\ [][Next]_vars
=============================================================================
