------------------------- MODULE MCProducerConsumer -------------------------
(* Two clients and two servers in the surroundings that matter. *)
EXTENDS ProducerConsumer, TLC

CONSTANTS c1, c2, s1, s2

MCSurroundings ==
    { \* One client: ids wrap around and are used again; a copy may be lost.
      [lines |-> (c1 :> 3 @@ c2 :> 0), starts |-> {s1}, stops |-> {c1}, losses |-> 1],
      \* A second server is started while the first runs, or after it has ended.
      [lines |-> (c1 :> 3 @@ c2 :> 0), starts |-> {s1, s2}, stops |-> {s1}, losses |-> 0],
      \* Two clients that see each other's datagrams; full queues; a stop.
      [lines |-> (c1 :> 1 @@ c2 :> 1), starts |-> {s1}, stops |-> {s1}, losses |-> 0] }
=============================================================================
