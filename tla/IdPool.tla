------------------------------- MODULE IdPool -------------------------------
(***************************************************************************)
(* The client ids of both chats (task1.c, task2.c) as their users see them.*)
(* The server takes a free id out of its pool and sends it off to nobody   *)
(* in particular; a client claims it, and gives it back by signing off;    *)
(* the server frees it when it reads the sign-off.  On its way in either   *)
(* direction an id is lost when there is no room for messages, one for     *)
(* each message sent at most, and then it is out of use for good.  In the  *)
(* queue it is the id the message is about; in shared memory the message   *)
(* may take the place of another.  When the server has removed what they   *)
(* talk through, the pool is no more.                                      *)
(***************************************************************************)
CONSTANTS Ids, Clients,
          Nobody,             \* no client
          Overwrites          \* whether a message without room takes another's place

VARIABLES stage,              \* where each id is
          holder,             \* the client that has it
          full                \* no room for another message: not the pool's to change

Init ==
    /\ stage = [i \in Ids |-> "free"]
    /\ holder = [i \in Ids |-> Nobody]

vars == <<stage, holder>>

UnderWay == {i \in Ids : stage[i] \in {"granted", "returned"}}

(* Id i gets to a stage and into c's hands, and the ids in gone are lost.   *)
Goes(i, to, c, gone) ==
    /\ stage' = [j \in Ids |-> IF j = i THEN to ELSE IF j \in gone THEN "lost" ELSE stage[j]]
    /\ holder' = [holder EXCEPT ![i] = c]

(* A message about i is sent.  Without room this costs i, or else one other *)
(* id at most.                                                              *)
Sent(i, to) ==
    \/ Goes(i, to, Nobody, {})
    \/ full /\ Goes(i, "lost", Nobody, {})
    \/ full /\ Overwrites /\ \E j \in UnderWay : Goes(i, to, Nobody, {j})

Grant(i) == stage[i] = "free" /\ Sent(i, "granted")

Claim(i, c) ==
    /\ stage[i] = "granted" /\ \A j \in Ids : holder[j] # c
    /\ Goes(i, "held", c, {})

SignOff(i) == stage[i] = "held" /\ Sent(i, "returned")

Free(i) == stage[i] = "returned" /\ Goes(i, "free", Nobody, {})

(* A message about something else costs an id.                              *)
Overwrite(i) ==
    /\ full /\ Overwrites /\ i \in UnderWay
    /\ stage' = [stage EXCEPT ![i] = "lost"]
    /\ UNCHANGED holder

(* The server removes the memory or the queue.                             *)
Close ==
    /\ stage' = [i \in Ids |-> "over"]
    /\ holder' = [i \in Ids |-> Nobody]

Next ==
    \/ \E i \in Ids : \/ Grant(i) \/ SignOff(i) \/ Free(i) \/ Overwrite(i)
                      \/ \E c \in Clients : Claim(i, c)
    \/ Close

Spec == Init /\ [][Next]_vars
=============================================================================
