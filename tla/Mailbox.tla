------------------------------ MODULE Mailbox ------------------------------
(***************************************************************************)
(* The message buffer of the shared memory chat (task2.c) as its users see *)
(* it: a bag of at most MaxMessages messages.  write_message puts one in,  *)
(* read_message takes one of a given type out, and both look complete to   *)
(* everyone else.  Nothing is promised about the order.  ShmMailbox shows  *)
(* that the code under its semaphore implements this; ShmChat builds the   *)
(* chat on it.                                                             *)
(***************************************************************************)
EXTENDS Naturals, FiniteSets, Bags

CONSTANTS Procs,          \* the processes
          Message,        \* records with a field "type"
          MaxMessages,    \* MAX_MESSAGES: slots
          Nothing         \* an unsuccessful read

VARIABLES mail,           \* the messages in the buffer
          result          \* what each process's last read returned

Init ==
    /\ mail = EmptyBag
    /\ result = [p \in Procs |-> Nothing]

One(m) == SetToBag({m})

(* The messages, each as often as it is in the buffer.                      *)
Copies == UNION {{m} \X (1..mail[m]) : m \in BagToSet(mail)}
Full == Cardinality(Copies) >= MaxMessages

(* With every slot taken the code's pointer is never set: the new message   *)
(* lands on one that nobody has read.                                       *)
Put(m) ==
    IF Full THEN \E old \in BagToSet(mail) : mail' = (mail (-) One(old)) (+) One(m)
            ELSE mail' = mail (+) One(m)

Write(m) == Put(m) /\ UNCHANGED result

(* What a read of type t may return: any such message, or Nothing.          *)
Returned(t) ==
    LET found == {m \in BagToSet(mail) : m.type = t}
    IN  IF found = {} THEN {Nothing} ELSE found

(* The message leaves the mailbox; an unsuccessful read changes nothing.    *)
Take(m) == mail' = IF m = Nothing THEN mail ELSE mail (-) One(m)

Read(p, t) ==
    \E m \in Returned(t) : Take(m) /\ result' = [result EXCEPT ![p] = m]

Next ==
    \/ \E m \in Message : Write(m)
    \/ \E p \in Procs : \E t \in {m.type : m \in Message} : Read(p, t)

Spec == Init /\ [][Next]_<<mail, result>>
=============================================================================
