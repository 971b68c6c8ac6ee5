---------------------------- MODULE MqChatProofs ----------------------------
(***************************************************************************)
(* What MqChat guarantees for any clients, ids, texts, signals and size of *)
(* the queue.  The invariant has three layers: the types, the shape of the *)
(* messages and what the server has in hand; who owns an id; and the order *)
(* of the texts on their way.                                              *)
(***************************************************************************)
EXTENDS MqChat, FiniteSetTheorems, SequenceTheorems, WellFoundedInduction, TLAPS

(* What each kind of message looks like.                                    *)
Shaped(m) ==
    /\ m.type = MESSAGE_CLIENT_ID_REQUEST => m.sender_name \in Clients
    /\ m.type = MESSAGE_CLIENT_ID_SET => m.text \in Ids
    /\ m.type = MESSAGE_POST_REQUEST =>
          /\ m.kind = "MESSAGE" /\ m.text \in 1..Len(posted)
          /\ m.sender_name = posted[m.text].by
          /\ m.sender_id = client_id[m.sender_name] /\ m.sender_id # NoId
    /\ m.type \in {set_addressee(i) : i \in Ids} /\ m.kind = "MESSAGE" =>
          m.text \in 1..Len(posted)

(* What the server has in hand where it is.                                 *)
InHand ==
    /\ handled # Nothing => Shaped(handled)
    /\ server \in {"grant", "announce"} =>
          handled # Nothing /\ handled.type = MESSAGE_CLIENT_ID_REQUEST
    /\ server = "forward" => handled # Nothing /\ handled.type = MESSAGE_POST_REQUEST
    /\ server = "farewell" => handled # Nothing /\ handled.type = MESSAGE_OUT_CHAT
    /\ server \in Notifying => todo # {}

(* Who waits for an id has none, and nobody reads or types without one.     *)
Registered ==
    \A c \in Clients :
        /\ client[c] = "await" => client_id[c] = NoId
        /\ client[c] \in {"receive", "input", "gets"} => client_id[c] # NoId

AllShaped == \A t \in Types : \A n \in 1..Len(queue[t]) : Shaped(queue[t][n])

Order == TypeOK /\ AllShaped /\ InHand /\ Registered

(* The messages that carry an id, unread or lost.                           *)
Carries(m, i) ==
    \/ m.type = MESSAGE_CLIENT_ID_SET /\ m.text = i
    \/ m.type = MESSAGE_OUT_CHAT /\ m.sender_id = i
Places(i) == {u \in Unread : Carries(queue[u[1]][u[2]], i)}
Losses(i) == {m \in lost : Carries(m, i)}

One(S) == \E x \in S : S = {x}
Unowned(i) == Holders(i) = {} /\ Places(i) = {} /\ Losses(i) = {}
OwnedOnce(i) ==
    \/ One(Holders(i)) /\ Places(i) = {} /\ Losses(i) = {}
    \/ One(Places(i)) /\ Holders(i) = {} /\ Losses(i) = {}
    \/ One(Losses(i)) /\ Holders(i) = {} /\ Places(i) = {}

(* An id that is TAKED has one owner, a FREE one none.  The owner may have  *)
(* been a message in the queue that was removed.                            *)
Owned(i) ==
    IF client_id_pool[i] = "TAKED" THEN OwnedOnce(i) \/ (server = "done" /\ Unowned(i))
                                   ELSE Unowned(i)
Ownership == \A i \in Ids : Owned(i)

(* Text p is ahead of all that is still to be forwarded to id i.            *)
Ahead(i, p) ==
    /\ p \in 1..Len(posted) /\ client_id[posted[p].by] # i
    /\ \A n \in 1..Len(queue[MESSAGE_POST_REQUEST]) : p < queue[MESSAGE_POST_REQUEST][n].text
    /\ server = "forward" => p <= handled.text /\ (i \in todo => p < handled.text)

(* The texts under way to i, and the places of its queue where they are.    *)
Slots(i) == {n \in 1..Len(queue[set_addressee(i)]) : queue[set_addressee(i)][n].kind = "MESSAGE"}
Text(i, n) == queue[set_addressee(i)][n].text

(* A text goes from the posts to the server's hand, from there to the       *)
(* queues of its readers, and from these onto their screens; at every point *)
(* the earlier text is further along.                                       *)
PostsInOrder ==
    \A n \in 1..Len(queue[MESSAGE_POST_REQUEST]) :
        /\ \A k \in 1..(n - 1) :
              queue[MESSAGE_POST_REQUEST][k].text < queue[MESSAGE_POST_REQUEST][n].text
        /\ server = "forward" => handled.text < queue[MESSAGE_POST_REQUEST][n].text
WritersHaveIds == \A p \in 1..Len(posted) : client_id[posted[p].by] \in Ids
NotToWriter == server = "forward" => handled.sender_id \notin todo
MailInOrder ==
    \A i \in Ids : \A n \in Slots(i) :
        Ahead(i, Text(i, n)) /\ \A k \in Slots(i) : k < n => Text(i, k) < Text(i, n)
OnScreen(c, k) ==
    /\ client_id[c] \in Ids /\ Ahead(client_id[c], seen[c][k]) /\ posted[seen[c][k]].by # c
    /\ \A n \in Slots(client_id[c]) : seen[c][k] < Text(client_id[c], n)
    /\ \A j \in 1..(k - 1) : seen[c][j] < seen[c][k]
SeenInOrder == \A c \in Clients : \A k \in 1..Len(seen[c]) : OnScreen(c, k)
Flow == WritersHaveIds /\ PostsInOrder /\ NotToWriter /\ MailInOrder /\ SeenInOrder

-----------------------------------------------------------------------------
(* The queue. *)

(* The types of the notices differ, and are none of the four others.        *)
LEMMA Addressees ==
    /\ \A i \in Ids : set_addressee(i) \in Types /\ set_addressee(i) > 4
    /\ \A i, j \in Ids : set_addressee(i) = set_addressee(j) => i = j
    /\ Types \subseteq Nat
    /\ \A t \in {MESSAGE_CLIENT_ID_REQUEST, MESSAGE_CLIENT_ID_SET, MESSAGE_POST_REQUEST,
                 MESSAGE_OUT_CHAT} : t \in Types /\ t < 5
BY MqAssumption DEF set_addressee, MESSAGE_MAGIC_NUMBER, Ids, Types, MESSAGE_CLIENT_ID_REQUEST,
   MESSAGE_CLIENT_ID_SET, MESSAGE_POST_REQUEST, MESSAGE_OUT_CHAT

(* The queue part of TypeOK.                                                *)
Queued ==
    /\ queue \in [Types -> Seq(Message)]
    /\ \A t \in Types : \A n \in 1..Len(queue[t]) : queue[t][n].type = t
    /\ IsFiniteSet(Unread) /\ Cardinality(Unread) <= Capacity

LEMMA UnreadIs ==
    ASSUME queue \in [Types -> Seq(Message)]
    PROVE  /\ \A u \in Unread : /\ u = <<u[1], u[2]>> /\ u[1] \in Types
                                /\ u[2] \in 1..Len(queue[u[1]])
           /\ \A t \in Types : \A n \in 1..Len(queue[t]) : <<t, n>> \in Unread
BY DEF Unread

(* A send that finds room appends; one that does not changes nothing.       *)
LEMMA SendQueue ==
    ASSUME Queued, NEW m \in Message, Send(m)
    PROVE  /\ Queued' /\ lost' \subseteq lost \cup {m}
           /\ \A t \in Types \ {m.type} : queue'[t] = queue[t]
           /\ \A n \in 1..Len(queue[m.type]) : queue'[m.type][n] = queue[m.type][n]
           /\ ~Room => queue' = queue /\ Unread' = Unread
           /\ Room => /\ Len(queue'[m.type]) = Len(queue[m.type]) + 1
                      /\ queue'[m.type][Len(queue[m.type]) + 1] = m
                      /\ Unread' = Unread \cup {<<m.type, Len(queue[m.type]) + 1>>}
                      /\ lost' = lost
<1>a. /\ queue \in [Types -> Seq(Message)] /\ m.type \in Types /\ queue[m.type] \in Seq(Message)
      /\ Len(queue[m.type]) \in Nat /\ Capacity \in Nat
  <2>1. m.type \in Types
    BY DEF Message
  <2>2. QED
    BY <2>1, MqAssumption DEF Queued
<1>1. CASE ~Room
  <2>1. queue' = queue /\ lost' \subseteq lost \cup {m}
    BY <1>1 DEF Send
  <2>2. QED
    BY <1>1, <2>1 DEF Queued, Unread
<1>2. CASE Room
  <2> DEFINE s == queue[m.type]
             place == <<m.type, Len(s) + 1>>
  <2>1. queue' = [queue EXCEPT ![m.type] = Append(s, m)] /\ lost' = lost
    BY <1>2 DEF Send
  <2>2. /\ Append(s, m) \in Seq(Message) /\ Len(Append(s, m)) = Len(s) + 1
        /\ \A n \in 1..Len(s) : Append(s, m)[n] = s[n]
        /\ Append(s, m)[Len(s) + 1] = m
    BY <1>a
  <2>3. /\ queue' \in [Types -> Seq(Message)]
        /\ \A t \in Types \ {m.type} : queue'[t] = queue[t]
        /\ queue'[m.type] = Append(s, m)
    BY <1>a, <2>1, <2>2
  <2>4. ASSUME NEW t \in Types, NEW n \in 1..Len(queue'[t]) PROVE queue'[t][n].type = t
    <3>1. CASE t # m.type
      BY <2>3, <3>1 DEF Queued
    <3>2. CASE t = m.type /\ n \in 1..Len(s)
      BY <2>2, <2>3, <3>2 DEF Queued
    <3>3. CASE t = m.type /\ n = Len(s) + 1
      BY <2>2, <2>3, <3>3
    <3>4. QED
      BY <1>a, <2>2, <2>3, <3>1, <3>2, <3>3
  <2>5. Unread' = Unread \cup {place}
    <3>1. Unread' = UNION {{t} \X (1..Len(queue'[t])) : t \in Types}
      BY DEF Unread
    <3>2. ASSUME NEW u \in Unread' PROVE u \in Unread \cup {place}
      <4>1. PICK t \in Types : u \in {t} \X (1..Len(queue'[t]))
        BY <3>1
      <4>2. PICK n \in 1..Len(queue'[t]) : u = <<t, n>>
        BY <4>1
      <4>3. CASE t # m.type
        BY <1>a, <2>3, <4>2, <4>3, UnreadIs
      <4>4. CASE t = m.type
        BY <1>a, <2>2, <2>3, <4>2, <4>4, UnreadIs
      <4>5. QED
        BY <4>3, <4>4
    <3>3. ASSUME NEW u \in Unread \cup {place} PROVE u \in Unread'
      <4>1. \E t \in Types : \E n \in 1..Len(queue'[t]) : u = <<t, n>>
        <5>1. CASE u \in Unread
          <6>1. PICK t \in Types : \E n \in 1..Len(queue[t]) : u = <<t, n>>
            BY <1>a, <5>1, UnreadIs
          <6>2. PICK n \in 1..Len(queue[t]) : u = <<t, n>>
            BY <6>1
          <6>3. n \in 1..Len(queue'[t])
            <7>1. CASE t # m.type
              BY <2>3, <7>1
            <7>2. CASE t = m.type
              BY <2>2, <2>3, <7>2
            <7>3. QED
              BY <7>1, <7>2
          <6>4. QED
            BY <6>2, <6>3
        <5>2. CASE u = place
          BY <1>a, <2>2, <2>3, <5>2
        <5>3. QED
          BY <5>1, <5>2
      <4>2. QED
        BY <3>1, <4>1
    <3>4. QED
      BY <3>2, <3>3
  <2>6. place \notin Unread
    BY <1>a, UnreadIs
  <2>7. IsFiniteSet(Unread) /\ Cardinality(Unread) \in Nat
    BY FS_CardinalityType DEF Queued
  <2>8. IsFiniteSet(Unread') /\ Cardinality(Unread') = Cardinality(Unread) + 1
    BY <2>5, <2>6, <2>7, FS_AddElement
  <2>9. IsFiniteSet(Unread)' /\ Cardinality(Unread)' <= Capacity
    BY <1>2, <1>a, <2>7, <2>8 DEF Room
  <2>10. QED
    BY <1>2, <2>1, <2>2, <2>3, <2>4, <2>5, <2>9 DEF Queued
<1>3. QED
  BY <1>1, <1>2

(* A receive takes the oldest message of its type away.                     *)
LEMMA ReceiveQueue ==
    ASSUME Queued, NEW t \in Types, Receive(t)
    PROVE  /\ Queued' /\ lost' = lost
           /\ \A s \in Types \ {t} : queue'[s] = queue[s]
           /\ queue[t] = <<>> => Received(t) = Nothing /\ queue' = queue
           /\ queue[t] # <<>> =>
                /\ 1 \in 1..Len(queue[t]) /\ Received(t) = queue[t][1]
                /\ Received(t) \in Message /\ Received(t) # Nothing /\ Received(t).type = t
                /\ Len(queue'[t]) = Len(queue[t]) - 1
                /\ \A n \in 1..Len(queue'[t]) :
                      n + 1 \in 1..Len(queue[t]) /\ queue'[t][n] = queue[t][n + 1]
<1>a. queue \in [Types -> Seq(Message)] /\ queue[t] \in Seq(Message) /\ lost' = lost
  BY DEF Queued, Receive
<1>1. CASE queue[t] = <<>>
  BY <1>1, <1>a DEF Receive, Received, Queued, Unread
<1>2. CASE queue[t] # <<>>
  <2> DEFINE s == queue[t]
  <2>1. /\ Len(s) \in Nat /\ Len(s) > 0 /\ Head(s) = s[1] /\ Head(s) \in Message
        /\ Tail(s) \in Seq(Message) /\ Len(Tail(s)) = Len(s) - 1
        /\ \A n \in 1..Len(Tail(s)) : n + 1 \in 1..Len(s) /\ Tail(s)[n] = s[n + 1]
    BY <1>2, <1>a
  <2>2. queue' = [queue EXCEPT ![t] = Tail(s)]
    BY <1>2 DEF Receive
  <2>3. /\ queue' \in [Types -> Seq(Message)] /\ queue'[t] = Tail(s)
        /\ \A r \in Types \ {t} : queue'[r] = queue[r]
    BY <1>a, <2>1, <2>2
  <2>4. ASSUME NEW r \in Types, NEW n \in 1..Len(queue'[r]) PROVE queue'[r][n].type = r
    <3>1. \A k \in 1..Len(queue[r]) : queue[r][k].type = r
      BY DEF Queued
    <3>2. \E k \in 1..Len(queue[r]) : queue'[r][n] = queue[r][k]
      <4>1. CASE r = t
        BY <2>1, <2>3, <4>1
      <4>2. CASE r # t
        BY <2>3, <4>2
      <4>3. QED
        BY <4>1, <4>2
    <3>3. QED
      BY <3>1, <3>2
  <2>5. Unread' \subseteq Unread
    <3>1. ASSUME NEW r \in Types, NEW n \in 1..Len(queue'[r]) PROVE <<r, n>> \in Unread
      <4>1. n \in 1..Len(queue[r])
        <5>1. CASE r = t
          BY <2>1, <2>3, <5>1
        <5>2. CASE r # t
          BY <2>3, <5>2
        <5>3. QED
          BY <5>1, <5>2
      <4>2. QED
        BY <1>a, <4>1, UnreadIs
    <3>2. QED
      BY <3>1 DEF Unread
  <2>6. IsFiniteSet(Unread') /\ Cardinality(Unread') <= Cardinality(Unread)
        /\ Cardinality(Unread) \in Nat /\ Cardinality(Unread') \in Nat
    BY <2>5, FS_Subset, FS_CardinalityType DEF Queued
  <2>7. IsFiniteSet(Unread)' /\ Cardinality(Unread)' <= Capacity
    BY <2>6, MqAssumption DEF Queued
  <2>8. Received(t) = s[1] /\ Received(t) \in Message /\ Received(t) # Nothing
        /\ 1 \in 1..Len(s) /\ Received(t).type = t
    BY <1>2, <2>1, MqAssumption DEF Received, Queued
  <2>9. QED
    BY <1>a, <1>2, <2>1, <2>3, <2>4, <2>7, <2>8 DEF Queued
<1>3. QED
  BY <1>1, <1>2

-----------------------------------------------------------------------------
(* The first layer. *)

(* No client loses the id it has, and what was posted stays posted.         *)
IdsKept == \A d \in Clients : client_id[d] # NoId => client_id'[d] = client_id[d]
PostsKept ==
    \A p \in 1..Len(posted) : p \in 1..Len(posted') /\ posted'[p] = posted[p]

LEMMA ShapedKept ==
    ASSUME Order, IdsKept, PostsKept, NEW m, Shaped(m) PROVE Shaped(m)'
<1>1. \A p \in 1..Len(posted) : posted[p].by \in Clients
  <2>1. posted \in Seq([by : Clients, to : SUBSET Clients])
    BY DEF Order, TypeOK
  <2>2. \A p \in 1..Len(posted) : posted[p] \in [by : Clients, to : SUBSET Clients]
    BY <2>1, ElementOfSeq
  <2>3. QED
    BY <2>2
<1>2. ASSUME m.type = MESSAGE_POST_REQUEST
      PROVE  /\ m.kind = "MESSAGE" /\ m.text \in 1..Len(posted')
             /\ m.sender_name = posted'[m.text].by
             /\ m.sender_id = client_id'[m.sender_name] /\ m.sender_id # NoId
  BY <1>1, <1>2 DEF Shaped, IdsKept, PostsKept
<1>3. QED
  BY <1>2 DEF Shaped, PostsKept

LEMMA Sending ==
    ASSUME Order, NEW m \in Message, Send(m), Room => Shaped(m)', IdsKept, PostsKept
    PROVE  Queued' /\ lost' \subseteq Message /\ AllShaped'
<1>1. /\ Queued' /\ lost' \subseteq lost \cup {m}
      /\ \A t \in Types \ {m.type} : queue'[t] = queue[t]
      /\ \A n \in 1..Len(queue[m.type]) : queue'[m.type][n] = queue[m.type][n]
      /\ ~Room => queue' = queue
      /\ Room => /\ Len(queue'[m.type]) = Len(queue[m.type]) + 1
                 /\ queue'[m.type][Len(queue[m.type]) + 1] = m
  BY SendQueue DEF Order, TypeOK, Queued
<1>2. \A t \in Types : queue[t] \in Seq(Message) /\ Len(queue[t]) \in Nat
  BY DEF Order, TypeOK
<1>3. ASSUME NEW t \in Types, NEW n \in 1..Len(queue'[t]) PROVE Shaped(queue[t][n])'
  <2>1. CASE n \in 1..Len(queue[t])
    <3>1. PICK x : x = queue[t][n] /\ x = queue'[t][n]
      BY <1>1, <2>1
    <3>2. Shaped(x)'
      BY <2>1, <3>1, ShapedKept DEF Order, AllShaped
    <3>3. QED
      BY <3>1, <3>2 DEF Shaped
  <2>2. CASE n \notin 1..Len(queue[t])
    <3>1. Room /\ t = m.type
      BY <1>1, <2>2
    <3>2. queue'[t][n] = m
      BY <1>1, <1>2, <2>2, <3>1
    <3>3. QED
      BY <3>1, <3>2 DEF Shaped
  <2>3. QED
    BY <2>1, <2>2
<1>4. QED
  <2>1. lost' \subseteq Message
    BY <1>1 DEF Order, TypeOK
  <2>2. AllShaped'
    BY <1>3 DEF AllShaped
  <2>3. QED
    BY <1>1, <2>1, <2>2

LEMMA Receiving ==
    ASSUME Order, NEW t \in Types, Receive(t), IdsKept, PostsKept
    PROVE  /\ Queued' /\ lost' \subseteq Message /\ AllShaped'
           /\ Received(t) \in Message \cup {Nothing}
           /\ Received(t) # Nothing => Received(t).type = t /\ Shaped(Received(t))
<1>1. /\ Queued' /\ lost' = lost
      /\ \A s \in Types \ {t} : queue'[s] = queue[s]
      /\ queue[t] = <<>> => Received(t) = Nothing /\ queue' = queue
      /\ queue[t] # <<>> =>
           /\ 1 \in 1..Len(queue[t]) /\ Received(t) = queue[t][1]
           /\ Received(t) \in Message /\ Received(t) # Nothing /\ Received(t).type = t
           /\ \A n \in 1..Len(queue'[t]) :
                 n + 1 \in 1..Len(queue[t]) /\ queue'[t][n] = queue[t][n + 1]
  BY ReceiveQueue DEF Order, TypeOK, Queued
<1>2. ASSUME NEW s \in Types, NEW n \in 1..Len(queue'[s]) PROVE Shaped(queue[s][n])'
  <2>1. PICK k \in 1..Len(queue[s]) : queue'[s][n] = queue[s][k]
    <3>1. CASE queue'[s] = queue[s]
      BY <3>1
    <3>2. CASE queue'[s] # queue[s]
      <4>1. s = t /\ queue[t] # <<>>
        BY <1>1, <3>2
      <4>2. n + 1 \in 1..Len(queue[t]) /\ queue'[t][n] = queue[t][n + 1]
        BY <1>1, <4>1
      <4>3. QED
        BY <4>1, <4>2
    <3>3. QED
      BY <3>1, <3>2
  <2>2. PICK x : x = queue[s][k]
    OBVIOUS
  <2>3. Shaped(x)'
    BY <2>2, ShapedKept DEF Order, AllShaped
  <2>4. QED
    BY <2>1, <2>2, <2>3 DEF Shaped
<1>3. QED
  <2>1. lost' \subseteq Message
    BY <1>1 DEF Order, TypeOK
  <2>2. AllShaped'
    BY <1>2 DEF AllShaped
  <2>3. Received(t) # Nothing => Shaped(Received(t))
    BY <1>1 DEF Order, AllShaped
  <2>4. QED
    BY <1>1, <2>1, <2>2, <2>3

(* The least of a set of ids. *)
LEMMA LeastIn == ASSUME NEW S \in SUBSET Ids, S # {} PROVE Least(S) \in S
<1> DEFINE R == {p \in Nat \X Nat : p[1] < p[2]}
<1>1. IsWellFoundedOn(R, Nat)
  <2>1. R = OpToRel(<, Nat)
    BY DEF OpToRel
  <2>2. QED
    BY <2>1, NatLessThanWellFounded
<1>2. S \subseteq Nat
  BY MqAssumption DEF Ids
<1>3. \E i \in S : \A j \in S : <<j, i>> \notin R
  <2> HIDE DEF R
  <2>1. QED
    BY <1>1, <1>2, WFMin, Zenon
<1>4. PICK i \in S : \A j \in S : ~(j < i)
  BY <1>2, <1>3
<1>5. \A j \in S : i <= j
  BY <1>2, <1>4
<1>6. QED
  BY <1>5 DEF Least

(* The ids that GrantId, ReadPost and Notify work with. *)
LEMMA FreeTaked ==
    ASSUME Order
    PROVE  /\ Taked(client_id_pool) \subseteq Ids
           /\ Ids \ Taked(client_id_pool) # {} =>
                 Least(Ids \ Taked(client_id_pool)) \in Ids \ Taked(client_id_pool)
           /\ todo # {} => Least(todo) \in todo /\ Least(todo) \in Ids
           /\ \A id : FreeId(id) \in [Ids -> {"FREE", "TAKED"}]
<1>1. Taked(client_id_pool) \subseteq Ids /\ todo \subseteq Ids
  BY DEF Taked, Order, TypeOK
<1>2. \A id : FreeId(id) \in [Ids -> {"FREE", "TAKED"}]
  BY DEF FreeId, Order, TypeOK
<1>3. QED
  BY <1>1, <1>2, LeastIn

(* Where a for loop that notifies leaves the server. *)
LEMMA Notifies ==
    ASSUME Order, NEW from, NEW loop \in Notifying, NEW message \in Message \cup {Nothing},
           NEW ids \in SUBSET Ids, ServerNotifies(from, loop, message, ids),
           message # Nothing => Shaped(message),
           loop = "announce" => message # Nothing /\ message.type = MESSAGE_CLIENT_ID_REQUEST,
           loop = "forward" => message # Nothing /\ message.type = MESSAGE_POST_REQUEST,
           loop = "farewell" => message # Nothing /\ message.type = MESSAGE_OUT_CHAT
    PROVE  /\ server' \in ServerStates /\ todo' \subseteq Ids /\ handled' \in Message \cup {Nothing}
           /\ InHand' /\ UNCHANGED <<users, program_exit_flag, signals, history>>
<1>1. /\ server' = IF ids = {} THEN AfterNotifying[loop] ELSE loop
      /\ todo' = ids
      /\ handled' = IF ids = {} THEN Nothing ELSE message
      /\ UNCHANGED <<users, program_exit_flag, signals, history>>
  BY DEF ServerNotifies, ServerGo
<1>2. AfterNotifying[loop] \in {"posts", "outs", "loop", "remove"}
  BY DEF AfterNotifying, Notifying
<1>3. handled' # Nothing => Shaped(handled)'
  BY <1>1 DEF Shaped, users, history
<1>4. QED
  BY <1>1, <1>2, <1>3 DEF InHand, ServerStates, Notifying

(* A notice is a message.                                                   *)
LEMMA Notices ==
    ASSUME Order, server \in Notifying, NEW i \in Ids
    PROVE  /\ Notice(i) \in Message /\ Shaped(Notice(i))
           /\ Notice(i).type = set_addressee(i)
           /\ Notice(i).kind = "MESSAGE" <=> server = "forward"
           /\ server = "forward" => Notice(i).text = handled.text
<1>1. set_addressee(i) \in Types /\ set_addressee(i) > 4
  BY Addressees
<1>2. handled \in Message \cup {Nothing} /\ (server # "endjob" => handled # Nothing)
  BY DEF Order, TypeOK, InHand, Notifying
<1>3. server # "endjob" =>
        /\ handled.sender_name \in Procs \cup {Nothing}
        /\ handled.text \in Clients \cup Texts \cup Ids \cup {Nothing}
  BY <1>2 DEF Message
<1>4. /\ server = "announce" => handled.sender_name \in Clients
      /\ server = "forward" => handled.text \in 1..Len(posted)
  BY <1>2, <1>3 DEF Order, InHand, Shaped
<1>5. Notice(i) \in Message
  BY <1>1, <1>3, <1>4 DEF Notice, Notifying, Msg, Message, Procs
<1>6. /\ Notice(i).type = set_addressee(i)
      /\ Notice(i).kind = "MESSAGE" <=> server = "forward"
      /\ server = "forward" => Notice(i).text = handled.text
  BY DEF Notice, Notifying, Msg
<1>7. Shaped(Notice(i))
  BY <1>1, <1>4, <1>6 DEF Shaped, MESSAGE_CLIENT_ID_REQUEST, MESSAGE_CLIENT_ID_SET,
     MESSAGE_POST_REQUEST
<1>8. QED
  BY <1>5, <1>6, <1>7

(* The variables of the clients and the histories, typed. *)
ClientTypes ==
    /\ client \in [Clients -> ClientStates]
    /\ client_id \in [Clients -> Ids \cup {NoId}]
    /\ wait_client_id_flag \in [Clients -> BOOLEAN]
    /\ posted \in Seq([by : Clients, to : SUBSET Clients]) /\ Len(posted) <= MaxPosts
    /\ seen \in [Clients -> Seq(Texts)]

(* What remains to be shown of a step of the server, and of one of a client. *)
LEMMA ServerOrder ==
    ASSUME Order, UNCHANGED <<users, program_exit_flag, signals, history>>,
           Queued', lost' \subseteq Message, AllShaped',
           server' \in ServerStates, todo' \subseteq Ids, handled' \in Message \cup {Nothing},
           client_id_pool' \in [Ids -> {"FREE", "TAKED"}], InHand'
    PROVE  Order'
<1>1. TypeOK'
  BY DEF Order, TypeOK, Queued, users, history
<1>2. Registered'
  BY DEF Order, Registered, users
<1>3. QED
  BY <1>1, <1>2 DEF Order

LEMMA ClientOrder ==
    ASSUME Order, UNCHANGED <<server, client_id_pool, todo, handled>>, IdsKept, PostsKept,
           Queued', lost' \subseteq Message, AllShaped',
           ClientTypes', program_exit_flag' \subseteq Procs, signals' \in 0..MaxSignals, Registered'
    PROVE  Order'
<1>1. TypeOK'
  BY DEF Order, TypeOK, Queued, ClientTypes
<1>2. InHand'
  <2>1. handled # Nothing => Shaped(handled)'
    <3>1. ASSUME handled # Nothing PROVE Shaped(handled)'
      <4>1. PICK m : m = handled
        OBVIOUS
      <4>2. Shaped(m)'
        BY <3>1, <4>1, ShapedKept DEF Order, InHand
      <4>3. QED
        BY <4>1, <4>2 DEF Shaped
    <3>2. QED
      BY <3>1
  <2>2. QED
    BY <2>1 DEF Order, InHand
<1>3. QED
  BY <1>1, <1>2 DEF Order

LEMMA ServerKeeps ==
    ASSUME Order, UNCHANGED <<users, program_exit_flag, signals, history>>
    PROVE  IdsKept /\ PostsKept
BY DEF IdsKept, PostsKept, users, history

LEMMA SameQueue ==
    ASSUME Order, UNCHANGED <<queue, lost>>, IdsKept, PostsKept
    PROVE  Queued' /\ lost' \subseteq Message /\ AllShaped'
<1>1. ASSUME NEW t \in Types, NEW n \in 1..Len(queue'[t]) PROVE Shaped(queue[t][n])'
  <2>1. PICK x : x = queue[t][n]
    OBVIOUS
  <2>2. Shaped(x)'
    BY <2>1, ShapedKept DEF Order, AllShaped
  <2>3. QED
    BY <2>1, <2>2 DEF Shaped
<1>2. AllShaped'
  BY <1>1 DEF AllShaped
<1>3. QED
  BY <1>2 DEF Order, TypeOK, Queued, Unread

(* The first layer is preserved by what the server does.                    *)
LEMMA OrderServer ==
    ASSUME Order, ServerStep \/ ServerTypesLine \/ ServerQuits
    PROVE  Order'
<1> DEFINE Pools == [Ids -> {"FREE", "TAKED"}]
<1>a. client_id_pool \in Pools /\ todo \subseteq Ids /\ handled \in Message \cup {Nothing}
  BY DEF Order, TypeOK
<1>1. ASSUME NEW from, StartEndJob(from) PROVE Order'
  <2>1. ServerNotifies(from, "endjob", Nothing, Taked(client_id_pool))
        /\ UNCHANGED <<queue, lost, client_id_pool>>
    BY <1>1 DEF StartEndJob
  <2>2. /\ server' \in ServerStates /\ todo' \subseteq Ids /\ handled' \in Message \cup {Nothing}
        /\ InHand' /\ UNCHANGED <<users, program_exit_flag, signals, history>>
    BY <2>1, FreeTaked, Notifies DEF Notifying
  <2>3. QED
    BY <1>a, <2>1, <2>2, ServerKeeps, SameQueue, ServerOrder
<1>2. ASSUME NEW from, NEW to \in {"input", "register", "done"}, ServerGo(from, to),
             UNCHANGED <<lost, client_id_pool, todo, handled>>,
             queue' = queue \/ queue' = NoMail
      PROVE  Order'
  <2>1. server' \in ServerStates
    BY <1>2 DEF ServerGo, ServerStates
  <2>2. InHand'
    BY <1>2 DEF ServerGo, Order, InHand, Shaped, Notifying, users, history
  <2>3. Queued' /\ lost' \subseteq Message /\ AllShaped'
    <3>1. CASE queue' = queue
      BY <1>2, <3>1, ServerKeeps, SameQueue DEF ServerGo
    <3>2. CASE queue' = NoMail
      <4>1. Unread' = {}
        BY <3>2 DEF Unread, NoMail
      <4>2. IsFiniteSet(Unread') /\ Cardinality(Unread') = 0
        BY <4>1, FS_EmptySet
      <4>3. QED
        BY <1>2, <3>2, <4>2, MqAssumption DEF Queued, AllShaped, NoMail, Order, TypeOK
    <3>3. QED
      BY <1>2, <3>1, <3>2
  <2>4. QED
    BY <1>2, <1>a, <2>1, <2>2, <2>3, ServerOrder DEF ServerGo
<1>3. CASE ServerLoop
  BY <1>3, <1>1, <1>2 DEF ServerLoop
<1>4. CASE ServerInput \/ ServerTypesLine \/ RemoveQueue
  BY <1>4, <1>2 DEF ServerInput, ServerTypesLine, RemoveQueue
<1>5. CASE ServerQuits
  BY <1>5, <1>1 DEF ServerQuits
<1>b. \A t \in {MESSAGE_CLIENT_ID_REQUEST, MESSAGE_POST_REQUEST, MESSAGE_OUT_CHAT} : t \in Types
  BY Addressees
<1>6. CASE ReadRequest
  <2>1. PICK m : m = Received(MESSAGE_CLIENT_ID_REQUEST)
    OBVIOUS
  <2>2. /\ Receive(MESSAGE_CLIENT_ID_REQUEST)
        /\ ServerGo("register", IF m = Nothing THEN "posts" ELSE "grant")
        /\ handled' = m /\ UNCHANGED <<client_id_pool, todo>>
    BY <1>6, <2>1 DEF ReadRequest
  <2>3. UNCHANGED <<users, program_exit_flag, signals, history>>
    BY <2>2 DEF ServerGo
  <2>4. /\ Queued' /\ lost' \subseteq Message /\ AllShaped'
        /\ m \in Message \cup {Nothing}
        /\ m # Nothing => m.type = MESSAGE_CLIENT_ID_REQUEST /\ Shaped(m)
    BY <1>b, <2>1, <2>2, <2>3, ServerKeeps, Receiving
  <2>5. server' \in ServerStates
    BY <2>2 DEF ServerGo, ServerStates
  <2>6. InHand'
    BY <2>2, <2>3, <2>4 DEF ServerGo, InHand, Shaped, Notifying, users, history
  <2>7. QED
    BY <1>a, <2>2, <2>3, <2>4, <2>5, <2>6, ServerOrder
<1>7. CASE GrantId
  <2>1. PICK id, m : /\ id = Least(Ids \ Taked(client_id_pool))
                     /\ m = Msg(MESSAGE_CLIENT_ID_SET, "MESSAGE", Server, SERVER_ID, id)
    OBVIOUS
  <2>2. PICK ids \in SUBSET Ids : ServerNotifies("grant", "announce", handled, ids)
    BY <1>7, FreeTaked DEF GrantId
  <2>3. /\ server = "grant" /\ Send(m) /\ id \in Ids
        /\ client_id_pool' = [client_id_pool EXCEPT ![id] = "TAKED"]
    BY <1>7, <2>1, FreeTaked DEF GrantId, ServerNotifies, ServerGo
  <2>4. m \in Message /\ Shaped(m)
    BY <2>1, <2>3, Addressees DEF Msg, Message, Procs, Shaped, MESSAGE_CLIENT_ID_REQUEST,
       MESSAGE_CLIENT_ID_SET, MESSAGE_POST_REQUEST
  <2>5. handled # Nothing /\ handled.type = MESSAGE_CLIENT_ID_REQUEST /\ Shaped(handled)
    BY <2>3 DEF Order, InHand
  <2>6. /\ server' \in ServerStates /\ todo' \subseteq Ids /\ handled' \in Message \cup {Nothing}
        /\ InHand' /\ UNCHANGED <<users, program_exit_flag, signals, history>>
    BY <1>a, <2>2, <2>5, Notifies DEF Notifying
  <2>7. Queued' /\ lost' \subseteq Message /\ AllShaped'
    BY <2>3, <2>4, <2>6, ServerKeeps, ShapedKept, Sending
  <2>8. client_id_pool' \in Pools
    BY <1>a, <2>3
  <2>9. QED
    BY <2>6, <2>7, <2>8, ServerOrder
<1>8. CASE DropRequest
  <2>1. InHand' /\ server' \in ServerStates
    BY <1>8 DEF DropRequest, ServerGo, InHand, Notifying, ServerStates
  <2>2. /\ UNCHANGED <<users, program_exit_flag, signals, history, queue, lost, client_id_pool, todo>>
        /\ handled' = Nothing
    BY <1>8 DEF DropRequest, ServerGo
  <2>3. QED
    BY <1>a, <2>1, <2>2, ServerKeeps, SameQueue, ServerOrder
<1>9. CASE ReadPost
  <2>1. PICK m : m = Received(MESSAGE_POST_REQUEST)
    OBVIOUS
  <2>2. /\ Receive(MESSAGE_POST_REQUEST)
        /\ IF m = Nothing
             THEN ServerGo("posts", "outs") /\ UNCHANGED <<todo, handled>>
             ELSE ServerNotifies("posts", "forward", m, Readers(m))
        /\ UNCHANGED client_id_pool
    BY <1>9, <2>1 DEF ReadPost
  <2>3. UNCHANGED <<users, program_exit_flag, signals, history>>
    BY <2>2 DEF ServerGo, ServerNotifies
  <2>4. /\ Queued' /\ lost' \subseteq Message /\ AllShaped'
        /\ m \in Message \cup {Nothing}
        /\ m # Nothing => m.type = MESSAGE_POST_REQUEST /\ Shaped(m)
    BY <1>b, <2>1, <2>2, <2>3, ServerKeeps, Receiving
  <2>5. CASE m = Nothing
    <3>1. InHand' /\ server' \in ServerStates
      BY <2>2, <2>5 DEF ServerGo, Order, InHand, Shaped, Notifying, ServerStates, users, history
    <3>2. QED
      BY <1>a, <2>2, <2>3, <2>4, <2>5, <3>1, ServerOrder
  <2>6. CASE m # Nothing
    <3>1. Readers(m) \in SUBSET Ids
      BY FreeTaked DEF Readers
    <3>2. /\ server' \in ServerStates /\ todo' \subseteq Ids
          /\ handled' \in Message \cup {Nothing} /\ InHand'
      BY <2>2, <2>4, <2>6, <3>1, Notifies DEF Notifying
    <3>3. QED
      BY <1>a, <2>2, <2>3, <2>4, <3>2, ServerOrder
  <2>7. QED
    BY <2>5, <2>6
<1>10. CASE ReadOut
  <2>1. PICK m : m = Received(MESSAGE_OUT_CHAT)
    OBVIOUS
  <2>2. /\ Receive(MESSAGE_OUT_CHAT)
        /\ IF m = Nothing
             THEN ServerGo("outs", "loop") /\ UNCHANGED <<client_id_pool, todo, handled>>
             ELSE /\ client_id_pool' = FreeId(m.sender_id)
                  /\ ServerNotifies("outs", "farewell", m, Taked(client_id_pool'))
    BY <1>10, <2>1 DEF ReadOut
  <2>3. UNCHANGED <<users, program_exit_flag, signals, history>>
    BY <2>2 DEF ServerGo, ServerNotifies
  <2>4. /\ Queued' /\ lost' \subseteq Message /\ AllShaped'
        /\ m \in Message \cup {Nothing}
        /\ m # Nothing => m.type = MESSAGE_OUT_CHAT /\ Shaped(m)
    BY <1>b, <2>1, <2>2, <2>3, ServerKeeps, Receiving
  <2>5. client_id_pool' \in Pools
    BY <1>a, <2>2, FreeTaked
  <2>6. CASE m = Nothing
    <3>1. InHand' /\ server' \in ServerStates
      BY <2>2, <2>6 DEF ServerGo, Order, InHand, Shaped, Notifying, ServerStates, users, history
    <3>2. QED
      BY <1>a, <2>2, <2>3, <2>4, <2>5, <2>6, <3>1, ServerOrder
  <2>7. CASE m # Nothing
    <3>1. Taked(client_id_pool') \subseteq Ids
      BY DEF Taked
    <3>2. /\ server' \in ServerStates /\ todo' \subseteq Ids
          /\ handled' \in Message \cup {Nothing} /\ InHand'
      BY <2>2, <2>4, <2>7, <3>1, Notifies DEF Notifying
    <3>3. QED
      BY <2>3, <2>4, <2>5, <3>2, ServerOrder
  <2>8. QED
    BY <2>6, <2>7
<1>11. CASE Notify
  <2>1. PICK i \in Ids, m \in Message :
          /\ server \in Notifying /\ Shaped(m) /\ Send(m)
          /\ ServerNotifies(server, server, handled, todo \ {i})
          /\ UNCHANGED client_id_pool
    BY <1>11, FreeTaked, Notices DEF Notify, Order, InHand
  <2>2. /\ handled # Nothing => Shaped(handled)
        /\ server = "announce" => handled # Nothing /\ handled.type = MESSAGE_CLIENT_ID_REQUEST
        /\ server = "forward" => handled # Nothing /\ handled.type = MESSAGE_POST_REQUEST
        /\ server = "farewell" => handled # Nothing /\ handled.type = MESSAGE_OUT_CHAT
    BY DEF Order, InHand
  <2>3. todo \ {i} \in SUBSET Ids
    BY <1>a
  <2>4. /\ server' \in ServerStates /\ todo' \subseteq Ids /\ handled' \in Message \cup {Nothing}
        /\ InHand' /\ UNCHANGED <<users, program_exit_flag, signals, history>>
    BY <1>a, <2>1, <2>2, <2>3, Notifies
  <2>5. Queued' /\ lost' \subseteq Message /\ AllShaped'
    BY <2>1, <2>4, ServerKeeps, ShapedKept, Sending
  <2>6. QED
    BY <1>a, <2>1, <2>4, <2>5, ServerOrder
<1>12. QED
  BY <1>3, <1>4, <1>5, <1>6, <1>7, <1>8, <1>9, <1>10, <1>11 DEF ServerStep

(* A step of a client that has nothing to do with the queue or with ids.    *)
LEMMA ClientMoves ==
    ASSUME Order, NEW c \in Clients, NEW from, NEW to \in ClientStates, ClientGo(c, from, to),
           UNCHANGED <<queue, lost, client_id, wait_client_id_flag, history>>,
           to # "await", to \in {"receive", "input", "gets"} => client_id[c] # NoId
    PROVE  Order'
<1>1. ClientTypes' /\ Registered'
  BY DEF ClientGo, Order, TypeOK, ClientTypes, Registered, history
<1>2. IdsKept /\ PostsKept
  BY DEF IdsKept, PostsKept, history
<1>3. QED
  BY <1>1, <1>2, SameQueue, ClientOrder DEF ClientGo, Order, TypeOK

(* The first layer is preserved by what a client and its user do.           *)
LEMMA OrderClient ==
    ASSUME Order, NEW c \in Clients, ClientStep(c) \/ User(c)
    PROVE  Order'
<1>a. /\ ClientTypes /\ program_exit_flag \subseteq Procs /\ signals \in 0..MaxSignals
  BY DEF Order, TypeOK, ClientTypes
<1>b. /\ client[c] = "await" => client_id[c] = NoId
      /\ client[c] \in {"receive", "input", "gets"} => client_id[c] # NoId
  BY DEF Order, Registered
<1>c. \A t \in {MESSAGE_CLIENT_ID_SET} : t \in Types
  BY Addressees
<1>1. CASE LoopExit(c) \/ Attach(c) \/ TypeNothing(c) \/ TypeQuit(c) \/ NoInput(c)
  BY <1>1, ClientMoves
     DEF LoopExit, Attach, TypeNothing, TypeQuit, NoInput, ClientStates, Gone, Typing
<1>2. CASE LoopAgain(c) \/ ReceiveExit(c)
  <2>1. client_id[c] # NoId
    BY <1>2, <1>b DEF LoopAgain, ReceiveExit, ClientGo
  <2>2. QED
    BY <1>2, <2>1, ClientMoves DEF LoopAgain, ReceiveExit, ClientStates, Gone
<1>3. CASE RequestId(c)
  <2>1. PICK m : m = Msg(MESSAGE_CLIENT_ID_REQUEST, "IN", c, NoId, c)
    OBVIOUS
  <2>2. m \in Message /\ Shaped(m)
    BY <2>1, Addressees DEF Msg, Message, Procs, Shaped, MESSAGE_CLIENT_ID_REQUEST,
       MESSAGE_CLIENT_ID_SET, MESSAGE_POST_REQUEST
  <2>3. /\ Send(m) /\ UNCHANGED <<client_id, history>> /\ client_id[c] = NoId
        /\ wait_client_id_flag' = [wait_client_id_flag EXCEPT ![c] = Room]
    BY <1>3, <2>1 DEF RequestId
  <2>4. PICK to \in {"await", "loop"} : ClientGo(c, "loop", to)
    BY <1>3 DEF RequestId
  <2>5. Room \in BOOLEAN
    BY DEF Room
  <2>6. ClientTypes' /\ Registered'
    BY <1>a, <2>3, <2>4, <2>5
       DEF ClientGo, ClientTypes, ClientStates, history, Order, Registered
  <2>7. IdsKept /\ PostsKept
    BY <2>3 DEF IdsKept, PostsKept, history
  <2>8. Queued' /\ lost' \subseteq Message /\ AllShaped'
    BY <2>2, <2>3, <2>7, ShapedKept, Sending
  <2>9. QED
    BY <1>a, <2>4, <2>6, <2>7, <2>8, ClientOrder DEF ClientGo
<1>4. CASE AwaitId(c)
  <2>1. PICK m : m = Received(MESSAGE_CLIENT_ID_SET)
    OBVIOUS
  <2>2. /\ client[c] \in {"await", "loop"} /\ client_id[c] = NoId
        /\ Receive(MESSAGE_CLIENT_ID_SET)
        /\ IF m = Nothing
             THEN ClientGo(c, client[c], "loop") /\ UNCHANGED client_id
             ELSE /\ ClientGo(c, client[c], "receive")
                  /\ client_id' = [client_id EXCEPT ![c] = m.text]
        /\ UNCHANGED <<wait_client_id_flag, history>>
    BY <1>4, <1>b, <2>1 DEF AwaitId
  <2>3. IdsKept /\ PostsKept
    BY <1>a, <2>2 DEF IdsKept, PostsKept, history, ClientTypes
  <2>4. /\ Queued' /\ lost' \subseteq Message /\ AllShaped'
        /\ m # Nothing => m.type = MESSAGE_CLIENT_ID_SET /\ Shaped(m)
    BY <1>c, <2>1, <2>2, <2>3, Receiving
  <2>5. m # Nothing => m.text \in Ids
    BY <2>4, Zenon DEF Shaped
  <2>6. UNCHANGED <<server, client_id_pool, todo, handled, program_exit_flag, signals, posted, seen,
                    wait_client_id_flag>>
    BY <2>2 DEF ClientGo, history
  <2>7. CASE m = Nothing
    <3>1. ClientTypes' /\ Registered'
      BY <1>a, <2>2, <2>6, <2>7
         DEF ClientGo, ClientTypes, ClientStates, Order, Registered
    <3>2. QED
      BY <1>a, <2>3, <2>4, <2>6, <3>1, ClientOrder
  <2>8. CASE m # Nothing
    <3>1. /\ client' = [client EXCEPT ![c] = "receive"]
          /\ client_id' = [client_id EXCEPT ![c] = m.text]
      BY <2>2, <2>8 DEF ClientGo
    <3>2. ClientTypes'
      BY <1>a, <2>5, <2>6, <2>8, <3>1 DEF ClientTypes, ClientStates
    <3>3. m.text # NoId
      BY <2>5, <2>8, MqAssumption DEF Ids, NoId
    <3>4. Registered'
      BY <1>a, <3>1, <3>3 DEF Order, Registered, ClientTypes
    <3>5. QED
      BY <1>a, <2>3, <2>4, <2>6, <3>2, <3>4, ClientOrder
  <2>9. QED
    BY <2>7, <2>8
<1>5. CASE ReadMail(c)
  <2>1. PICK t, m : t = set_addressee(client_id[c]) /\ m = Received(t)
    OBVIOUS
  <2>2. /\ client[c] = "receive" /\ Receive(t)
        /\ \/ m = Nothing /\ ClientGo(c, "receive", "input") /\ UNCHANGED seen
           \/ /\ m # Nothing /\ m.kind = "MESSAGE"
              /\ ClientGo(c, "receive", "receive")
              /\ seen' = [seen EXCEPT ![c] = Append(seen[c], m.text)]
           \/ /\ ClientGo(c, "receive", "receive") \/ ClientGo(c, "receive", "ended")
              /\ UNCHANGED seen
        /\ UNCHANGED <<client_id, wait_client_id_flag, posted>>
    BY <1>5, <2>1 DEF ReadMail
  <2>3. client_id[c] \in Ids
    BY <1>a, <1>b, <2>2 DEF ClientTypes
  <2>4. IdsKept /\ PostsKept
    BY <2>2 DEF IdsKept, PostsKept
  <2>5. /\ Queued' /\ lost' \subseteq Message /\ AllShaped'
        /\ m # Nothing => m.type = t /\ Shaped(m)
    BY <2>1, <2>2, <2>3, <2>4, Addressees, Receiving
  <2>6. m # Nothing /\ m.kind = "MESSAGE" => m.text \in Texts
    <3>1. m # Nothing /\ m.kind = "MESSAGE" => m.text \in 1..Len(posted)
      BY <2>1, <2>3, <2>5 DEF Shaped
    <3>2. Len(posted) \in Nat /\ Len(posted) <= MaxPosts
      BY <1>a DEF ClientTypes
    <3>3. QED
      BY <3>1, <3>2, MqAssumption DEF Texts
  <2>7. seen' \in [Clients -> Seq(Texts)]
    <3>1. seen[c] \in Seq(Texts)
      BY <1>a DEF ClientTypes
    <3>2. m # Nothing /\ m.kind = "MESSAGE" => Append(seen[c], m.text) \in Seq(Texts)
      BY <2>6, <3>1, AppendProperties
    <3>3. QED
      BY <1>a, <2>2, <3>2 DEF ClientTypes
  <2>8. PICK to \in {"receive", "input", "ended"} : ClientGo(c, "receive", to)
    BY <2>2
  <2>9. ClientTypes' /\ Registered'
    BY <1>a, <1>b, <2>2, <2>7, <2>8
       DEF ClientGo, ClientTypes, ClientStates, Gone, Order, Registered
  <2>10. QED
    BY <1>a, <2>4, <2>5, <2>8, <2>9, ClientOrder DEF ClientGo
<1>6. CASE SayOut(c)
  <2>1. PICK m : m = Msg(MESSAGE_OUT_CHAT, "OUT", c, client_id[c], c)
    OBVIOUS
  <2>2. m \in Message /\ Shaped(m)
    BY <1>a, <2>1, Addressees DEF Msg, Message, Procs, Shaped, MESSAGE_CLIENT_ID_REQUEST,
       MESSAGE_CLIENT_ID_SET, MESSAGE_POST_REQUEST, MESSAGE_OUT_CHAT, ClientTypes
  <2>3. /\ Send(m) /\ ClientGo(c, "leave", "gone")
        /\ UNCHANGED <<client_id, wait_client_id_flag, history>>
    BY <1>6, <2>1 DEF SayOut
  <2>4. ClientTypes' /\ Registered'
    BY <1>a, <2>3 DEF ClientTypes, history, ClientGo, ClientStates, Gone, Order, Registered
  <2>5. IdsKept /\ PostsKept
    BY <2>3 DEF IdsKept, PostsKept, history
  <2>6. Queued' /\ lost' \subseteq Message /\ AllShaped'
    BY <2>2, <2>3, <2>5, ShapedKept, Sending
  <2>7. QED
    BY <1>a, <2>3, <2>4, <2>5, <2>6, ClientOrder DEF ClientGo
<1>7. CASE TypePost(c)
  <2>1. PICK p, m : /\ p = Len(posted) + 1
                    /\ m = Msg(MESSAGE_POST_REQUEST, "MESSAGE", c, client_id[c], p)
    OBVIOUS
  <2>2. PICK readers \in SUBSET Clients :
          posted' = IF Room THEN Append(posted, [by |-> c, to |-> readers]) ELSE posted
    <3>1. {d \in Clients \ {c} : InChat(d)} \in SUBSET Clients
      OBVIOUS
    <3>2. QED
      BY <1>7, <3>1 DEF TypePost
  <2>3. /\ p <= MaxPosts /\ Send(m)
        /\ client[c] \in Typing /\ client' = [client EXCEPT ![c] = "loop"]
        /\ UNCHANGED <<server, client_id_pool, todo, handled, program_exit_flag, signals>>
        /\ UNCHANGED <<client_id, wait_client_id_flag, seen>>
    BY <1>7, <2>1 DEF TypePost, ClientGo
  <2>4. client_id[c] \in Ids /\ client_id[c] # NoId
    BY <1>a, <1>b, <2>3 DEF Typing, ClientTypes
  <2>5. posted \in Seq([by : Clients, to : SUBSET Clients]) /\ Len(posted) \in Nat
        /\ p \in Texts
    BY <1>a, <2>1, <2>3, MqAssumption DEF ClientTypes, Texts
  <2>6. m \in Message
    <3>1. MESSAGE_POST_REQUEST \in Types
      BY Addressees
    <3>2. QED
      BY <2>1, <2>4, <2>5, <3>1 DEF Msg, Message, Procs
  <2> DEFINE r == [by |-> c, to |-> readers]
  <2>7. /\ Append(posted, r) \in Seq([by : Clients, to : SUBSET Clients])
        /\ Len(Append(posted, r)) = p /\ Append(posted, r)[p] = r
        /\ \A q \in 1..Len(posted) : Append(posted, r)[q] = posted[q]
    BY <2>1, <2>5, AppendProperties
  <2>8. Room => Len(posted') = p /\ posted'[p].by = c
    BY <2>2, <2>7
  <2>9. PostsKept /\ IdsKept
    BY <2>1, <2>2, <2>3, <2>5, <2>7 DEF PostsKept, IdsKept
  <2>10. posted' \in Seq([by : Clients, to : SUBSET Clients]) /\ Len(posted') <= MaxPosts
    BY <1>a, <2>2, <2>3, <2>7 DEF ClientTypes
  <2>11. Room => Shaped(m)'
    BY <2>1, <2>3, <2>4, <2>5, <2>8, Addressees
       DEF Shaped, Msg, MESSAGE_CLIENT_ID_REQUEST, MESSAGE_CLIENT_ID_SET, MESSAGE_POST_REQUEST
  <2>12. Queued' /\ lost' \subseteq Message /\ AllShaped'
    BY <2>3, <2>6, <2>9, <2>11, Sending
  <2>13. ClientTypes' /\ Registered'
    BY <1>a, <2>3, <2>10 DEF ClientTypes, ClientStates, Order, Registered
  <2>14. QED
    BY <1>a, <2>3, <2>9, <2>12, <2>13, ClientOrder
<1>8. QED
  BY <1>1, <1>2, <1>3, <1>4, <1>5, <1>6, <1>7 DEF ClientStep, User

(* The first layer is preserved.                                            *)
LEMMA OrderStep == ASSUME Order, [Next]_vars PROVE Order'
<1>1. CASE ServerStep \/ ServerTypesLine \/ ServerQuits
  BY <1>1, OrderServer
<1>2. ASSUME NEW c \in Clients, ClientStep(c) \/ User(c) PROVE Order'
  BY <1>2, OrderClient
<1>a. Signal => signals' \in 0..MaxSignals
  BY MqAssumption DEF Signal, Order, TypeOK
<1>3. CASE InterruptServer
  <2>1. /\ server' \in ServerStates /\ todo' \subseteq Ids
        /\ handled' \in Message \cup {Nothing} /\ InHand'
    BY <1>3 DEF InterruptServer, Order, TypeOK, InHand, Shaped, ServerStates, Notifying, users,
       history, AfterInterrupt
  <2>2. UNCHANGED <<queue, lost, client_id_pool, users, history>>
    BY <1>3 DEF InterruptServer
  <2>3. IdsKept /\ PostsKept
    BY <2>2 DEF IdsKept, PostsKept, users, history
  <2>4. Queued' /\ lost' \subseteq Message /\ AllShaped'
    BY <2>2, <2>3, SameQueue
  <2>5. TypeOK'
    BY <1>3, <1>a, <2>1, <2>2, <2>4
       DEF InterruptServer, Order, TypeOK, Queued, users, history, Procs
  <2>6. Registered'
    BY <2>2 DEF Order, Registered, users
  <2>7. QED
    BY <2>1, <2>4, <2>5, <2>6 DEF Order
<1>4. ASSUME NEW c \in Clients, InterruptClient(c) \/ KillClient(c) PROVE Order'
  <2>1. /\ ClientTypes' /\ Registered' /\ program_exit_flag' \subseteq Procs
        /\ UNCHANGED <<queue, lost, server, client_id_pool, todo, handled, client_id, history>>
    BY <1>4 DEF InterruptClient, KillClient, Order, TypeOK, ClientTypes, ClientStates, Gone,
       Registered, history, Procs
  <2>2. signals' \in 0..MaxSignals
    BY <1>4, <1>a DEF InterruptClient, KillClient
  <2>3. IdsKept /\ PostsKept
    BY <2>1 DEF IdsKept, PostsKept, history
  <2>4. QED
    BY <2>1, <2>2, <2>3, SameQueue, ClientOrder
<1>5. CASE UNCHANGED vars
  <2>1. IdsKept /\ PostsKept /\ ClientTypes' /\ Registered'
    BY <1>5 DEF vars, users, history, IdsKept, PostsKept, ClientTypes, Order, TypeOK, Registered
  <2>2. UNCHANGED <<server, client_id_pool, todo, handled, queue, lost, program_exit_flag, signals>>
    BY <1>5 DEF vars
  <2>3. QED
    BY <2>1, <2>2, SameQueue, ClientOrder DEF Order, TypeOK
<1>6. QED
  BY <1>1, <1>2, <1>3, <1>4, <1>5 DEF Next

-----------------------------------------------------------------------------
(* The second layer: how a step of the chat moves an id.                    *)

SameId(i) == client_id_pool'[i] = client_id_pool[i]
OneOf(S, t) == \E n : S = {<<t, n>>}
SamePlaces(i) ==
    /\ Places(i) = {} => Places(i)' = {}
    /\ \A t \in Types : OneOf(Places(i), t) => OneOf(Places(i)', t)
LastPlace(i, t) ==
    (\E n : <<t, n>> \in Places(i)) /\ (One(Places(i)) => Places(i)' = {})

(* A message of type t that carries the id was sent, or could not be.       *)
Gained(i, t) ==
    \/ Losses(i)' = Losses(i) /\ (Places(i) = {} => OneOf(Places(i)', t))
    \/ ~Room /\ Places(i)' = Places(i) /\ \E m : Losses(i)' = Losses(i) \cup {m}

Stays(i) ==
    SameId(i) /\ Holders(i)' = Holders(i) /\ SamePlaces(i) /\ Losses(i)' = Losses(i)
Granted(i) ==
    /\ client_id_pool[i] = "FREE" /\ client_id_pool'[i] = "TAKED"
    /\ Holders(i)' = Holders(i) /\ Gained(i, MESSAGE_CLIENT_ID_SET)
Claimed(i) ==
    /\ SameId(i) /\ LastPlace(i, MESSAGE_CLIENT_ID_SET) /\ Losses(i)' = Losses(i)
    /\ \E c \in Clients : /\ Holders(i)' = Holders(i) \cup {c}
                          /\ \A j \in Ids : c \notin Holders(j)
SignedOff(i) ==
    /\ SameId(i) /\ Gained(i, MESSAGE_OUT_CHAT)
    /\ \E c \in Holders(i) : Holders(i)' = Holders(i) \ {c}
Freed(i) ==
    /\ client_id_pool'[i] = "FREE" /\ Holders(i)' = Holders(i)
    /\ LastPlace(i, MESSAGE_OUT_CHAT) /\ Losses(i)' = Losses(i)

(* The queue is removed with what is in it.                                 *)
Removed(i) ==
    SameId(i) /\ Holders(i)' = Holders(i) /\ Places(i)' = {} /\ Losses(i)' = Losses(i)

OthersStay(one) == \A i \in Ids \ {one} : Stays(i)

(* One id moves at most, and only the queue's removal concerns them all.    *)
Moves ==
    \/ OthersStay(NoId)
    \/ \E one \in Ids : /\ Granted(one) \/ Claimed(one) \/ SignedOff(one) \/ Freed(one)
                        /\ OthersStay(one)
    \/ server' = "done" /\ \A i \in Ids : Removed(i)

LEMMA EachMoves ==
    ASSUME Moves, NEW i \in Ids
    PROVE  \/ Stays(i) \/ Granted(i) \/ Claimed(i) \/ SignedOff(i) \/ Freed(i)
           \/ server' = "done" /\ Removed(i)
<1>1. NoId \notin Ids
  BY DEF NoId, Ids
<1>2. QED
  BY <1>1, Zenon DEF Moves, OthersStay

LEMMA OneOfOne ==
    ASSUME Order, NEW i \in Ids
    PROVE  /\ One(Places(i)) => \E t \in Types : OneOf(Places(i), t)
           /\ \A t : OneOf(Places(i), t) => One(Places(i))
<1>1. \A u \in Places(i) : u = <<u[1], u[2]>> /\ u[1] \in Types
  BY UnreadIs DEF Order, TypeOK, Places
<1>2. ASSUME One(Places(i)) PROVE \E t \in Types : OneOf(Places(i), t)
  <2>1. PICK u \in Places(i) : Places(i) = {u}
    BY <1>2 DEF One
  <2>2. Places(i) = {<<u[1], u[2]>>} /\ u[1] \in Types
    BY <1>1, <2>1
  <2>3. OneOf(Places(i), u[1])
    BY <2>2 DEF OneOf
  <2>4. QED
    BY <2>2, <2>3
<1>3. QED
  BY <1>2 DEF One, OneOf

(* Each of the moves keeps an id with one owner at most, and while there is *)
(* a queue with exactly one or with none.                                   *)
LEMMA MovesKeepOwnership ==
    ASSUME Order, Order', Ownership, server = "done" => server' = "done", Moves PROVE Ownership'
<1> SUFFICES ASSUME NEW i \in Ids PROVE Owned(i)'
  BY DEF Ownership
<1>1. client_id_pool[i] \in {"FREE", "TAKED"} /\ client_id_pool'[i] \in {"FREE", "TAKED"}
  BY DEF Order, TypeOK
<1>2. Owned(i)
  BY DEF Ownership
<1>a. \A t : OneOf(Places(i)', t) => One(Places(i))'
  BY DEF One, OneOf
<1>3. CASE Stays(i)
  <2>1. One(Places(i)) => One(Places(i))'
    BY <1>3, <1>a, OneOfOne DEF Stays, SamePlaces
  <2>2. OwnedOnce(i) => OwnedOnce(i)'
    BY <1>3, <2>1 DEF Stays, SamePlaces, OwnedOnce
  <2>3. Unowned(i) => Unowned(i)'
    BY <1>3 DEF Stays, SamePlaces, Unowned
  <2>4. QED
    BY <1>2, <1>3, <2>2, <2>3 DEF Stays, SameId, Owned
<1>4. CASE Granted(i)
  <2>1. Unowned(i)
    BY <1>2, <1>4 DEF Granted, Owned
  <2>2. One(Losses(i))' \/ Losses(i)' = {}
    BY <1>4, <2>1 DEF Granted, Gained, Unowned, One
  <2>3. OwnedOnce(i)'
    BY <1>4, <1>a, <2>1, <2>2 DEF Granted, Gained, Unowned, OwnedOnce, One
  <2>4. client_id_pool'[i] = "TAKED"
    BY <1>4 DEF Granted
  <2>5. QED
    BY <2>3, <2>4 DEF Owned
<1>5. CASE Claimed(i)
  <2>1. client_id_pool[i] = "TAKED" /\ OwnedOnce(i)
    BY <1>1, <1>2, <1>5 DEF Claimed, LastPlace, Unowned, Owned
  <2>2. Places(i)' = {} /\ Holders(i) = {} /\ Losses(i)' = {}
    BY <1>5, <2>1 DEF Claimed, LastPlace, OwnedOnce
  <2>3. One(Holders(i))'
    BY <1>5, <2>2 DEF Claimed, One
  <2>4. OwnedOnce(i)' /\ client_id_pool'[i] = "TAKED"
    BY <1>5, <2>1, <2>2, <2>3 DEF Claimed, SameId, OwnedOnce
  <2>5. QED
    BY <2>4 DEF Owned
<1>6. CASE SignedOff(i)
  <2>1. PICK c \in Holders(i) : Holders(i)' = Holders(i) \ {c}
    BY <1>6 DEF SignedOff
  <2>2. client_id_pool[i] = "TAKED" /\ OwnedOnce(i)
    BY <1>1, <1>2, <2>1 DEF Unowned, Owned
  <2>3. Places(i) = {} /\ Losses(i) = {} /\ Holders(i)' = {}
    BY <2>1, <2>2 DEF OwnedOnce, One
  <2>4. OwnedOnce(i)'
    BY <1>6, <1>a, <2>3 DEF SignedOff, Gained, OwnedOnce, One
  <2>5. client_id_pool'[i] = "TAKED"
    BY <1>6, <2>2 DEF SignedOff, SameId
  <2>6. QED
    BY <2>4, <2>5 DEF Owned
<1>7. CASE Freed(i)
  <2>1. OwnedOnce(i)
    BY <1>2, <1>7 DEF Freed, LastPlace, Unowned, Owned
  <2>2. QED
    BY <1>7, <2>1 DEF Freed, LastPlace, OwnedOnce, Unowned, Owned
<1>8. CASE server' = "done" /\ Removed(i)
  BY <1>2, <1>8 DEF Removed, SameId, Owned, OwnedOnce, Unowned
<1>9. QED
  BY <1>3, <1>4, <1>5, <1>6, <1>7, <1>8, EachMoves

(* What a receive does to the places of an id: they move up by one.         *)
LEMMA ReceivePlaces ==
    ASSUME Order, NEW t \in Types, Receive(t), NEW i \in Ids
    PROVE  /\ Losses(i)' = Losses(i)
           /\ Received(t) = Nothing \/ ~Carries(Received(t), i) => SamePlaces(i)
           /\ Received(t) # Nothing /\ Carries(Received(t), i) => LastPlace(i, t)
<1>a. /\ queue \in [Types -> Seq(Message)] /\ queue' \in [Types -> Seq(Message)]
      /\ lost' = lost
      /\ \A s \in Types \ {t} : queue'[s] = queue[s]
      /\ queue[t] = <<>> => Received(t) = Nothing /\ queue' = queue
      /\ queue[t] # <<>> =>
           /\ 1 \in 1..Len(queue[t]) /\ Received(t) = queue[t][1] /\ Received(t) # Nothing
           /\ Len(queue'[t]) = Len(queue[t]) - 1
           /\ \A n \in 1..Len(queue'[t]) :
                 n + 1 \in 1..Len(queue[t]) /\ queue'[t][n] = queue[t][n + 1]
  BY ReceiveQueue DEF Order, TypeOK, Queued
<1>1. Losses(i)' = Losses(i)
  BY <1>a DEF Losses
<1>2. CASE queue[t] = <<>>
  <2>1. Places(i)' = Places(i)
    BY <1>2, <1>a DEF Places, Unread
  <2>2. QED
    BY <1>1, <1>2, <1>a, <2>1 DEF SamePlaces
<1>3. CASE queue[t] # <<>>
  <2>a. \A s \in Types : Len(queue[s]) \in Nat /\ Len(queue'[s]) \in Nat
    BY <1>a
  <2>1. \A u \in Places(i) : /\ u = <<u[1], u[2]>> /\ u[1] \in Types
                             /\ u[2] \in 1..Len(queue[u[1]]) /\ Carries(queue[u[1]][u[2]], i)
    BY <1>a, UnreadIs DEF Places
  <2>2. \A s \in Types : \A n \in 1..Len(queue[s]) :
           Carries(queue[s][n], i) => <<s, n>> \in Places(i)
    BY <1>a, UnreadIs DEF Places
  <2>3. \A u \in Places(i)' : /\ u = <<u[1], u[2]>> /\ u[1] \in Types
                              /\ u[2] \in 1..Len(queue'[u[1]]) /\ Carries(queue'[u[1]][u[2]], i)
    BY DEF Places, Unread
  <2>4. \A s \in Types : \A n \in 1..Len(queue'[s]) :
           Carries(queue'[s][n], i) => <<s, n>> \in Places(i)'
    BY DEF Places, Unread
  <2>5. \A u \in Places(i)' : (IF u[1] = t THEN <<t, u[2] + 1>> ELSE u) \in Places(i)
    <3>1. ASSUME NEW u \in Places(i)', u[1] = t PROVE <<t, u[2] + 1>> \in Places(i)
      BY <1>3, <1>a, <2>2, <2>3, <3>1
    <3>2. ASSUME NEW u \in Places(i)', u[1] # t PROVE u \in Places(i)
      <4>1. /\ u = <<u[1], u[2]>> /\ u[1] \in Types
            /\ u[2] \in 1..Len(queue[u[1]]) /\ Carries(queue[u[1]][u[2]], i)
        BY <1>a, <2>3, <3>2
      <4>2. <<u[1], u[2]>> \in Places(i)
        BY <2>2, <4>1
      <4>3. QED
        BY <4>1, <4>2
    <3>3. QED
      BY <3>1, <3>2
  <2>6. CASE ~Carries(queue[t][1], i)
    <3>1. ASSUME NEW v \in Places(i)
          PROVE  \E u \in Places(i)' : v = IF u[1] = t THEN <<t, u[2] + 1>> ELSE u
      <4>1. CASE v[1] # t
        <5>1. v \in Places(i)'
          <6>1. /\ v = <<v[1], v[2]>> /\ v[1] \in Types
                /\ v[2] \in 1..Len(queue'[v[1]]) /\ Carries(queue'[v[1]][v[2]], i)
            BY <1>a, <2>1, <4>1
          <6>2. <<v[1], v[2]>> \in Places(i)'
            BY <2>4, <6>1
          <6>3. QED
            BY <6>1, <6>2
        <5>2. QED
          BY <4>1, <5>1
      <4>2. CASE v[1] = t
        <5>1. v = <<t, v[2]>> /\ v[2] \in 1..Len(queue[t]) /\ Carries(queue[t][v[2]], i)
          BY <2>1, <4>2
        <5>2. v[2] # 1
          BY <2>6, <5>1
        <5>3. PICK n : n = v[2] - 1
          OBVIOUS
        <5>4. n \in 1..Len(queue'[t]) /\ v[2] = n + 1
          BY <1>3, <1>a, <2>a, <5>1, <5>2, <5>3
        <5>5. <<t, n>> \in Places(i)'
          BY <1>3, <1>a, <2>4, <5>1, <5>4
        <5>6. QED
          BY <5>1, <5>4, <5>5
      <4>3. QED
        BY <4>1, <4>2
    <3>2. ASSUME NEW u \in Places(i)', NEW v \in Places(i)',
                 (IF u[1] = t THEN <<t, u[2] + 1>> ELSE u)
                    = (IF v[1] = t THEN <<t, v[2] + 1>> ELSE v)
          PROVE  u = v
      <4>1. u = <<u[1], u[2]>> /\ v = <<v[1], v[2]>> /\ u[2] \in Nat /\ v[2] \in Nat
        BY <2>3, <2>a
      <4>2. CASE u[1] = t /\ v[1] = t
        <5>1. <<t, u[2] + 1>> = <<t, v[2] + 1>>
          BY <3>2, <4>2
        <5>2. u[2] + 1 = v[2] + 1
          BY <5>1
        <5>3. u[2] = v[2]
          BY <4>1, <5>2
        <5>4. QED
          BY <4>1, <4>2, <5>3
      <4>3. CASE ~(u[1] = t /\ v[1] = t)
        BY <3>2, <4>1, <4>3
      <4>4. QED
        BY <4>2, <4>3
    <3>3. SamePlaces(i)
      <4>1. Places(i) = {} => Places(i)' = {}
        BY <2>5
      <4>2. ASSUME NEW r \in Types, OneOf(Places(i), r) PROVE OneOf(Places(i)', r)
        <5>0. PICK k : Places(i) = {<<r, k>>}
          BY <4>2 DEF OneOf
        <5>a. PICK v : v = <<r, k>>
          OBVIOUS
        <5>1. Places(i) = {v} /\ v[1] = r
          BY <5>0, <5>a
        <5>2. PICK u \in Places(i)' : v = IF u[1] = t THEN <<t, u[2] + 1>> ELSE u
          BY <3>1, <5>1
        <5>3. \A w \in Places(i)' : w = u
          BY <2>5, <3>2, <5>1, <5>2
        <5>4. Places(i)' = {u}
          BY <5>3
        <5>5. u = <<u[1], u[2]>>
          BY <2>3
        <5>6. u[1] = r
          BY <5>1, <5>2
        <5>7. QED
          BY <5>4, <5>5, <5>6 DEF OneOf
      <4>3. QED
        BY <4>1, <4>2 DEF SamePlaces
    <3>4. QED
      BY <1>1, <1>3, <1>a, <2>6, <3>3
  <2>7. CASE Carries(queue[t][1], i)
    <3>1. <<t, 1>> \in Places(i)
      BY <1>3, <1>a, <2>2, <2>7
    <3>2. ASSUME One(Places(i)), NEW u \in Places(i)' PROVE FALSE
      <4>1. Places(i) = {<<t, 1>>}
        BY <3>1, <3>2 DEF One
      <4>2. u[2] \in Nat /\ u[2] > 0
        BY <2>3, <2>a
      <4>3. (IF u[1] = t THEN <<t, u[2] + 1>> ELSE u) = <<t, 1>>
        BY <2>5, <4>1
      <4>4. CASE u[1] = t
        <5>1. <<t, u[2] + 1>> = <<t, 1>>
          BY <4>3, <4>4
        <5>2. u[2] + 1 = 1
          BY <5>1
        <5>3. QED
          BY <4>2, <5>2
      <4>5. CASE u[1] # t
        BY <4>3, <4>5
      <4>6. QED
        BY <4>4, <4>5
    <3>3. LastPlace(i, t)
      BY <3>1, <3>2 DEF LastPlace
    <3>4. QED
      BY <1>1, <1>3, <1>a, <2>7, <3>3
  <2>8. QED
    BY <2>6, <2>7
<1>4. QED
  BY <1>2, <1>3

(* And a send.                                                              *)
LEMMA SendPlaces ==
    ASSUME Order, NEW m \in Message, Send(m), NEW i \in Ids
    PROVE  /\ ~Carries(m, i) => SamePlaces(i) /\ Losses(i)' = Losses(i)
           /\ Carries(m, i) => Gained(i, m.type)
<1>a. /\ queue \in [Types -> Seq(Message)] /\ queue' \in [Types -> Seq(Message)]
      /\ lost' \subseteq lost \cup {m} /\ m.type \in Types
      /\ \A t \in Types \ {m.type} : queue'[t] = queue[t]
      /\ \A n \in 1..Len(queue[m.type]) : queue'[m.type][n] = queue[m.type][n]
      /\ ~Room => queue' = queue /\ Unread' = Unread
      /\ Room => /\ queue'[m.type][Len(queue[m.type]) + 1] = m
                 /\ Unread' = Unread \cup {<<m.type, Len(queue[m.type]) + 1>>}
                 /\ lost' = lost
  BY SendQueue DEF Order, TypeOK, Queued, Message
<1>b. ~Room => lost' = IF Matters(m) THEN lost \cup {m} ELSE lost
  BY DEF Send
<1>c. Carries(m, i) => Matters(m)
  BY DEF Carries, Matters
<1>1. CASE ~Room
  <2>1. Places(i)' = Places(i)
    BY <1>1, <1>a DEF Places
  <2>2. Losses(i)' = IF Carries(m, i) THEN Losses(i) \cup {m} ELSE Losses(i)
    BY <1>1, <1>b, <1>c DEF Losses
  <2>3. QED
    BY <1>1, <2>1, <2>2 DEF SamePlaces, Gained
<1>2. CASE Room
  <2>1. Losses(i)' = Losses(i)
    BY <1>2, <1>a DEF Losses
  <2>2. \A u \in Unread : queue'[u[1]][u[2]] = queue[u[1]][u[2]]
    BY <1>a, UnreadIs
  <2>3. PICK place : place = <<m.type, Len(queue[m.type]) + 1>>
    OBVIOUS
  <2>4. queue'[place[1]][place[2]] = m /\ Unread' = Unread \cup {place}
    BY <1>2, <1>a, <2>3
  <2>5. Places(i)' = IF Carries(m, i) THEN Places(i) \cup {place} ELSE Places(i)
    BY <2>2, <2>4 DEF Places
  <2>6. QED
    BY <2>1, <2>3, <2>5 DEF SamePlaces, Gained, OneOf
<1>3. QED
  BY <1>1, <1>2

(* A step that has to do with no other id.                                  *)
LEMMA ReceiveStays ==
    ASSUME Order, NEW t \in Types, Receive(t), NEW one,
           \A i \in Ids \ {one} :
              /\ Received(t) = Nothing \/ ~Carries(Received(t), i)
              /\ SameId(i) /\ Holders(i)' = Holders(i)
    PROVE  OthersStay(one)
BY ReceivePlaces DEF OthersStay, Stays

LEMMA SendStays ==
    ASSUME Order, NEW m \in Message, Send(m), NEW one,
           \A i \in Ids \ {one} : ~Carries(m, i) /\ SameId(i) /\ Holders(i)' = Holders(i)
    PROVE  OthersStay(one)
BY SendPlaces DEF OthersStay, Stays

LEMMA SameStays ==
    ASSUME UNCHANGED <<queue, lost, client_id_pool>>, \A i \in Ids : Holders(i)' = Holders(i)
    PROVE  OthersStay(NoId)
BY DEF OthersStay, Stays, SameId, SamePlaces, Places, Losses, Unread

LEMMA MovesServer ==
    ASSUME Order, ServerStep \/ ServerTypesLine \/ ServerQuits
    PROVE  Moves
<1> USE DEF SameId
<1>a. UNCHANGED users
  BY DEF ServerStep, ServerTypesLine, ServerQuits, ServerLoop, StartEndJob, ServerInput, ReadRequest,
     GrantId, DropRequest, ReadPost, ReadOut, Notify, RemoveQueue, ServerNotifies, ServerGo
<1>b. \A i \in Ids : Holders(i)' = Holders(i)
  BY <1>a DEF Holders, users
<1>c. client_id_pool \in [Ids -> {"FREE", "TAKED"}]
  BY DEF Order, TypeOK
<1>1. CASE ServerLoop \/ ServerInput \/ ServerTypesLine \/ ServerQuits \/ DropRequest
  <2>1. UNCHANGED <<queue, lost, client_id_pool>>
    BY <1>1 DEF ServerLoop, ServerInput, ServerTypesLine, ServerQuits, DropRequest, StartEndJob
  <2>2. QED
    BY <1>b, <2>1, SameStays DEF Moves
<1>2. CASE RemoveQueue
  <2>1. server' = "done" /\ queue' = NoMail /\ UNCHANGED <<lost, client_id_pool>>
    BY <1>2 DEF RemoveQueue, ServerGo
  <2>2. \A t \in Types : queue'[t] = <<>> /\ 1..Len(queue'[t]) = {}
    BY <2>1 DEF NoMail
  <2>3. Unread' = {}
    BY <2>2 DEF Unread
  <2>4. \A i \in Ids : Places(i)' = {} /\ Losses(i)' = Losses(i)
    BY <2>1, <2>3 DEF Places, Losses
  <2>5. QED
    BY <1>b, <2>1, <2>4 DEF Moves, Removed
<1>3. CASE ReadRequest \/ ReadPost
  <2>1. PICK t \in {MESSAGE_CLIENT_ID_REQUEST, MESSAGE_POST_REQUEST} :
          UNCHANGED client_id_pool /\ Receive(t)
    BY <1>3 DEF ReadRequest, ReadPost
  <2>2. t \in Types
    BY Addressees
  <2>3. Received(t) = Nothing \/ Received(t).type = t
    BY <2>1, <2>2, ReceiveQueue DEF Order, TypeOK, Queued
  <2>4. \A i \in Ids : Received(t) = Nothing \/ ~Carries(Received(t), i)
    BY <2>3 DEF Carries, MESSAGE_CLIENT_ID_REQUEST, MESSAGE_POST_REQUEST,
       MESSAGE_CLIENT_ID_SET, MESSAGE_OUT_CHAT
  <2>5. OthersStay(NoId)
    BY <1>b, <2>1, <2>2, <2>4, ReceiveStays
  <2>6. QED
    BY <2>5 DEF Moves
<1>4. CASE GrantId
  <2>1. PICK id, m : /\ id = Least(Ids \ Taked(client_id_pool))
                     /\ m = Msg(MESSAGE_CLIENT_ID_SET, "MESSAGE", Server, SERVER_ID, id)
    OBVIOUS
  <2>2. /\ client_id_pool' = [client_id_pool EXCEPT ![id] = "TAKED"]
        /\ Send(m) /\ id \in Ids \ Taked(client_id_pool)
    BY <1>4, <2>1, FreeTaked DEF GrantId
  <2>3. m \in Message /\ m.type = MESSAGE_CLIENT_ID_SET
    BY <2>1, <2>2, Addressees DEF Msg, Message, Procs
  <2>4. \A i \in Ids : Carries(m, i) <=> i = id
    BY <2>1 DEF Carries, Msg, MESSAGE_CLIENT_ID_SET, MESSAGE_OUT_CHAT
  <2>5. Gained(id, MESSAGE_CLIENT_ID_SET)
    BY <2>2, <2>3, <2>4, SendPlaces
  <2>6. Granted(id)
    BY <1>b, <1>c, <2>2, <2>5 DEF Granted, Taked
  <2>7. OthersStay(id)
    BY <1>b, <1>c, <2>2, <2>3, <2>4, SendStays
  <2>8. QED
    BY <2>2, <2>6, <2>7 DEF Moves
<1>5. CASE ReadOut
  <2>1. PICK m : m = Received(MESSAGE_OUT_CHAT)
    OBVIOUS
  <2>2. /\ Receive(MESSAGE_OUT_CHAT) /\ MESSAGE_OUT_CHAT \in Types
        /\ m = Nothing => UNCHANGED client_id_pool
        /\ m # Nothing => client_id_pool' = FreeId(m.sender_id)
    BY <1>5, <2>1, Addressees DEF ReadOut
  <2>3. m # Nothing => m.type = MESSAGE_OUT_CHAT
    BY <2>1, <2>2, ReceiveQueue DEF Order, TypeOK, Queued
  <2>4. m # Nothing => \A i \in Ids : Carries(m, i) <=> m.sender_id = i
    BY <2>3 DEF Carries, MESSAGE_CLIENT_ID_SET, MESSAGE_OUT_CHAT
  <2>5. CASE m # Nothing /\ m.sender_id \in Ids
    <3>1. PICK id \in Ids : id = m.sender_id
      BY <2>5
    <3>2. LastPlace(id, MESSAGE_OUT_CHAT) /\ Losses(id)' = Losses(id)
      BY <2>1, <2>2, <2>4, <2>5, <3>1, ReceivePlaces
    <3>3. Freed(id)
      BY <1>b, <1>c, <2>2, <2>5, <3>1, <3>2 DEF Freed, FreeId
    <3>4. OthersStay(id)
      BY <1>b, <1>c, <2>1, <2>2, <2>4, <2>5, <3>1, ReceiveStays DEF FreeId
    <3>5. QED
      BY <3>3, <3>4 DEF Moves
  <2>6. CASE m = Nothing \/ m.sender_id \notin Ids
    <3>1. OthersStay(NoId)
      BY <1>b, <1>c, <2>1, <2>2, <2>4, <2>6, ReceiveStays DEF FreeId
    <3>2. QED
      BY <3>1 DEF Moves
  <2>7. QED
    BY <2>5, <2>6
<1>6. CASE Notify
  <2>1. PICK m \in Message : Send(m) /\ m.type > 4 /\ UNCHANGED client_id_pool
    BY <1>6, FreeTaked, Notices, Addressees DEF Notify, Order, InHand
  <2>2. \A i \in Ids : ~Carries(m, i)
    BY <2>1 DEF Carries, MESSAGE_CLIENT_ID_SET, MESSAGE_OUT_CHAT
  <2>3. OthersStay(NoId)
    BY <1>b, <2>1, <2>2, SendStays
  <2>4. QED
    BY <2>3 DEF Moves
<1>7. QED
  BY <1>1, <1>2, <1>3, <1>4, <1>5, <1>6 DEF ServerStep

LEMMA MovesClient ==
    ASSUME Order, NEW c \in Clients,
           ClientStep(c) \/ User(c) \/ InterruptClient(c) \/ KillClient(c)
    PROVE  Moves
<1> USE DEF SameId
<1>a. client \in [Clients -> ClientStates] /\ client_id \in [Clients -> Ids \cup {NoId}]
  BY DEF Order, TypeOK
<1>b. NoId \notin Ids
  BY DEF NoId, Ids
<1>c. ASSUME NEW from, NEW to, from # "gone", to # "gone", ClientGo(c, from, to), UNCHANGED client_id
      PROVE  UNCHANGED client_id_pool /\ \A i \in Ids : Holders(i)' = Holders(i)
  BY <1>a, <1>c DEF ClientGo, Holders
<1>1. CASE LoopExit(c) \/ LoopAgain(c) \/ ReceiveExit(c) \/ NoInput(c) \/ Attach(c) \/ TypeNothing(c)
           \/ TypeQuit(c)
  <2>1. PICK from \in ClientStates \ {"gone"}, to \in ClientStates \ {"gone"} :
           ClientGo(c, from, to) /\ UNCHANGED <<queue, lost, client_id>>
    BY <1>1 DEF LoopExit, LoopAgain, ReceiveExit, NoInput, Attach, TypeNothing, TypeQuit,
       ClientStates, Gone, Typing
  <2>2. QED
    BY <1>c, <2>1, SameStays DEF Moves
<1>2. CASE InterruptClient(c) \/ KillClient(c)
  <2>1. UNCHANGED <<queue, lost, client_id_pool>> /\ \A i \in Ids : Holders(i)' = Holders(i)
    BY <1>2, <1>a DEF InterruptClient, KillClient, Holders, Gone
  <2>2. QED
    BY <2>1, SameStays DEF Moves
<1>3. CASE RequestId(c)
  <2>1. PICK m : m = Msg(MESSAGE_CLIENT_ID_REQUEST, "IN", c, NoId, c)
    OBVIOUS
  <2>2. PICK to \in {"await", "loop"} : ClientGo(c, "loop", to) /\ Send(m) /\ UNCHANGED client_id
    BY <1>3, <2>1 DEF RequestId
  <2>3. m \in Message /\ \A i \in Ids : ~Carries(m, i)
    BY <2>1, Addressees DEF Carries, Msg, Message, Procs, MESSAGE_CLIENT_ID_REQUEST,
       MESSAGE_CLIENT_ID_SET, MESSAGE_OUT_CHAT
  <2>4. OthersStay(NoId)
    BY <1>c, <2>2, <2>3, SendStays
  <2>5. QED
    BY <2>4 DEF Moves
<1>4. CASE TypePost(c)
  <2>1. PICK p : p = Len(posted) + 1
    OBVIOUS
  <2>2. PICK m : m = Msg(MESSAGE_POST_REQUEST, "MESSAGE", c, client_id[c], p)
    OBVIOUS
  <2>3. PICK from \in Typing : ClientGo(c, from, "loop") /\ Send(m) /\ UNCHANGED client_id
    BY <1>4, <2>1, <2>2 DEF TypePost
  <2>4. p \in Texts
    BY <1>4, <2>1, MqAssumption DEF TypePost, Texts, Order, TypeOK
  <2>5. m \in Message /\ \A i \in Ids : ~Carries(m, i)
    BY <1>a, <2>2, <2>4, Addressees DEF Carries, Msg, Message, Procs, MESSAGE_POST_REQUEST,
       MESSAGE_CLIENT_ID_SET, MESSAGE_OUT_CHAT
  <2>6. OthersStay(NoId)
    BY <1>c, <2>3, <2>5, SendStays DEF Typing
  <2>7. QED
    BY <2>6 DEF Moves
<1>5. CASE AwaitId(c)
  <2>1. PICK m : m = Received(MESSAGE_CLIENT_ID_SET)
    OBVIOUS
  <2>2. /\ Receive(MESSAGE_CLIENT_ID_SET) /\ client[c] \in {"await", "loop"} /\ client_id[c] = NoId
        /\ IF m = Nothing
             THEN ClientGo(c, client[c], "loop") /\ UNCHANGED client_id
             ELSE /\ ClientGo(c, client[c], "receive")
                  /\ client_id' = [client_id EXCEPT ![c] = m.text]
    BY <1>5, <2>1 DEF AwaitId, Order, Registered
  <2>3. MESSAGE_CLIENT_ID_SET \in Types
    BY Addressees
  <2>4. CASE m = Nothing
    <3>1. UNCHANGED client_id_pool /\ \A i \in Ids : Holders(i)' = Holders(i)
      BY <1>c, <2>2, <2>4
    <3>2. OthersStay(NoId)
      BY <2>1, <2>2, <2>3, <2>4, <3>1, ReceiveStays
    <3>3. QED
      BY <3>2 DEF Moves
  <2>5. CASE m # Nothing
    <3>1. m.type = MESSAGE_CLIENT_ID_SET
      BY <2>1, <2>2, <2>3, <2>5, ReceiveQueue DEF Order, TypeOK, Queued
    <3>2. m.text \in Ids
      <4>1. 1 \in 1..Len(queue[MESSAGE_CLIENT_ID_SET]) /\ m = queue[MESSAGE_CLIENT_ID_SET][1]
        BY <2>1, <2>2, <2>3, <2>5, ReceiveQueue DEF Order, TypeOK, Queued, Received
      <4>2. QED
        BY <2>3, <3>1, <4>1 DEF Order, AllShaped, Shaped
    <3>3. \A i \in Ids : Carries(m, i) <=> m.text = i
      BY <3>1 DEF Carries, MESSAGE_CLIENT_ID_SET, MESSAGE_OUT_CHAT
    <3>4. /\ UNCHANGED client_id_pool
          /\ \A i \in Ids : Holders(i)' = IF m.text = i THEN Holders(i) \cup {c} ELSE Holders(i)
          /\ \A i \in Ids : c \notin Holders(i)
      BY <1>a, <1>b, <2>2, <2>5 DEF ClientGo, Holders
    <3>5. PICK id \in Ids : id = m.text
      BY <3>2
    <3>6. LastPlace(id, MESSAGE_CLIENT_ID_SET) /\ Losses(id)' = Losses(id)
      BY <2>1, <2>2, <2>3, <2>5, <3>3, <3>5, ReceivePlaces
    <3>7. Claimed(id)
      BY <3>4, <3>5, <3>6 DEF Claimed
    <3>8. OthersStay(id)
      BY <2>1, <2>2, <2>3, <3>3, <3>4, <3>5, ReceiveStays
    <3>9. QED
      BY <3>7, <3>8 DEF Moves
  <2>6. QED
    BY <2>4, <2>5
<1>6. CASE ReadMail(c)
  <2>1. PICK t : t = set_addressee(client_id[c])
    OBVIOUS
  <2>2. PICK to \in {"receive", "input", "ended"} :
           Receive(t) /\ ClientGo(c, "receive", to) /\ UNCHANGED client_id
    BY <1>6, <2>1 DEF ReadMail
  <2>3. client_id[c] \in Ids
    BY <1>a, <2>2 DEF ClientGo, Order, Registered
  <2>4. t \in Types /\ t > 4
    BY <2>1, <2>3, Addressees
  <2>5. Received(t) = Nothing \/ Received(t).type = t
    BY <2>2, <2>4, ReceiveQueue DEF Order, TypeOK, Queued
  <2>6. \A i \in Ids : Received(t) = Nothing \/ ~Carries(Received(t), i)
    BY <2>4, <2>5 DEF Carries, MESSAGE_CLIENT_ID_SET, MESSAGE_OUT_CHAT
  <2>7. UNCHANGED client_id_pool /\ \A i \in Ids : Holders(i)' = Holders(i)
    BY <1>c, <2>2
  <2>8. OthersStay(NoId)
    BY <2>2, <2>4, <2>6, <2>7, ReceiveStays
  <2>9. QED
    BY <2>8 DEF Moves
<1>7. CASE SayOut(c)
  <2>1. PICK m : m = Msg(MESSAGE_OUT_CHAT, "OUT", c, client_id[c], c)
    OBVIOUS
  <2>2. Send(m) /\ ClientGo(c, "leave", "gone") /\ UNCHANGED client_id
    BY <1>7, <2>1 DEF SayOut
  <2>3. m \in Message /\ m.type = MESSAGE_OUT_CHAT
    BY <1>a, <2>1, Addressees DEF Msg, Message, Procs
  <2>4. \A i \in Ids : Carries(m, i) <=> client_id[c] = i
    BY <2>1 DEF Carries, Msg, MESSAGE_CLIENT_ID_SET, MESSAGE_OUT_CHAT
  <2>5. /\ UNCHANGED client_id_pool
        /\ \A i \in Ids :
              /\ Holders(i)' = IF client_id[c] = i THEN Holders(i) \ {c} ELSE Holders(i)
              /\ client_id[c] = i => c \in Holders(i)
    BY <1>a, <2>2 DEF ClientGo, Holders
  <2>6. CASE client_id[c] \in Ids
    <3>1. PICK id \in Ids : id = client_id[c]
      BY <2>6
    <3>2. Gained(id, MESSAGE_OUT_CHAT)
      BY <2>2, <2>3, <2>4, <3>1, SendPlaces
    <3>3. SignedOff(id)
      BY <2>5, <3>1, <3>2 DEF SignedOff
    <3>4. OthersStay(id)
      BY <2>2, <2>3, <2>4, <2>5, <3>1, SendStays
    <3>5. QED
      BY <3>3, <3>4 DEF Moves
  <2>7. CASE client_id[c] \notin Ids
    <3>1. OthersStay(NoId)
      BY <2>2, <2>3, <2>4, <2>5, <2>7, SendStays
    <3>2. QED
      BY <3>1 DEF Moves
  <2>8. QED
    BY <2>6, <2>7
<1>8. QED
  BY <1>1, <1>2, <1>3, <1>4, <1>5, <1>6, <1>7 DEF ClientStep, User

(* Every step moves one id along its way, or none, or removes the queue.    *)
LEMMA EveryStepMoves == ASSUME Order, [Next]_vars PROVE Moves
<1>1. ASSUME UNCHANGED <<queue, lost, client_id_pool, client_id, client>> PROVE Moves
  BY <1>1, SameStays DEF Moves, Holders
<1>2. CASE InterruptServer \/ UNCHANGED vars
  BY <1>1, <1>2 DEF InterruptServer, vars, users
<1>3. CASE ServerStep \/ ServerTypesLine \/ ServerQuits
  BY <1>3, MovesServer
<1>4. ASSUME NEW c \in Clients, ClientStep(c) \/ User(c) \/ InterruptClient(c) \/ KillClient(c)
      PROVE  Moves
  BY <1>4, MovesClient
<1>5. QED
  BY <1>2, <1>3, <1>4 DEF Next

(* A queue that is removed does not come back.                              *)
(* A server that has ended does not start again.                            *)
LEMMA DoneStays == ASSUME [Next]_vars, server = "done" PROVE server' = "done"
BY DEF Next, ServerStep, ServerTypesLine, ServerQuits, InterruptServer, ClientStep, User,
   InterruptClient, KillClient, ServerLoop, StartEndJob, ServerInput, ReadRequest, GrantId, Notifying,
   DropRequest, ReadPost, ReadOut, Notify, RemoveQueue, ServerNotifies, ServerGo, LoopExit,
   RequestId, AwaitId, LoopAgain, ReadMail, ReceiveExit, NoInput, SayOut, Attach, TypePost,
   TypeNothing, TypeQuit, ClientGo, vars

LEMMA OwnershipStep ==
    ASSUME Order, Order', Ownership, [Next]_vars PROVE Ownership'
BY DoneStays, EveryStepMoves, MovesKeepOwnership

-----------------------------------------------------------------------------
(* The third layer: how a step moves the texts.                             *)

(* No new post, or one that is later than all the others.                   *)
PostsFrom ==
    \A n \in 1..Len(queue'[MESSAGE_POST_REQUEST]) :
        \/ \E k \in 1..Len(queue[MESSAGE_POST_REQUEST]) :
              queue'[MESSAGE_POST_REQUEST][n].text = queue[MESSAGE_POST_REQUEST][k].text
        \/ queue'[MESSAGE_POST_REQUEST][n].text = Len(posted) + 1

(* What the server forwards is what it had in hand, or was a post.          *)
SameHand == server = "forward" /\ handled' = handled /\ todo' \subseteq todo
HandFrom ==
    server' = "forward" =>
        \/ SameHand
        \/ \E k \in 1..Len(queue[MESSAGE_POST_REQUEST]) :
              handled'.text = queue[MESSAGE_POST_REQUEST][k].text

(* Some of the oldest posts or texts are gone, at most one.                 *)
FewerPosts ==
    \E d \in {0, 1} : \A n \in 1..Len(queue'[MESSAGE_POST_REQUEST]) :
        /\ n + d \in 1..Len(queue[MESSAGE_POST_REQUEST])
        /\ queue'[MESSAGE_POST_REQUEST][n].text = queue[MESSAGE_POST_REQUEST][n + d].text
FewerTexts(i) ==
    \E d \in {0, 1} : \A n \in Slots(i)' :
        n + d \in Slots(i) /\ Text(i, n)' = Text(i, n + d)

(* Texts are numbers of posts, and posts are by clients.                    *)
LEMMA TextsNumbered ==
    ASSUME Order
    PROVE  /\ Len(posted) \in Nat /\ \A p \in 1..Len(posted) : posted[p].by \in Clients
           /\ \A n \in 1..Len(queue[MESSAGE_POST_REQUEST]) :
                 queue[MESSAGE_POST_REQUEST][n].text \in 1..Len(posted)
           /\ \A i \in Ids : Len(queue[set_addressee(i)]) \in Nat
           /\ \A i \in Ids : \A n \in Slots(i) : Text(i, n) \in 1..Len(posted)
           /\ server = "forward" => /\ handled.text \in 1..Len(posted)
                                    /\ handled.sender_id = client_id[posted[handled.text].by]
           /\ Len(queue[MESSAGE_POST_REQUEST]) \in Nat
<1>1. /\ queue \in [Types -> Seq(Message)] /\ posted \in Seq([by : Clients, to : SUBSET Clients])
      /\ \A t \in Types : \A n \in 1..Len(queue[t]) : queue[t][n].type = t
  BY DEF Order, TypeOK
<1>2. \A p \in 1..Len(posted) : posted[p].by \in Clients
  <2>1. \A p \in 1..Len(posted) : posted[p] \in [by : Clients, to : SUBSET Clients]
    BY <1>1, ElementOfSeq
  <2>2. QED
    BY <2>1
<1>3. ASSUME NEW n \in 1..Len(queue[MESSAGE_POST_REQUEST])
      PROVE  queue[MESSAGE_POST_REQUEST][n].text \in 1..Len(posted)
  <2>1. PICK m : m = queue[MESSAGE_POST_REQUEST][n]
    OBVIOUS
  <2>2. Shaped(m) /\ m.type = MESSAGE_POST_REQUEST
    BY <1>1, <2>1, Addressees DEF Order, AllShaped
  <2>3. QED
    BY <2>1, <2>2 DEF Shaped
<1>4. ASSUME NEW i \in Ids, NEW n \in Slots(i) PROVE Text(i, n) \in 1..Len(posted)
  <2>1. PICK m : m = queue[set_addressee(i)][n]
    OBVIOUS
  <2>2. Shaped(m) /\ m.type = set_addressee(i) /\ m.kind = "MESSAGE"
    BY <1>1, <2>1, Addressees DEF Order, AllShaped, Slots
  <2>3. QED
    BY <2>1, <2>2 DEF Shaped, Text
<1>5. server = "forward" => /\ handled.text \in 1..Len(posted)
                            /\ handled.sender_id = client_id[posted[handled.text].by]
  BY DEF Order, InHand, Shaped
<1>6. QED
  BY <1>1, <1>2, <1>3, <1>4, <1>5, Addressees

LEMMA AheadKept ==
    ASSUME Order, WritersHaveIds, IdsKept, PostsKept, PostsFrom, HandFrom,
           NEW i \in Ids, NEW p, Ahead(i, p)
    PROVE  Ahead(i, p)'
<1>1. /\ p \in 1..Len(posted) /\ client_id[posted[p].by] # i /\ p \in Nat
      /\ \A n \in 1..Len(queue[MESSAGE_POST_REQUEST]) : p < queue[MESSAGE_POST_REQUEST][n].text
      /\ server = "forward" => p <= handled.text /\ (i \in todo => p < handled.text)
  BY TextsNumbered DEF Ahead
<1>2. p \in 1..Len(posted') /\ client_id'[posted'[p].by] # i
  <2>1. posted[p].by \in Clients /\ client_id[posted[p].by] \in Ids /\ NoId \notin Ids
    BY <1>1, TextsNumbered DEF WritersHaveIds, NoId, Ids
  <2>2. QED
    BY <1>1, <2>1 DEF IdsKept, PostsKept
<1>3. ASSUME NEW n \in 1..Len(queue'[MESSAGE_POST_REQUEST])
      PROVE  p < queue'[MESSAGE_POST_REQUEST][n].text
  <2>1. Len(posted) \in Nat /\ p < Len(posted) + 1
    BY <1>1, TextsNumbered
  <2>2. QED
    BY <1>1, <2>1, Zenon DEF PostsFrom
<1>4. ASSUME server' = "forward" PROVE p <= handled'.text /\ (i \in todo' => p < handled'.text)
  <2>1. CASE SameHand
    BY <1>1, <2>1 DEF SameHand
  <2>2. CASE \E k \in 1..Len(queue[MESSAGE_POST_REQUEST]) :
                handled'.text = queue[MESSAGE_POST_REQUEST][k].text
    BY <1>1, <2>2, TextsNumbered
  <2>3. QED
    BY <1>4, <2>1, <2>2 DEF HandFrom
<1>5. QED
  BY <1>2, <1>3, <1>4 DEF Ahead

LEMMA PostsFewer ==
    ASSUME Order, PostsInOrder, FewerPosts, server' = "forward" => SameHand
    PROVE  PostsInOrder' /\ PostsFrom /\ HandFrom
<1>1. PICK d \in {0, 1} : \A n \in 1..Len(queue'[MESSAGE_POST_REQUEST]) :
        /\ n + d \in 1..Len(queue[MESSAGE_POST_REQUEST])
        /\ queue'[MESSAGE_POST_REQUEST][n].text = queue[MESSAGE_POST_REQUEST][n + d].text
  BY DEF FewerPosts
<1>2. ASSUME NEW n \in 1..Len(queue'[MESSAGE_POST_REQUEST]), NEW k \in 1..(n - 1)
      PROVE  queue'[MESSAGE_POST_REQUEST][k].text < queue'[MESSAGE_POST_REQUEST][n].text
  <2>1. k \in 1..Len(queue'[MESSAGE_POST_REQUEST]) /\ k + d \in 1..((n + d) - 1)
    <3>1. Len(queue'[MESSAGE_POST_REQUEST]) \in Nat \/ n \in Int
      OBVIOUS
    <3>2. k <= n - 1 /\ 1 <= k /\ k \in Int /\ n \in Int /\ n <= Len(queue'[MESSAGE_POST_REQUEST])
      OBVIOUS
    <3>3. QED
      BY <3>2
  <2>2. QED
    BY <1>1, <2>1 DEF PostsInOrder
<1>3. ASSUME server' = "forward", NEW n \in 1..Len(queue'[MESSAGE_POST_REQUEST])
      PROVE  handled'.text < queue'[MESSAGE_POST_REQUEST][n].text
  BY <1>1, <1>3 DEF PostsInOrder, SameHand
<1>4. PostsInOrder'
  BY <1>2, <1>3 DEF PostsInOrder
<1>5. QED
  BY <1>1, <1>4 DEF PostsFrom, HandFrom

(* The texts for one id, when none is added.                                *)
LEMMA MailFewer ==
    ASSUME Order, Flow, IdsKept, PostsKept, PostsFrom, HandFrom, NEW i \in Ids, FewerTexts(i),
           NEW n \in Slots(i)'
    PROVE  Ahead(i, Text(i, n))' /\ \A k \in Slots(i)' : k < n => Text(i, k)' < Text(i, n)'
<1>1. PICK d \in {0, 1} : \A k \in Slots(i)' :
        k + d \in Slots(i) /\ Text(i, k)' = Text(i, k + d)
  BY DEF FewerTexts
<1>2. PICK p : p = Text(i, n + d) /\ Text(i, n)' = p
  BY <1>1
<1>3. Ahead(i, p)'
  BY <1>1, <1>2, AheadKept DEF Flow, MailInOrder
<1>4. ASSUME NEW k \in Slots(i)', k < n PROVE Text(i, k)' < Text(i, n)'
  <2>1. k \in Int /\ n \in Int
    BY DEF Slots
  <2>2. k + d < n + d
    BY <1>4, <2>1
  <2>3. QED
    BY <1>1, <2>2 DEF Flow, MailInOrder
<1>5. QED
  BY <1>2, <1>3, <1>4 DEF Ahead

(* No text for an id but what was there, or what the server had in hand.    *)
TextsFrom(i) ==
    \A n \in Slots(i)' :
        \/ \E j \in Slots(i) : Text(i, n)' = Text(i, j)
        \/ server = "forward" /\ i \in todo /\ Text(i, n)' = handled.text

(* A text that is on a screen stays there in its order.                     *)
LEMMA SeenKept ==
    ASSUME Order, Flow, IdsKept, PostsKept, PostsFrom, HandFrom, \A i \in Ids : TextsFrom(i),
           NEW c \in Clients, NEW k \in 1..Len(seen[c]),
           \A j \in 1..k : seen'[c][j] = seen[c][j]
    PROVE  OnScreen(c, k)'
<1>1. PICK i, p : i = client_id[c] /\ p = seen[c][k]
  OBVIOUS
<1>2. /\ i \in Ids /\ Ahead(i, p) /\ posted[p].by # c
      /\ \A n \in Slots(i) : p < Text(i, n)
      /\ \A j \in 1..(k - 1) : seen[c][j] < p
  BY <1>1 DEF Flow, SeenInOrder, OnScreen
<1>3. Ahead(i, p)'
  BY <1>2, AheadKept DEF Flow
<1>4. client_id'[c] = i /\ posted'[p].by # c
  <2>1. NoId \notin Ids /\ p \in 1..Len(posted)
    BY <1>2 DEF NoId, Ids, Ahead
  <2>2. QED
    BY <1>1, <1>2, <2>1 DEF IdsKept, PostsKept
<1>5. ASSUME NEW n \in Slots(i)' PROVE p < Text(i, n)'
  <2>1. CASE \E j \in Slots(i) : Text(i, n)' = Text(i, j)
    BY <1>2, <2>1
  <2>2. CASE server = "forward" /\ i \in todo /\ Text(i, n)' = handled.text
    BY <1>2, <2>2 DEF Ahead
  <2>3. QED
    BY <1>2, <2>1, <2>2 DEF TextsFrom
<1>6. seen'[c][k] = p /\ \A j \in 1..(k - 1) : seen'[c][j] < p
  <2>1. \A j \in 1..k : seen'[c][j] = seen[c][j]
    OBVIOUS
  <2>2. k \in Int /\ 1 <= k
    OBVIOUS
  <2>3. QED
    BY <1>1, <1>2, <2>1, <2>2
<1>7. QED
  BY <1>2, <1>3, <1>4, <1>5, <1>6 DEF OnScreen, Ahead, Slots, Text

(* What follows for the mail and the screens when no text is added to them. *)
LEMMA FlowRest ==
    ASSUME Order, Flow, IdsKept, UNCHANGED seen, PostsKept, PostsFrom, HandFrom,
           \A i \in Ids : FewerTexts(i), PostsInOrder', NotToWriter', WritersHaveIds'
    PROVE  Flow'
<1>1. MailInOrder'
  BY MailFewer DEF MailInOrder
<1>2. \A i \in Ids : TextsFrom(i)
  BY DEF FewerTexts, TextsFrom
<1>3. SeenInOrder'
  BY <1>2, SeenKept DEF SeenInOrder
<1>4. QED
  BY <1>1, <1>3 DEF Flow

(* A step that only takes texts away, or does not touch them.               *)
LEMMA FlowShrinks ==
    ASSUME Order, Flow, IdsKept, UNCHANGED history, FewerPosts, \A i \in Ids : FewerTexts(i),
           server' = "forward" => SameHand
    PROVE  Flow'
<1>1. UNCHANGED <<posted, seen>> /\ PostsKept
  BY DEF history, PostsKept
<1>2. PostsInOrder' /\ PostsFrom /\ HandFrom
  BY PostsFewer DEF Flow
<1>3. NotToWriter'
  BY DEF Flow, NotToWriter, SameHand
<1>4. WritersHaveIds'
  <2>1. NoId \notin Ids
    BY DEF NoId, Ids
  <2>2. QED
    BY <1>1, <2>1, TextsNumbered DEF Flow, WritersHaveIds, IdsKept
<1>5. QED
  BY <1>1, <1>2, <1>3, <1>4, FlowRest

(* A queue of posts or texts that loses at most its oldest.                 *)
Shorter(t) ==
    \E d \in {0, 1} : /\ Len(queue'[t]) = Len(queue[t]) - d
                      /\ \A n \in 1..Len(queue'[t]) : queue'[t][n] = queue[t][n + d]

LEMMA ShorterFewer ==
    ASSUME Order
    PROVE  /\ Shorter(MESSAGE_POST_REQUEST) => FewerPosts
           /\ \A i \in Ids : Shorter(set_addressee(i)) => FewerTexts(i)
<1>1. \A t \in Types : Len(queue[t]) \in Nat
  BY DEF Order, TypeOK
<1>2. ASSUME NEW t \in Types, NEW d \in {0, 1}, Len(queue'[t]) = Len(queue[t]) - d,
             NEW n \in 1..Len(queue'[t])
      PROVE  n + d \in 1..Len(queue[t])
  BY <1>1, <1>2
<1>3. Shorter(MESSAGE_POST_REQUEST) => FewerPosts
  BY <1>2, Addressees DEF Shorter, FewerPosts
<1>4. ASSUME NEW i \in Ids, Shorter(set_addressee(i)) PROVE FewerTexts(i)
  BY <1>2, <1>4, Addressees DEF Shorter, FewerTexts, Slots, Text
<1>5. QED
  BY <1>3, <1>4

LEMMA ReceiveShorter ==
    ASSUME Order, NEW t \in Types, Receive(t)
    PROVE  \A s \in Types : Shorter(s)
<1>1. /\ queue \in [Types -> Seq(Message)]
      /\ \A s \in Types \ {t} : queue'[s] = queue[s]
      /\ queue[t] = <<>> => queue' = queue
      /\ queue[t] # <<>> => /\ Len(queue'[t]) = Len(queue[t]) - 1
                            /\ \A n \in 1..Len(queue'[t]) : queue'[t][n] = queue[t][n + 1]
  BY ReceiveQueue DEF Order, TypeOK, Queued
<1>2. ASSUME NEW s \in Types, queue'[s] = queue[s] PROVE Shorter(s)
  <2>1. Len(queue[s]) \in Nat /\ Len(queue'[s]) = Len(queue[s]) - 0
    BY <1>1, <1>2
  <2>2. \A n \in 1..Len(queue'[s]) : queue'[s][n] = queue[s][n + 0]
    BY <1>2, <2>1
  <2>3. QED
    BY <2>1, <2>2 DEF Shorter
<1>3. CASE queue[t] # <<>>
  <2>1. Shorter(t)
    BY <1>1, <1>3 DEF Shorter
  <2>2. QED
    BY <1>1, <1>2, <2>1
<1>4. CASE queue[t] = <<>>
  BY <1>1, <1>2, <1>4
<1>5. QED
  BY <1>3, <1>4

LEMMA SameShorter ==
    ASSUME Order, NEW t \in Types, queue'[t] = queue[t] PROVE Shorter(t)
<1>1. Len(queue[t]) \in Nat /\ Len(queue'[t]) = Len(queue[t]) - 0
  BY DEF Order, TypeOK
<1>2. \A n \in 1..Len(queue'[t]) : queue'[t][n] = queue[t][n + 0]
  BY <1>1
<1>3. QED
  BY <1>1, <1>2 DEF Shorter

(* A send of what is neither a post nor a text.                             *)
LEMMA SendFewer ==
    ASSUME Order, NEW m \in Message, Send(m)
    PROVE  /\ m.type # MESSAGE_POST_REQUEST => FewerPosts
           /\ \A i \in Ids : m.type # set_addressee(i) \/ m.kind # "MESSAGE" => FewerTexts(i)
<1>1. /\ m.type \in Types
      /\ \A t \in Types \ {m.type} : queue'[t] = queue[t]
      /\ \A n \in 1..Len(queue[m.type]) : queue'[m.type][n] = queue[m.type][n]
      /\ ~Room => queue' = queue
      /\ Room => /\ Len(queue'[m.type]) = Len(queue[m.type]) + 1
                 /\ queue'[m.type][Len(queue[m.type]) + 1] = m
  BY SendQueue DEF Order, TypeOK, Queued, Message
<1>2. \A t \in Types : t # m.type => Shorter(t)
  BY <1>1, SameShorter
<1>3. m.type # MESSAGE_POST_REQUEST => FewerPosts
  BY <1>2, Addressees, ShorterFewer
<1>4. ASSUME NEW i \in Ids, m.type # set_addressee(i) PROVE FewerTexts(i)
  BY <1>2, <1>4, Addressees, ShorterFewer
<1>5. ASSUME NEW i \in Ids, m.type = set_addressee(i), m.kind # "MESSAGE" PROVE FewerTexts(i)
  <2>1. CASE ~Room
    BY <1>1, <2>1, Addressees, SameShorter, ShorterFewer
  <2>2. CASE Room
    <3>1. Len(queue[m.type]) \in Nat
      BY <1>1 DEF Order, TypeOK
    <3>2. ASSUME NEW n \in Slots(i)' PROVE n + 0 \in Slots(i) /\ Text(i, n)' = Text(i, n + 0)
      <4>1. n \in 1..Len(queue'[m.type]) /\ queue'[m.type][n].kind = "MESSAGE"
        BY <1>5 DEF Slots
      <4>2. n # Len(queue[m.type]) + 1
        BY <1>1, <1>5, <2>2, <4>1
      <4>3. n \in 1..Len(queue[m.type]) /\ n + 0 = n
        BY <1>1, <2>2, <3>1, <4>1, <4>2
      <4>4. QED
        BY <1>1, <1>5, <4>1, <4>3 DEF Slots, Text
    <3>3. QED
      BY <3>2 DEF FewerTexts
  <2>3. QED
    BY <2>1, <2>2
<1>6. QED
  BY <1>3, <1>4, <1>5

(* The steps that leave posts and texts alone, with the queue as it is, or  *)
(* with a message of another kind sent or received.                         *)
LEMMA FlowSame ==
    ASSUME Order, Flow, IdsKept, UNCHANGED history, UNCHANGED queue,
           server' = "forward" => SameHand
    PROVE  Flow'
BY Addressees, SameShorter, ShorterFewer, FlowShrinks

LEMMA FlowReceive ==
    ASSUME Order, Flow, IdsKept, UNCHANGED history, NEW t \in Types, Receive(t),
           server' = "forward" => SameHand
    PROVE  Flow'
BY Addressees, ReceiveShorter, ShorterFewer, FlowShrinks

LEMMA FlowSend ==
    ASSUME Order, Flow, IdsKept, UNCHANGED history, NEW m \in Message, Send(m),
           m.type # MESSAGE_POST_REQUEST, m.type > 4 => m.kind # "MESSAGE",
           server' = "forward" => SameHand
    PROVE  Flow'
BY Addressees, SendFewer, FlowShrinks

(* The server takes the oldest post in hand.                                *)
LEMMA FlowReadPost == ASSUME Order, Flow, ReadPost PROVE Flow'
<1>1. PICK m : m = Received(MESSAGE_POST_REQUEST)
  OBVIOUS
<1>2. /\ Receive(MESSAGE_POST_REQUEST) /\ MESSAGE_POST_REQUEST \in Types
      /\ IF m = Nothing
           THEN ServerGo("posts", "outs")
           ELSE ServerNotifies("posts", "forward", m, Readers(m))
  BY <1>1, Addressees DEF ReadPost
<1>3. UNCHANGED <<users, program_exit_flag, signals, history>>
  BY <1>2 DEF ServerGo, ServerNotifies
<1>4. IdsKept /\ PostsKept
  BY <1>3, ServerKeeps
<1>5. CASE server' # "forward"
  BY <1>2, <1>3, <1>4, <1>5, FlowReceive
<1>6. CASE server' = "forward"
  <2>1. m # Nothing /\ handled' = m /\ todo' = Readers(m)
    BY <1>2, <1>6 DEF ServerGo, ServerNotifies, AfterNotifying
  <2>2. /\ 1 \in 1..Len(queue[MESSAGE_POST_REQUEST]) /\ m = queue[MESSAGE_POST_REQUEST][1]
        /\ \A s \in Types \ {MESSAGE_POST_REQUEST} : queue'[s] = queue[s]
        /\ \A n \in 1..Len(queue'[MESSAGE_POST_REQUEST]) :
              /\ n + 1 \in 1..Len(queue[MESSAGE_POST_REQUEST])
              /\ queue'[MESSAGE_POST_REQUEST][n] = queue[MESSAGE_POST_REQUEST][n + 1]
    BY <1>1, <1>2, <2>1, ReceiveQueue DEF Order, TypeOK, Queued
  <2>3. posted' = posted /\ seen' = seen /\ client_id' = client_id
    BY <1>3 DEF users, history
  <2>4. PostsInOrder' /\ PostsFrom /\ HandFrom
    <3>1. FewerPosts /\ PostsFrom /\ HandFrom
      BY <2>1, <2>2 DEF FewerPosts, PostsFrom, HandFrom
    <3>2. ASSUME NEW n \in 1..Len(queue'[MESSAGE_POST_REQUEST])
          PROVE  handled'.text < queue'[MESSAGE_POST_REQUEST][n].text
      <4>1. 1 \in 1..((n + 1) - 1)
        BY <2>2
      <4>2. QED
        BY <2>1, <2>2, <4>1 DEF Flow, PostsInOrder
    <3>3. ASSUME NEW n \in 1..Len(queue'[MESSAGE_POST_REQUEST]), NEW k \in 1..(n - 1)
          PROVE  queue'[MESSAGE_POST_REQUEST][k].text < queue'[MESSAGE_POST_REQUEST][n].text
      <4>1. k \in 1..Len(queue'[MESSAGE_POST_REQUEST]) /\ k + 1 \in 1..((n + 1) - 1)
        <5>1. k <= n - 1 /\ 1 <= k /\ k \in Int /\ n \in Int /\ n <= Len(queue'[MESSAGE_POST_REQUEST])
          OBVIOUS
        <5>2. QED
          BY <5>1
      <4>2. QED
        BY <2>2, <4>1 DEF Flow, PostsInOrder
    <3>4. QED
      BY <3>1, <3>2, <3>3 DEF PostsInOrder
  <2>5. \A i \in Ids : queue'[set_addressee(i)] = queue[set_addressee(i)]
    <3>1. \A i \in Ids : set_addressee(i) \in Types \ {MESSAGE_POST_REQUEST}
      BY Addressees DEF MESSAGE_POST_REQUEST
    <3>2. QED
      BY <2>2, <3>1
  <2>6. \A i \in Ids : FewerTexts(i)
    BY <2>5, Addressees, SameShorter, ShorterFewer
  <2>7. NotToWriter'
    BY <2>1 DEF NotToWriter, Readers
  <2>8. WritersHaveIds'
    BY <2>3 DEF Flow, WritersHaveIds
  <2>9. QED
    BY <1>4, <2>3, <2>4, <2>6, <2>7, <2>8, FlowRest
<1>7. QED
  BY <1>5, <1>6

(* The server appends the text it has in hand to the queue of one reader.   *)
LEMMA FlowForward == ASSUME Order, Flow, Notify, server = "forward" PROVE Flow'
<1>1. PICK i \in Ids, m \in Message :
        /\ i \in todo /\ m.type = set_addressee(i) /\ m.kind = "MESSAGE" /\ m.text = handled.text
        /\ Send(m) /\ ServerNotifies("forward", "forward", handled, todo \ {i})
  BY FreeTaked, Notices DEF Notify, Order, InHand, Notifying
<1>2. UNCHANGED <<users, program_exit_flag, signals, history>>
  BY <1>1 DEF ServerNotifies, ServerGo
<1>3. IdsKept /\ PostsKept /\ posted' = posted /\ seen' = seen /\ client_id' = client_id
  BY <1>2, ServerKeeps DEF users, history
<1>4. server' = "forward" => SameHand
  BY <1>1 DEF SameHand, ServerNotifies, ServerGo, AfterNotifying
<1>5. FewerPosts /\ \A j \in Ids \ {i} : FewerTexts(j)
  <2>1. m.type # MESSAGE_POST_REQUEST /\ \A j \in Ids \ {i} : m.type # set_addressee(j)
    BY <1>1, Addressees DEF MESSAGE_POST_REQUEST
  <2>2. QED
    BY <1>1, <2>1, SendFewer
<1>6. CASE ~Room
  <2>1. queue' = queue
    BY <1>1, <1>6 DEF Send
  <2>2. QED
    BY <1>2, <1>3, <1>4, <2>1, FlowSame
<1>7. CASE Room
  <2>1. PostsInOrder' /\ PostsFrom /\ HandFrom
    BY <1>4, <1>5, PostsFewer DEF Flow
  <2>2. NotToWriter'
    BY <1>4 DEF Flow, NotToWriter, SameHand
  <2>3. PICK l : l = Len(queue[set_addressee(i)]) /\ l \in Nat
    BY TextsNumbered
  <2>4. /\ \A n \in Slots(i)' : \/ n \in Slots(i) /\ Text(i, n)' = Text(i, n)
                                \/ n = l + 1 /\ Text(i, n)' = handled.text
        /\ \A n \in Slots(i) : n < l + 1
    <3>1. /\ Len(queue'[m.type]) = l + 1 /\ queue'[m.type][l + 1] = m
          /\ \A n \in 1..l : queue'[m.type][n] = queue[m.type][n]
      BY <1>1, <1>7, <2>3, SendQueue DEF Order, TypeOK, Queued
    <3>2. QED
      BY <1>1, <2>3, <3>1 DEF Slots, Text
  <2>5. PICK p : p = handled.text
    OBVIOUS
  <2>6. Ahead(i, p)'
    <3>1. p \in 1..Len(posted) /\ client_id[posted[p].by] # i /\ p \in Nat
      BY <1>1, <2>5, TextsNumbered DEF Flow, NotToWriter
    <3>2. \A n \in 1..Len(queue'[MESSAGE_POST_REQUEST]) : p < queue'[MESSAGE_POST_REQUEST][n].text
      BY <1>5, <2>5 DEF FewerPosts, Flow, PostsInOrder
    <3>3. server' = "forward" => handled'.text = p /\ i \notin todo'
      BY <1>1, <1>4, <2>5 DEF SameHand, ServerNotifies
    <3>4. QED
      BY <1>3, <3>1, <3>2, <3>3 DEF Ahead
  <2>7. MailInOrder'
    <3>1. ASSUME NEW n \in Slots(i)'
          PROVE  Ahead(i, Text(i, n))' /\ \A k \in Slots(i)' : k < n => Text(i, k)' < Text(i, n)'
      <4>1. CASE n \in Slots(i) /\ Text(i, n)' = Text(i, n)
        <5>1. PICK q : q = Text(i, n) /\ Text(i, n)' = q
          BY <4>1
        <5>2. Ahead(i, q)'
          BY <1>3, <2>1, <4>1, <5>1, AheadKept DEF Flow, MailInOrder
        <5>3. ASSUME NEW k \in Slots(i)', k < n PROVE Text(i, k)' < q
          <6>1. n < l + 1 /\ n \in Int /\ l + 1 \in Int
            BY <2>3, <2>4, <4>1 DEF Slots
          <6>2. k # l + 1
            BY <5>3, <6>1
          <6>3. k \in Slots(i) /\ Text(i, k)' = Text(i, k)
            BY <2>4, <6>2
          <6>4. QED
            BY <4>1, <5>1, <5>3, <6>3 DEF Flow, MailInOrder
        <5>4. QED
          BY <5>1, <5>2, <5>3 DEF Ahead
      <4>2. CASE n = l + 1 /\ Text(i, n)' = p
        <5>1. \A k \in Slots(i) : Text(i, k) < p
          BY <1>1, <2>5 DEF Flow, MailInOrder, Ahead
        <5>2. \A k \in Slots(i)' : k < n => Text(i, k)' < p
          BY <2>4, <4>2, <5>1
        <5>3. QED
          BY <2>6, <4>2, <5>2 DEF Ahead
      <4>3. QED
        BY <2>4, <2>5, <4>1, <4>2
    <3>2. ASSUME NEW j \in Ids \ {i}, NEW n \in Slots(j)'
          PROVE  Ahead(j, Text(j, n))' /\ \A k \in Slots(j)' : k < n => Text(j, k)' < Text(j, n)'
      BY <1>3, <1>5, <2>1, MailFewer
    <3>3. QED
      BY <3>1, <3>2 DEF MailInOrder
  <2>8. \A j \in Ids : TextsFrom(j)
    BY <1>1, <1>5, <2>4 DEF FewerTexts, TextsFrom
  <2>9. SeenInOrder'
    BY <1>3, <2>1, <2>8, SeenKept DEF SeenInOrder
  <2>10. WritersHaveIds'
    BY <1>3 DEF Flow, WritersHaveIds
  <2>11. QED
    BY <2>1, <2>2, <2>7, <2>9, <2>10 DEF Flow
<1>8. QED
  BY <1>6, <1>7

(* The third layer is preserved by what the server does.                    *)
LEMMA FlowServer ==
    ASSUME Order, Flow, ServerStep \/ ServerTypesLine \/ ServerQuits
    PROVE  Flow'
<1>a. UNCHANGED <<users, program_exit_flag, signals, history>>
  BY DEF ServerStep, ServerTypesLine, ServerQuits, ServerLoop, StartEndJob, ServerInput, ReadRequest,
     GrantId, DropRequest, ReadPost, ReadOut, Notify, RemoveQueue, ServerNotifies, ServerGo
<1>b. IdsKept
  BY <1>a, ServerKeeps
<1>1. CASE ServerLoop \/ ServerInput \/ ServerTypesLine \/ ServerQuits \/ DropRequest
  <2>1. UNCHANGED queue /\ server' # "forward"
    BY <1>1 DEF ServerLoop, ServerInput, ServerTypesLine, ServerQuits, DropRequest, StartEndJob,
       ServerNotifies, ServerGo, AfterNotifying
  <2>2. QED
    BY <1>a, <1>b, <2>1, FlowSame
<1>2. CASE RemoveQueue
  <2>1. server' # "forward" /\ queue' = NoMail
    BY <1>2 DEF RemoveQueue, ServerGo
  <2>2. \A t \in Types : Len(queue'[t]) = 0
    BY <2>1 DEF NoMail
  <2>3. FewerPosts /\ \A i \in Ids : FewerTexts(i)
    <3>1. \A t \in Types : 1..Len(queue'[t]) = {}
      BY <2>2
    <3>2. 1..Len(queue'[MESSAGE_POST_REQUEST]) = {} /\ \A i \in Ids : Slots(i)' = {}
      BY <3>1, Addressees DEF Slots
    <3>3. QED
      BY <3>2 DEF FewerPosts, FewerTexts
  <2>4. QED
    BY <1>a, <1>b, <2>1, <2>3, FlowShrinks
<1>3. CASE ReadRequest \/ ReadOut
  <2>1. PICK t \in {MESSAGE_CLIENT_ID_REQUEST, MESSAGE_OUT_CHAT} :
           Receive(t) /\ server' # "forward"
    BY <1>3 DEF ReadRequest, ReadOut, ServerGo, ServerNotifies, AfterNotifying
  <2>2. t \in Types
    BY Addressees
  <2>3. QED
    BY <1>a, <1>b, <2>1, <2>2, FlowReceive
<1>4. CASE GrantId
  <2>1. PICK id, m : /\ id = Least(Ids \ Taked(client_id_pool))
                     /\ m = Msg(MESSAGE_CLIENT_ID_SET, "MESSAGE", Server, SERVER_ID, id)
    OBVIOUS
  <2>2. Send(m) /\ id \in Ids /\ server' # "forward"
    BY <1>4, <2>1, FreeTaked DEF GrantId, ServerNotifies, ServerGo, AfterNotifying
  <2>3. m \in Message /\ m.type # MESSAGE_POST_REQUEST /\ ~(m.type > 4)
    BY <2>1, <2>2, Addressees DEF Msg, Message, Procs, MESSAGE_CLIENT_ID_SET, MESSAGE_POST_REQUEST
  <2>4. QED
    BY <1>a, <1>b, <2>2, <2>3, FlowSend
<1>5. CASE ReadPost
  BY <1>5, FlowReadPost
<1>6. CASE Notify /\ server = "forward"
  BY <1>6, FlowForward
<1>7. CASE Notify /\ server # "forward"
  <2>1. PICK m \in Message :
          /\ Send(m) /\ m.type > 4 /\ m.kind # "MESSAGE"
          /\ ServerNotifies(server, server, handled, todo \ {Least(todo)})
    BY <1>7, FreeTaked, Notices, Addressees DEF Notify, Order, InHand
  <2>2. m.type # MESSAGE_POST_REQUEST
    BY <2>1 DEF MESSAGE_POST_REQUEST
  <2>3. server' # "forward"
    BY <1>7, <2>1 DEF ServerNotifies, ServerGo, AfterNotifying, Notify, Notifying
  <2>4. QED
    BY <1>a, <1>b, <2>1, <2>2, <2>3, FlowSend
<1>8. QED
  BY <1>1, <1>2, <1>3, <1>4, <1>5, <1>6, <1>7 DEF ServerStep

(* A text posted is later than all the others.                              *)
LEMMA FlowTypePost == ASSUME Order, Flow, NEW c \in Clients, TypePost(c) PROVE Flow'
<1>1. PICK l, m, r : /\ l = Len(posted) + 1
                     /\ m = Msg(MESSAGE_POST_REQUEST, "MESSAGE", c, client_id[c], l)
                     /\ r = [by |-> c, to |-> {d \in Clients \ {c} : InChat(d)}]
  OBVIOUS
<1>2. /\ Send(m) /\ posted' = IF Room THEN Append(posted, r) ELSE posted
      /\ l <= MaxPosts /\ client[c] \in {"input", "gets"}
      /\ UNCHANGED <<client_id, seen, server, handled, todo>>
  BY <1>1 DEF TypePost, ClientGo, Typing
<1>3. Len(posted) \in Nat /\ posted \in Seq([by : Clients, to : SUBSET Clients])
  BY DEF Order, TypeOK
<1>4. r \in [by : Clients, to : SUBSET Clients] /\ r.by = c
  BY <1>1
<1>5. client_id[c] \in Ids
  BY <1>2 DEF Order, TypeOK, Registered
<1>6. m \in Message /\ m.type = MESSAGE_POST_REQUEST /\ m.text = l
  BY <1>1, <1>2, <1>3, <1>5, Addressees, MqAssumption DEF Msg, Message, Procs, Texts
<1>7. \A i \in Ids : FewerTexts(i)
  BY <1>2, <1>6, Addressees, SendFewer DEF MESSAGE_POST_REQUEST
<1>8. IdsKept /\ (server' = "forward" => SameHand)
  BY <1>2 DEF IdsKept, SameHand
<1>9. CASE ~Room
  BY <1>2, <1>8, <1>9, FlowSame DEF Send, history, IdsKept
<1>10. CASE Room
  <2>1. /\ Len(posted') = Len(posted) + 1 /\ posted'[l] = r
        /\ \A p \in 1..Len(posted) : posted'[p] = posted[p]
    BY <1>1, <1>2, <1>3, <1>4, <1>10, AppendProperties
  <2>2. PostsKept
    BY <1>3, <2>1 DEF PostsKept
  <2>3. WritersHaveIds'
    <3>1. ASSUME NEW p \in 1..Len(posted') PROVE client_id'[posted'[p].by] \in Ids
      <4>1. CASE p \in 1..Len(posted)
        BY <1>2, <2>1, <4>1 DEF Flow, WritersHaveIds
      <4>2. CASE p = l
        BY <1>2, <1>4, <1>5, <2>1, <4>2
      <4>3. QED
        BY <1>1, <1>3, <2>1, <4>1, <4>2
    <3>2. QED
      BY <3>1 DEF WritersHaveIds
  <2>4. PICK s, t : s = queue[MESSAGE_POST_REQUEST] /\ t = queue'[MESSAGE_POST_REQUEST]
    OBVIOUS
  <2>5. /\ Len(s) \in Nat /\ Len(t) = Len(s) + 1 /\ t[Len(s) + 1].text = l
        /\ \A n \in 1..Len(s) : t[n] = s[n]
    <3>1. /\ Len(queue'[m.type]) = Len(queue[m.type]) + 1
          /\ queue'[m.type][Len(queue[m.type]) + 1] = m
          /\ \A n \in 1..Len(queue[m.type]) : queue'[m.type][n] = queue[m.type][n]
      BY <1>2, <1>6, <1>10, SendQueue DEF Order, TypeOK, Queued
    <3>2. QED
      BY <1>6, <2>4, <3>1, TextsNumbered
  <2>6. /\ \A n \in 1..Len(s) : s[n].text < l
        /\ server = "forward" => handled.text < l
    BY <1>1, <2>4, TextsNumbered
  <2>7. PostsFrom /\ HandFrom
    <3>1. ASSUME NEW n \in 1..Len(t)
          PROVE  (\E k \in 1..Len(s) : t[n].text = s[k].text) \/ t[n].text = Len(posted) + 1
      <4>1. CASE n \in 1..Len(s)
        BY <2>5, <4>1
      <4>2. CASE n = Len(s) + 1
        BY <1>1, <2>5, <4>2
      <4>3. QED
        BY <2>5, <4>1, <4>2
    <3>2. QED
      BY <1>8, <2>4, <3>1 DEF PostsFrom, HandFrom
  <2>8. PostsInOrder'
    <3>1. ASSUME NEW n \in 1..Len(t)
          PROVE  /\ \A k \in 1..(n - 1) : t[k].text < t[n].text
                 /\ server' = "forward" => handled'.text < t[n].text
      <4>1. CASE n \in 1..Len(s)
        <5>1. /\ \A k \in 1..(n - 1) : s[k].text < s[n].text
              /\ server = "forward" => handled.text < s[n].text
          BY <2>4, <4>1 DEF Flow, PostsInOrder
        <5>2. t[n] = s[n] /\ \A k \in 1..(n - 1) : t[k] = s[k]
          BY <2>5, <4>1
        <5>3. QED
          BY <1>2, <5>1, <5>2
      <4>2. CASE n = Len(s) + 1
        BY <1>2, <2>5, <2>6, <4>2
      <4>3. QED
        BY <2>5, <4>1, <4>2
    <3>2. QED
      BY <2>4, <3>1 DEF PostsInOrder
  <2>9. NotToWriter'
    BY <1>2 DEF Flow, NotToWriter
  <2>10. QED
    BY <1>2, <1>7, <1>8, <2>2, <2>3, <2>7, <2>8, <2>9, FlowRest DEF IdsKept
<1>11. QED
  BY <1>9, <1>10

(* A text printed is later than those printed before, and earlier than      *)
(* those still to be read.                                                  *)
LEMMA FlowReadMail == ASSUME Order, Flow, NEW c \in Clients, ReadMail(c) PROVE Flow'
<1>1. PICK i, t, m : i = client_id[c] /\ t = set_addressee(i) /\ m = Received(t)
  OBVIOUS
<1>2. /\ client[c] = "receive" /\ Receive(t)
      /\ seen' = IF m # Nothing /\ m.kind = "MESSAGE"
                   THEN [seen EXCEPT ![c] = Append(seen[c], m.text)] ELSE seen
      /\ UNCHANGED <<client_id, posted, server, handled, todo>>
  BY <1>1 DEF ReadMail, ClientGo
<1>3. i \in Ids /\ t \in Types /\ t # MESSAGE_POST_REQUEST
  BY <1>1, <1>2, Addressees DEF Order, TypeOK, Registered, MESSAGE_POST_REQUEST
<1>4. IdsKept /\ PostsKept /\ (server' = "forward" => SameHand)
  BY <1>2 DEF IdsKept, PostsKept, SameHand
<1>5. CASE seen' = seen
  BY <1>2, <1>3, <1>4, <1>5, FlowReceive DEF history
<1>6. CASE m # Nothing /\ m.kind = "MESSAGE"
  <2>1. FewerPosts /\ \A j \in Ids : FewerTexts(j)
    BY <1>2, <1>3, Addressees, ReceiveShorter, ShorterFewer
  <2>2. PostsInOrder' /\ PostsFrom /\ HandFrom
    BY <1>4, <2>1, PostsFewer DEF Flow
  <2>3. NotToWriter' /\ WritersHaveIds'
    BY <1>2 DEF Flow, NotToWriter, WritersHaveIds
  <2>4. MailInOrder'
    BY <1>4, <2>1, <2>2, MailFewer DEF MailInOrder
  <2>5. \A j \in Ids : TextsFrom(j)
    BY <2>1 DEF FewerTexts, TextsFrom
  <2>6. /\ 1 \in Slots(i) /\ m.text = Text(i, 1)
        /\ \A n \in Slots(i)' : n + 1 \in Slots(i) /\ Text(i, n)' = Text(i, n + 1)
    <3>1. /\ 1 \in 1..Len(queue[t]) /\ m = queue[t][1]
          /\ \A n \in 1..Len(queue'[t]) :
                n + 1 \in 1..Len(queue[t]) /\ queue'[t][n] = queue[t][n + 1]
      BY <1>1, <1>2, <1>3, <1>6, ReceiveQueue DEF Order, TypeOK, Queued
    <3>2. QED
      BY <1>1, <1>6, <3>1 DEF Slots, Text
  <2>7. PICK p : p = m.text
    OBVIOUS
  <2>8. Ahead(i, p) /\ Ahead(i, p)' /\ p \in 1..Len(posted)
    BY <1>3, <1>4, <2>2, <2>6, <2>7, AheadKept, TextsNumbered DEF Flow, MailInOrder
  <2>9. posted[p].by # c
    BY <1>1, <2>8 DEF Ahead
  <2>10. \A n \in Slots(i)' : p < Text(i, n)'
    <3>1. ASSUME NEW n \in Slots(i)' PROVE p < Text(i, n)'
      <4>1. 1 < n + 1
        BY DEF Slots
      <4>2. QED
        BY <1>3, <2>6, <2>7, <4>1 DEF Flow, MailInOrder
    <3>2. QED
      BY <3>1
  <2>11. PICK l : l = Len(seen[c]) /\ l \in Nat /\ seen \in [Clients -> Seq(Texts)]
    <3>1. seen \in [Clients -> Seq(Texts)]
      BY DEF Order, TypeOK
    <3>2. Len(seen[c]) \in Nat
      BY <3>1
    <3>3. QED
      BY <3>1, <3>2
  <2>12. /\ Len(seen'[c]) = l + 1 /\ seen'[c][l + 1] = p
         /\ \A j \in 1..l : seen'[c][j] = seen[c][j]
         /\ \A d \in Clients \ {c} : seen'[d] = seen[d]
    <3>1. p \in Texts
      BY <2>8, MqAssumption DEF Texts, Order, TypeOK
    <3>2. seen' = [seen EXCEPT ![c] = Append(seen[c], p)]
      BY <1>2, <1>6, <2>7
    <3>3. QED
      BY <2>11, <3>1, <3>2, AppendProperties
  <2>13. ASSUME NEW d \in Clients, NEW k \in 1..Len(seen'[d]) PROVE OnScreen(d, k)'
    <3>1. CASE d # c
      BY <1>4, <2>2, <2>5, <2>12, <3>1, SeenKept
    <3>2. CASE d = c /\ k \in 1..l
      <4>1. \A j \in 1..k : seen'[c][j] = seen[c][j]
        BY <2>11, <2>12, <3>2
      <4>2. QED
        BY <1>4, <2>2, <2>5, <2>11, <3>2, <4>1, SeenKept
    <3>3. CASE d = c /\ k = l + 1
      <4>1. \A j \in 1..l : seen[c][j] < p
        BY <1>1, <2>6, <2>7, <2>11 DEF Flow, SeenInOrder, OnScreen
      <4>2. \A j \in 1..(k - 1) : seen'[c][j] < seen'[c][k]
        BY <2>11, <2>12, <3>3, <4>1
      <4>3. seen'[d][k] = p /\ client_id'[d] = i /\ posted' = posted
        BY <1>1, <1>2, <2>12, <3>3
      <4>4. QED
        BY <1>3, <2>8, <2>9, <2>10, <3>3, <4>2, <4>3 DEF OnScreen, Ahead, Slots, Text
    <3>4. QED
      BY <2>11, <2>12, <3>1, <3>2, <3>3
  <2>14. QED
    BY <2>2, <2>3, <2>4, <2>13 DEF Flow, SeenInOrder
<1>7. QED
  BY <1>2, <1>5, <1>6

(* And so is the third layer by every step.                                 *)
LEMMA FlowStep == ASSUME Order, Flow, [Next]_vars PROVE Flow'
<1>1. ASSUME NEW c \in Clients, ClientStep(c) \/ User(c) PROVE Flow'
  <2>a. client_id \in [Clients -> Ids \cup {NoId}] /\ (client[c] = "await" => client_id[c] = NoId)
    BY DEF Order, TypeOK, Registered
  <2>1. ASSUME UNCHANGED <<server, todo, handled>> PROVE server' = "forward" => SameHand
    BY <2>1 DEF SameHand
  <2>2. CASE LoopExit(c) \/ LoopAgain(c) \/ ReceiveExit(c) \/ NoInput(c) \/ Attach(c)
             \/ TypeNothing(c) \/ TypeQuit(c)
    <3>1. UNCHANGED <<queue, client_id, history, server, todo, handled>>
      BY <2>2 DEF LoopExit, LoopAgain, ReceiveExit, NoInput, Attach, TypeNothing, TypeQuit, ClientGo
    <3>2. QED
      BY <2>1, <3>1, FlowSame DEF IdsKept
  <2>3. CASE RequestId(c)
    <3>1. PICK m : m = Msg(MESSAGE_CLIENT_ID_REQUEST, "IN", c, NoId, c)
      OBVIOUS
    <3>2. Send(m) /\ UNCHANGED <<client_id, history, server, todo, handled>>
      BY <2>3, <3>1 DEF RequestId, ClientGo
    <3>3. m \in Message /\ m.type # MESSAGE_POST_REQUEST /\ ~(m.type > 4)
      BY <3>1, Addressees DEF Msg, Message, Procs, MESSAGE_CLIENT_ID_REQUEST, MESSAGE_POST_REQUEST
    <3>4. QED
      BY <2>1, <3>2, <3>3, FlowSend DEF IdsKept
  <2>4. CASE AwaitId(c)
    <3>1. /\ Receive(MESSAGE_CLIENT_ID_SET) /\ client_id[c] = NoId
          /\ \A d \in Clients \ {c} : client_id'[d] = client_id[d]
          /\ UNCHANGED <<history, server, todo, handled>>
      BY <2>a, <2>4 DEF AwaitId, ClientGo
    <3>2. MESSAGE_CLIENT_ID_SET \in Types
      BY Addressees
    <3>3. IdsKept
      BY <3>1 DEF IdsKept
    <3>4. QED
      BY <2>1, <3>1, <3>2, <3>3, FlowReceive
  <2>5. CASE SayOut(c)
    <3>1. PICK m : m = Msg(MESSAGE_OUT_CHAT, "OUT", c, client_id[c], c)
      OBVIOUS
    <3>2. Send(m) /\ UNCHANGED <<client_id, history, server, todo, handled>>
      BY <2>5, <3>1 DEF SayOut, ClientGo
    <3>3. m \in Message /\ m.type # MESSAGE_POST_REQUEST /\ ~(m.type > 4)
      BY <2>a, <3>1, Addressees DEF Msg, Message, Procs, MESSAGE_OUT_CHAT, MESSAGE_POST_REQUEST
    <3>4. QED
      BY <2>1, <3>2, <3>3, FlowSend DEF IdsKept
  <2>6. QED
    BY <1>1, <2>2, <2>3, <2>4, <2>5, FlowReadMail, FlowTypePost DEF ClientStep, User
<1>2. ASSUME NEW c \in Clients, InterruptClient(c) \/ KillClient(c) PROVE Flow'
  BY <1>2, FlowSame DEF InterruptClient, KillClient, IdsKept, SameHand
<1>3. CASE InterruptServer
  <2>1. UNCHANGED <<queue, client_id, history, handled, todo>>
        /\ server' \in {server, "gets", "cut"}
    BY <1>3 DEF InterruptServer, AfterInterrupt, users
  <2>2. QED
    BY <2>1, FlowSame DEF IdsKept, SameHand
<1>4. CASE UNCHANGED vars
  BY <1>4, FlowSame DEF vars, users, IdsKept, SameHand
<1>5. QED
  BY <1>1, <1>2, <1>3, <1>4, FlowServer DEF Next

-----------------------------------------------------------------------------
(* The theorems. *)

IInv == Order /\ Ownership /\ Flow

LEMMA Initially == ASSUME Init PROVE IInv
<1>1. \A t \in Types : queue[t] = <<>> /\ Len(queue[t]) = 0 /\ 1..Len(queue[t]) = {}
  BY DEF Init, NoMail
<1>2. Unread = {}
  BY <1>1 DEF Unread
<1>3. IsFiniteSet(Unread) /\ Cardinality(Unread) = 0
  BY <1>2, FS_EmptySet
<1>4. posted = <<>> /\ Len(posted) = 0 /\ 1..Len(posted) = {}
      /\ \A c \in Clients : seen[c] = <<>> /\ 1..Len(seen[c]) = {}
  BY DEF Init
<1>5. TypeOK
  <2>1. queue \in [Types -> Seq(Message)] /\ seen \in [Clients -> Seq(Texts)]
    BY DEF Init, NoMail
  <2>2. posted \in Seq([by : Clients, to : SUBSET Clients]) /\ Len(posted) <= MaxPosts
    BY <1>4, MqAssumption
  <2>3. server \in ServerStates /\ client \in [Clients -> ClientStates]
    BY DEF Init, ServerStates, ClientStates
  <2>4. QED
    BY <1>1, <1>3, <2>1, <2>2, <2>3, MqAssumption DEF Init, TypeOK
<1>6. Order
  BY <1>1, <1>5 DEF Init, Order, AllShaped, InHand, Registered, Notifying
<1>7. Ownership
  <2>1. \A i \in Ids : Holders(i) = {} /\ Places(i) = {} /\ Losses(i) = {}
    BY <1>2 DEF Init, Holders, Places, Losses, NoId, Ids
  <2>2. QED
    BY <2>1 DEF Init, Ownership, Owned, Unowned
<1>8. Flow
  BY <1>1, <1>4, Addressees DEF Init, Flow, WritersHaveIds, PostsInOrder, NotToWriter, MailInOrder,
     Slots, SeenInOrder
<1>9. QED
  BY <1>6, <1>7, <1>8 DEF IInv

(* The three layers hold in every state (task1.c, run_server and            *)
(* run_client).                                                             *)
THEOREM InductiveInvariant == Spec => []IInv
<1>1. Init => IInv
  BY Initially
<1>2. IInv /\ [Next]_vars => IInv'
  BY OrderStep, OwnershipStep, FlowStep DEF IInv
<1>3. QED
  BY <1>1, <1>2, PTL DEF Spec

(* Every variable has its type, and the queue never holds more than fits.   *)
THEOREM TypeCorrect == Spec => []TypeOK
<1>1. IInv => TypeOK
  BY DEF IInv, Order
<1>2. QED
  BY <1>1, InductiveInvariant, PTL

LEMMA CountOne == \A S : One(S) => Cardinality(S) = 1
BY FS_Singleton DEF One

(* The owners, counted as OneOwnerPerId counts them.                        *)
LEMMA CountOwners ==
    ASSUME NEW i \in Ids
    PROVE  (OwnedOnce(i) => OwnersOf(i) = 1) /\ (Unowned(i) => OwnersOf(i) = 0)
<1>1. OwnersOf(i) = Cardinality(Holders(i)) + Cardinality(Places(i)) + Cardinality(Losses(i))
  BY DEF OwnersOf, Holders, Places, Losses, Carries
<1>2. Cardinality({}) = 0
  BY FS_EmptySet
<1>3. QED
  BY <1>1, <1>2, CountOne DEF OwnedOnce, Unowned

(* While the queue exists, an id that is TAKED has exactly one owner and a  *)
(* FREE one none, however many sends fail (run_server, the pool).           *)
THEOREM OneOwner == Spec => []OneOwnerPerId
<1>1. IInv => OneOwnerPerId
  BY CountOwners DEF IInv, Ownership, Owned, OneOwnerPerId
<1>2. QED
  BY <1>1, InductiveInvariant, PTL

(* Everyone prints texts in the order in which they were posted, each at    *)
(* most once, and never one's own.                                          *)
THEOREM TextsInOrder == Spec => []InOrder
<1>1. IInv => InOrder
  BY DEF IInv, Flow, SeenInOrder, OnScreen, InOrder
<1>2. QED
  BY <1>1, InductiveInvariant, PTL
-----------------------------------------------------------------------------
(* The abstract pool of ids. *)

(* Where an id is, told by its one owner.                                   *)
StageFits(i) ==
    \/ /\ IdStage(i) = "free" /\ client_id_pool[i] = "FREE" /\ Unowned(i)
       /\ IdHolder(i) = Nothing
    \/ /\ IdStage(i) = "lost" /\ client_id_pool[i] = "TAKED"
       /\ Holders(i) = {} /\ Places(i) = {}
       /\ IdHolder(i) = Nothing
    \/ /\ IdStage(i) = "held" /\ client_id_pool[i] = "TAKED"
       /\ IdHolder(i) \in Clients /\ Holders(i) = {IdHolder(i)} /\ Places(i) = {}
    \/ /\ IdStage(i) = "granted" /\ client_id_pool[i] = "TAKED"
       /\ Holders(i) = {} /\ OneOf(Places(i), MESSAGE_CLIENT_ID_SET)
       /\ IdHolder(i) = Nothing
    \/ /\ IdStage(i) = "returned" /\ client_id_pool[i] = "TAKED"
       /\ Holders(i) = {} /\ OneOf(Places(i), MESSAGE_OUT_CHAT)
       /\ IdHolder(i) = Nothing

LEMMA Staged == IInv /\ server # "done" => \A i \in Ids : StageFits(i)
<1> SUFFICES ASSUME IInv, server # "done", NEW i \in Ids PROVE StageFits(i)
  OBVIOUS
<1>1. Owned(i) /\ client_id_pool[i] \in {"FREE", "TAKED"} /\ Order
  BY DEF IInv, Ownership, Order, TypeOK
<1>2. (OwnedOnce(i) => OwnersOf(i) = 1) /\ (Unowned(i) => OwnersOf(i) = 0)
  BY CountOwners
<1>3. Holders(i) \subseteq Clients
  BY DEF Holders
<1>4. \A u \in Places(i) : /\ u[1] \in {MESSAGE_CLIENT_ID_SET, MESSAGE_OUT_CHAT}
                           /\ u \in Unread
                           /\ u[1] = MESSAGE_CLIENT_ID_SET => queue[u[1]][u[2]].text = i
                           /\ u[1] = MESSAGE_OUT_CHAT => queue[u[1]][u[2]].sender_id = i
  <2>1. \A u \in Unread : queue[u[1]][u[2]].type = u[1]
    BY <1>1, UnreadIs DEF Order, TypeOK
  <2>2. QED
    BY <2>1 DEF Places, Carries, MESSAGE_CLIENT_ID_SET, MESSAGE_OUT_CHAT
<1>5. /\ Replied(i) => \E u \in Places(i) : u[1] = MESSAGE_CLIENT_ID_SET
      /\ SaidOut(i) => \E u \in Places(i) : u[1] = MESSAGE_OUT_CHAT
  <2>1. \A u \in Unread : queue[u[1]][u[2]].type = u[1]
    BY <1>1, UnreadIs DEF Order, TypeOK
  <2>2. QED
    BY <2>1 DEF Replied, SaidOut, Places, Carries
<1>6. CASE client_id_pool[i] = "FREE"
  BY <1>1, <1>2, <1>6 DEF Owned, StageFits, IdStage, IdHolder
<1>7. CASE client_id_pool[i] = "TAKED" /\ Holders(i) = {} /\ Places(i) = {}
  <2>1. ~Replied(i) /\ ~SaidOut(i) /\ OwnersOf(i) \in {0, 1}
    BY <1>1, <1>2, <1>5, <1>7 DEF Owned
  <2>2. QED
    BY <1>7, <2>1 DEF StageFits, IdStage, IdHolder
<1>8. CASE client_id_pool[i] = "TAKED" /\ Holders(i) # {}
  <2>1. OwnedOnce(i) /\ Places(i) = {}
    BY <1>1, <1>8 DEF Owned, OwnedOnce, Unowned
  <2>2. PICK c \in Clients : Holders(i) = {c}
    BY <1>3, <1>8, <2>1 DEF OwnedOnce, One
  <2>3. IdStage(i) = "held"
    BY <1>2, <1>8, <2>1 DEF IdStage
  <2>4. IdHolder(i) = c
    BY <2>2, <2>3 DEF IdHolder
  <2>5. QED
    BY <1>8, <2>1, <2>2, <2>3, <2>4 DEF StageFits
<1>9. CASE client_id_pool[i] = "TAKED" /\ Places(i) # {}
  <2>1. OwnedOnce(i) /\ Holders(i) = {}
    BY <1>1, <1>9 DEF Owned, OwnedOnce, Unowned
  <2>2. PICK u \in Places(i) : Places(i) = {u}
    BY <1>9, <2>1 DEF OwnedOnce, One
  <2>3. OneOf(Places(i), u[1])
    <3>1. u = <<u[1], u[2]>>
      BY <1>1, UnreadIs DEF Order, TypeOK, Places
    <3>2. Places(i) = {<<u[1], u[2]>>}
      BY <2>2, <3>1
    <3>3. QED
      BY <3>2 DEF OneOf
  <2>4. u[1] \in {MESSAGE_CLIENT_ID_SET, MESSAGE_OUT_CHAT}
    BY <1>4
  <2>5. /\ Replied(i) <=> u[1] = MESSAGE_CLIENT_ID_SET
        /\ SaidOut(i) <=> u[1] = MESSAGE_OUT_CHAT
    BY <1>4, <1>5, <2>2 DEF Replied, SaidOut
  <2>6. IdStage(i) = IF u[1] = MESSAGE_CLIENT_ID_SET THEN "granted" ELSE "returned"
    BY <1>2, <1>9, <2>1, <2>4, <2>5 DEF IdStage, MESSAGE_CLIENT_ID_SET, MESSAGE_OUT_CHAT
  <2>7. QED
    BY <1>9, <2>1, <2>3, <2>4, <2>6 DEF StageFits, IdHolder
<1>10. QED
  BY <1>1, <1>6, <1>7, <1>8, <1>9

LEMMA StagedNext == IInv' /\ server' # "done" => (\A i \in Ids : StageFits(i))'
<1>1. (IInv /\ server # "done" => \A i \in Ids : StageFits(i))'
  BY Staged, PTL
<1>2. QED
  BY <1>1

(* What each move of an id is to the pool.                                  *)
LEMMA Kinds ==
    /\ MESSAGE_CLIENT_ID_SET \in Types /\ MESSAGE_OUT_CHAT \in Types
    /\ \A S : /\ OneOf(S, MESSAGE_CLIENT_ID_SET) => ~OneOf(S, MESSAGE_OUT_CHAT)
              /\ \A t : OneOf(S, t) => S # {} /\ One(S) /\ \A n, r : <<r, n>> \in S => r = t
<1>1. ASSUME NEW S, NEW t, OneOf(S, t)
      PROVE  S # {} /\ One(S) /\ \A n, r : <<r, n>> \in S => r = t
  <2>1. PICK k : S = {<<t, k>>}
    BY <1>1 DEF OneOf
  <2>2. ASSUME NEW n, NEW r, <<r, n>> \in S PROVE r = t
    <3>1. <<r, n>> = <<t, k>>
      BY <2>1, <2>2
    <3>2. QED
      BY <3>1
  <2>3. QED
    BY <2>1, <2>2 DEF One
<1>2. ASSUME NEW S, OneOf(S, MESSAGE_CLIENT_ID_SET), OneOf(S, MESSAGE_OUT_CHAT) PROVE FALSE
  <2>1. PICK k : S = {<<MESSAGE_CLIENT_ID_SET, k>>}
    BY <1>2 DEF OneOf
  <2>2. MESSAGE_CLIENT_ID_SET = MESSAGE_OUT_CHAT
    BY <1>1, <1>2, <2>1
  <2>3. QED
    BY <2>2 DEF MESSAGE_CLIENT_ID_SET, MESSAGE_OUT_CHAT
<1>3. QED
  BY <1>1, <1>2, Addressees

LEMMA StageStays ==
    ASSUME NEW i \in Ids, StageFits(i), StageFits(i)', Stays(i)
    PROVE  IdHolder(i)' = IdHolder(i) /\ IdStage(i)' = IdStage(i)
BY Kinds DEF StageFits, Stays, SameId, SamePlaces, Unowned

LEMMA StageGranted ==
    ASSUME NEW i \in Ids, StageFits(i), StageFits(i)', Granted(i)
    PROVE  /\ IdStage(i) = "free" /\ IdHolder(i)' = Nothing
           /\ IdStage(i)' = "granted" \/ (~Room /\ IdStage(i)' = "lost")
BY Kinds DEF StageFits, Granted, Gained, Unowned

LEMMA StageSignedOff ==
    ASSUME NEW i \in Ids, StageFits(i), StageFits(i)', SignedOff(i)
    PROVE  /\ IdStage(i) = "held" /\ IdHolder(i)' = Nothing
           /\ IdStage(i)' = "returned" \/ (~Room /\ IdStage(i)' = "lost")
<1>1. PICK c \in Holders(i) : Holders(i)' = Holders(i) \ {c}
  BY DEF SignedOff
<1>2. IdStage(i) = "held" /\ Places(i) = {} /\ Holders(i)' = {} /\ client_id_pool[i] = "TAKED"
  BY <1>1 DEF StageFits, Unowned
<1>3. client_id_pool'[i] = "TAKED" /\ Gained(i, MESSAGE_OUT_CHAT)
  BY <1>2 DEF SignedOff, SameId
<1>4. QED
  BY <1>2, <1>3, Kinds DEF StageFits, Gained

LEMMA StageFreed ==
    ASSUME NEW i \in Ids, StageFits(i), StageFits(i)', Freed(i)
    PROVE  IdStage(i) = "returned" /\ IdStage(i)' = "free" /\ IdHolder(i)' = Nothing
<1>1. client_id_pool'[i] = "FREE" /\ \E n : <<MESSAGE_OUT_CHAT, n>> \in Places(i)
  BY DEF Freed, LastPlace
<1>2. IdStage(i) = "returned"
  BY <1>1, Kinds DEF StageFits, Unowned, MESSAGE_CLIENT_ID_SET, MESSAGE_OUT_CHAT
<1>3. QED
  BY <1>1, <1>2 DEF StageFits

LEMMA StageClaimed ==
    ASSUME \A i \in Ids : StageFits(i), NEW i \in Ids, StageFits(i)', Claimed(i)
    PROVE  /\ IdStage(i) = "granted" /\ IdStage(i)' = "held"
           /\ IdHolder(i)' \in Clients /\ \A j \in Ids : IdHolder(j) # IdHolder(i)'
<1>1. PICK c \in Clients : /\ Holders(i)' = Holders(i) \cup {c}
                           /\ \A j \in Ids : c \notin Holders(j)
  BY DEF Claimed
<1>2. \E n : <<MESSAGE_CLIENT_ID_SET, n>> \in Places(i)
  BY DEF Claimed, LastPlace
<1>3. IdStage(i) = "granted" /\ Holders(i) = {}
  BY <1>2, Kinds DEF StageFits, Unowned, MESSAGE_CLIENT_ID_SET, MESSAGE_OUT_CHAT
<1>4. IdStage(i)' = "held" /\ IdHolder(i)' = c
  BY <1>1, <1>3 DEF StageFits, Unowned
<1>5. c # Nothing
  BY MqAssumption DEF Procs
<1>6. QED
  BY <1>1, <1>3, <1>4, <1>5 DEF StageFits

LEMMA OthersFit ==
    ASSUME \A i \in Ids : StageFits(i), \A i \in Ids : StageFits(i)', NEW one, OthersStay(one),
           NEW j \in Ids \ {one}
    PROVE  IdHolder(j)' = IdHolder(j) /\ IdStage(j)' = IdStage(j)
<1>1. j \in Ids /\ Stays(j) /\ StageFits(j) /\ StageFits(j)'
  BY Zenon DEF OthersStay
<1>2. QED
  BY <1>1, StageStays

LEMMA PoolGoes ==
    ASSUME NEW i \in Ids,
           \A j \in Ids \ {i} : IdHolder(j)' = IdHolder(j) /\ IdStage(j)' = IdStage(j)
    PROVE  Pool!Goes(i, IdStage(i)', IdHolder(i)', {})
BY Zenon DEF Pool!Goes

LEMMA PoolMoves ==
    ASSUME \A i \in Ids : StageFits(i), \A i \in Ids : StageFits(i)', NEW i \in Ids,
           Granted(i) \/ Claimed(i) \/ SignedOff(i) \/ Freed(i), OthersStay(i)
    PROVE  Pool!Next
<1>1. Pool!Goes(i, IdStage(i)', IdHolder(i)', {})
  BY OthersFit, PoolGoes
<1>2. ASSUME NEW to, IdStage(i)' = to \/ (~Room /\ IdStage(i)' = "lost"), IdHolder(i)' = Nothing
      PROVE  Pool!Sent(i, to)
  BY <1>1, <1>2 DEF Pool!Sent
<1>3. CASE Granted(i)
  <2>1. /\ IdStage(i) = "free" /\ IdHolder(i)' = Nothing
        /\ IdStage(i)' = "granted" \/ (~Room /\ IdStage(i)' = "lost")
    BY <1>3, StageGranted
  <2>2. Pool!Grant(i)
    BY <1>2, <2>1 DEF Pool!Grant
  <2>3. QED
    BY <2>2 DEF Pool!Next
<1>4. CASE SignedOff(i)
  <2>1. /\ IdStage(i) = "held" /\ IdHolder(i)' = Nothing
        /\ IdStage(i)' = "returned" \/ (~Room /\ IdStage(i)' = "lost")
    BY <1>4, StageSignedOff
  <2>2. Pool!SignOff(i)
    BY <1>2, <2>1 DEF Pool!SignOff
  <2>3. QED
    BY <2>2 DEF Pool!Next
<1>5. CASE Claimed(i)
  <2>1. /\ IdStage(i) = "granted" /\ IdStage(i)' = "held"
        /\ IdHolder(i)' \in Clients /\ \A j \in Ids : IdHolder(j) # IdHolder(i)'
    BY <1>5, StageClaimed
  <2>2. PICK c \in Clients : c = IdHolder(i)'
    BY <2>1
  <2>3. Pool!Claim(i, c)
    BY <1>1, <2>1, <2>2 DEF Pool!Claim
  <2>4. QED
    BY <2>3 DEF Pool!Next
<1>6. CASE Freed(i)
  <2>1. IdStage(i) = "returned" /\ IdStage(i)' = "free" /\ IdHolder(i)' = Nothing
    BY <1>6, StageFreed
  <2>2. Pool!Free(i)
    BY <1>1, <2>1 DEF Pool!Free
  <2>3. QED
    BY <2>2 DEF Pool!Next
<1>7. QED
  BY <1>3, <1>4, <1>5, <1>6

LEMMA PoolCloses == ASSUME server' = "done" PROVE Pool!Next
<1>1. \A i \in Ids : IdStage(i)' = "over" /\ IdHolder(i)' = Nothing
  BY DEF IdStage, IdHolder
<1>2. Pool!Close
  BY <1>1 DEF Pool!Close
<1>3. QED
  BY <1>2 DEF Pool!Next

LEMMA PoolStep == ASSUME IInv, IInv', [Next]_vars PROVE Pool!Next \/ UNCHANGED Pool!vars
<1>1. CASE server' = "done"
  BY <1>1, PoolCloses
<1>2. CASE server' # "done"
  <2>1. (\A i \in Ids : StageFits(i)) /\ (\A i \in Ids : StageFits(i)')
    BY <1>2, Staged, StagedNext, DoneStays
  <2>2. CASE OthersStay(NoId)
    <3>1. Ids \ {NoId} = Ids
      BY DEF NoId, Ids
    <3>2. \A j \in Ids : IdHolder(j)' = IdHolder(j) /\ IdStage(j)' = IdStage(j)
      BY <2>1, <2>2, <3>1, OthersFit
    <3>3. QED
      BY <3>2 DEF Pool!vars
  <2>3. Moves
    BY EveryStepMoves DEF IInv
  <2>4. QED
    BY <1>2, <2>1, <2>2, <2>3, PoolMoves DEF Moves
<1>3. QED
  BY <1>1, <1>2

(* The chat goes by IdPool: an id is claimed only after it was granted, and *)
(* is free again only after the client that has it has signed off, with any *)
(* number of clients and ids; a reply or a sign-off that cannot be sent     *)
(* takes its id out of use and no other, until the server ends it all.      *)
THEOREM PoolRefinement == Spec => ImplementsIdPool
<1>1. Init => Pool!Init
  <2> SUFFICES ASSUME Init PROVE Pool!Init
    OBVIOUS
  <2>1. IInv
    BY Initially
  <2>2. \A i \in Ids : IdStage(i) = "free" /\ IdHolder(i) = Nothing
    BY <2>1, Staged DEF StageFits, Init
  <2>3. QED
    BY <2>2 DEF Pool!Init
<1>2. IInv /\ IInv' /\ [Next]_vars => Pool!Next \/ UNCHANGED Pool!vars
  BY PoolStep
<1>3. QED
  BY <1>1, <1>2, InductiveInvariant, PTL DEF Spec, ImplementsIdPool, Pool!Spec, Pool!vars
-----------------------------------------------------------------------------
(* No text gets lost. *)

(* Where text p may be on its way to c: posted, in the server's hand, in    *)
(* c's queue, on its screen; or the send to c failed.                       *)
InPosts(p) ==
    \E n \in 1..Len(queue[MESSAGE_POST_REQUEST]) : queue[MESSAGE_POST_REQUEST][n].text = p
InHandFor(i, p) == server = "forward" /\ handled.text = p /\ i \in todo
InMailOf(i, p) == \E n \in Slots(i) : Text(i, n) = p
Printed(c, p) == \E k \in 1..Len(seen[c]) : seen[c][k] = p
UnderWay(c, p) ==
    \/ InPosts(p) \/ InHandFor(client_id[c], p) \/ InMailOf(client_id[c], p)
    \/ LostFor(c, p) \/ Printed(c, p)

(* As long as there is a queue, a text is on its way to everyone who was in *)
(* the chat when it was posted and has not left or been stopped.            *)
TextsReach ==
    server # "done" =>
        \A p \in 1..Len(posted) : \A c \in posted[p].to :
            client[c] \notin Gone => UnderWay(c, p)

(* Whoever is to read a text has an id of its own.                          *)
ReadersHaveIds ==
    \A p \in 1..Len(posted) : \A c \in posted[p].to :
        client_id[c] \in Ids /\ client_id[c] # client_id[posted[p].by]

(* What a send and a receive leave in the queue.                            *)
Keeps(t) ==
    \A n \in 1..Len(queue[t]) : \E k \in 1..Len(queue'[t]) : queue'[t][k] = queue[t][n]

LEMMA SendKeeps ==
    ASSUME Order, NEW m \in Message, Send(m)
    PROVE  /\ lost \subseteq lost' /\ \A t \in Types : Keeps(t)
           /\ m.type \in Types
           /\ Room => \E k \in 1..Len(queue'[m.type]) : queue'[m.type][k] = m
           /\ ~Room /\ Matters(m) => m \in lost'
<1>1. /\ m.type \in Types
      /\ \A t \in Types \ {m.type} : queue'[t] = queue[t]
      /\ \A n \in 1..Len(queue[m.type]) : queue'[m.type][n] = queue[m.type][n]
      /\ ~Room => queue' = queue
      /\ Room => /\ Len(queue'[m.type]) = Len(queue[m.type]) + 1
                 /\ queue'[m.type][Len(queue[m.type]) + 1] = m
  BY SendQueue DEF Order, TypeOK, Queued, Message
<1>2. Len(queue[m.type]) \in Nat
  BY <1>1 DEF Order, TypeOK
<1>3. lost \subseteq lost' /\ (~Room /\ Matters(m) => m \in lost')
  BY DEF Send
<1>4. ASSUME NEW t \in Types, queue'[t] = queue[t] PROVE Keeps(t)
  BY <1>4 DEF Keeps
<1>5. CASE Room
  <2>1. \A n \in 1..Len(queue[m.type]) : n \in 1..Len(queue'[m.type])
    BY <1>1, <1>2, <1>5
  <2>2. Keeps(m.type)
    BY <1>1, <2>1 DEF Keeps
  <2>3. Len(queue[m.type]) + 1 \in 1..Len(queue'[m.type])
    BY <1>1, <1>2, <1>5
  <2>4. QED
    BY <1>1, <1>3, <1>4, <1>5, <2>2, <2>3
<1>6. CASE ~Room
  BY <1>1, <1>3, <1>4, <1>6
<1>7. QED
  BY <1>5, <1>6

LEMMA ReceiveKeeps ==
    ASSUME Order, NEW t \in Types, Receive(t)
    PROVE  /\ lost' = lost /\ \A s \in Types \ {t} : Keeps(s)
           /\ \A n \in 1..Len(queue[t]) :
                 \/ Received(t) # Nothing /\ queue[t][n] = Received(t)
                 \/ \E k \in 1..Len(queue'[t]) : queue'[t][k] = queue[t][n]
<1>1. /\ queue \in [Types -> Seq(Message)]
      /\ lost' = lost
      /\ \A s \in Types \ {t} : queue'[s] = queue[s]
      /\ queue[t] = <<>> => queue' = queue
      /\ queue[t] # <<>> =>
           /\ Received(t) = queue[t][1] /\ Received(t) # Nothing
           /\ Len(queue'[t]) = Len(queue[t]) - 1
           /\ \A n \in 1..Len(queue'[t]) : queue'[t][n] = queue[t][n + 1]
  BY ReceiveQueue DEF Order, TypeOK, Queued
<1>2. \A s \in Types \ {t} : Keeps(s)
  BY <1>1 DEF Keeps
<1>3. ASSUME NEW n \in 1..Len(queue[t]), n # 1
      PROVE  \E k \in 1..Len(queue'[t]) : queue'[t][k] = queue[t][n]
  <2>1. Len(queue[t]) \in Nat /\ queue[t] # <<>>
    BY <1>1
  <2>2. PICK k : k = n - 1
    OBVIOUS
  <2>3. k \in 1..Len(queue'[t]) /\ k + 1 = n
    BY <1>1, <1>3, <2>1, <2>2
  <2>4. QED
    BY <1>1, <2>1, <2>3
<1>4. ASSUME NEW n \in 1..Len(queue[t]) PROVE queue[t] # <<>>
  BY <1>1, <1>4
<1>5. QED
  BY <1>1, <1>2, <1>3, <1>4

(* Two in the chat have different ids, and those ids are TAKED.             *)
LEMMA InChatApart ==
    ASSUME Order, Ownership
    PROVE  /\ \A c, d \in Clients :
                 /\ client[c] \notin Gone /\ client[d] \notin Gone /\ c # d
                 /\ client_id[c] \in Ids
                 => client_id[c] # client_id[d]
           /\ \A c \in Clients :
                 client[c] \notin Gone /\ client_id[c] \in Ids
                 => client_id[c] \in Taked(client_id_pool)
<1>1. ASSUME NEW c \in Clients, client[c] \notin Gone, client_id[c] \in Ids
      PROVE  /\ c \in Holders(client_id[c]) /\ One(Holders(client_id[c]))
             /\ client_id[c] \in Taked(client_id_pool)
  <2>1. c \in Holders(client_id[c])
    BY <1>1 DEF Holders, Gone
  <2>2. Owned(client_id[c])
    BY <1>1 DEF Ownership
  <2>3. One(Holders(client_id[c])) /\ client_id_pool[client_id[c]] = "TAKED"
    BY <2>1, <2>2 DEF Owned, OwnedOnce, Unowned
  <2>4. QED
    BY <1>1, <2>1, <2>3 DEF Taked
<1>2. ASSUME NEW c \in Clients, NEW d \in Clients, client[c] \notin Gone, client[d] \notin Gone,
             client_id[c] \in Ids, client_id[c] = client_id[d]
      PROVE  c = d
  <2>1. c \in Holders(client_id[c]) /\ d \in Holders(client_id[c]) /\ One(Holders(client_id[c]))
    BY <1>1, <1>2
  <2>2. QED
    BY <2>1 DEF One
<1>3. QED
  BY <1>1, <1>2

(* Who has left or was stopped stays so. *)
LEMMA GoneStays ==
    ASSUME Order, [Next]_vars, NEW c \in Clients, client[c] \in Gone
    PROVE  client'[c] = client[c]
<1>1. client \in [Clients -> ClientStates]
  BY DEF Order, TypeOK
<1>2. ASSUME NEW d \in Clients, NEW from, NEW to, from \notin Gone, ClientGo(d, from, to)
      PROVE  client'[c] = client[c]
  BY <1>1, <1>2 DEF ClientGo
<1>3. CASE ServerStep \/ ServerTypesLine \/ ServerQuits \/ InterruptServer \/ UNCHANGED vars
  BY <1>3 DEF ServerStep, ServerTypesLine, ServerQuits, ServerLoop, StartEndJob, ServerInput,
     ReadRequest, GrantId, DropRequest, ReadPost, ReadOut, Notify, RemoveQueue, ServerNotifies, ServerGo,
     InterruptServer, vars, users
<1>4. ASSUME NEW d \in Clients, ClientStep(d) \/ User(d) PROVE client'[c] = client[c]
  <2>1. \E from, to : from \notin Gone /\ ClientGo(d, from, to)
    BY <1>4 DEF ClientStep, User, LoopExit, RequestId, AwaitId, LoopAgain, ReadMail, ReceiveExit,
       NoInput, SayOut, Attach, TypePost, TypeNothing, TypeQuit, Typing, Gone
  <2>2. QED
    BY <1>2, <2>1
<1>5. ASSUME NEW d \in Clients, InterruptClient(d) \/ KillClient(d) PROVE client'[c] = client[c]
  BY <1>1, <1>5 DEF InterruptClient, KillClient
<1>6. QED
  BY <1>3, <1>4, <1>5 DEF Next
(* A step that leaves posts, texts, screens and the server's hand alone.    *)
Quiet ==
    /\ IdsKept /\ UNCHANGED history /\ lost \subseteq lost'
    /\ Keeps(MESSAGE_POST_REQUEST) /\ \A i \in Ids : Keeps(set_addressee(i))
    /\ server = "forward" => UNCHANGED <<server, handled, todo>>

LEMMA QuietSend ==
    ASSUME Order, NEW m \in Message, Send(m), IdsKept, UNCHANGED history,
           server = "forward" => UNCHANGED <<server, handled, todo>>
    PROVE  Quiet
BY SendKeeps, Addressees DEF Quiet

LEMMA QuietReceive ==
    ASSUME Order, NEW t \in Types, Receive(t), IdsKept, UNCHANGED history,
           t < 5, t # MESSAGE_POST_REQUEST, server = "forward" => UNCHANGED <<server, handled, todo>>
    PROVE  Quiet
<1>1. lost' = lost /\ \A s \in Types \ {t} : Keeps(s)
  BY ReceiveKeeps
<1>2. \A i \in Ids : set_addressee(i) \in Types \ {t}
  BY Addressees
<1>3. QED
  BY <1>1, <1>2, Addressees DEF Quiet

LEMMA QuietSame ==
    ASSUME Order, UNCHANGED <<queue, lost, history>>, IdsKept,
           server = "forward" => UNCHANGED <<server, handled, todo>>
    PROVE  Quiet
BY DEF Quiet, Keeps

LEMMA QuietServer ==
    ASSUME Order, ServerStep \/ ServerTypesLine \/ ServerQuits, server' # "done"
    PROVE  Quiet \/ ReadPost \/ (Notify /\ server = "forward")
<1>a. UNCHANGED <<users, program_exit_flag, signals, history>>
  BY DEF ServerStep, ServerTypesLine, ServerQuits, ServerLoop, StartEndJob, ServerInput, ReadRequest,
     GrantId, DropRequest, ReadPost, ReadOut, Notify, RemoveQueue, ServerNotifies, ServerGo
<1>b. IdsKept
  BY <1>a, ServerKeeps
<1>1. CASE ServerLoop \/ ServerInput \/ ServerTypesLine \/ ServerQuits \/ DropRequest
  <2>1. UNCHANGED <<queue, lost>> /\ server # "forward"
    BY <1>1 DEF ServerLoop, ServerInput, ServerTypesLine, ServerQuits, DropRequest, StartEndJob,
       ServerNotifies, ServerGo
  <2>2. QED
    BY <1>a, <1>b, <2>1, QuietSame
<1>2. CASE RemoveQueue
  BY <1>2 DEF RemoveQueue, ServerGo
<1>3. CASE ReadRequest \/ ReadOut
  <2>1. PICK t \in {MESSAGE_CLIENT_ID_REQUEST, MESSAGE_OUT_CHAT} :
           Receive(t) /\ server # "forward"
    BY <1>3 DEF ReadRequest, ReadOut, ServerGo, ServerNotifies
  <2>2. t \in Types /\ t < 5 /\ t # MESSAGE_POST_REQUEST
    BY Addressees DEF MESSAGE_CLIENT_ID_REQUEST, MESSAGE_OUT_CHAT, MESSAGE_POST_REQUEST
  <2>3. QED
    BY <1>a, <1>b, <2>1, <2>2, QuietReceive
<1>4. CASE GrantId
  <2>1. PICK id, m : /\ id = Least(Ids \ Taked(client_id_pool))
                     /\ m = Msg(MESSAGE_CLIENT_ID_SET, "MESSAGE", Server, SERVER_ID, id)
    OBVIOUS
  <2>2. Send(m) /\ id \in Ids /\ server # "forward"
    BY <1>4, <2>1, FreeTaked DEF GrantId, ServerNotifies, ServerGo
  <2>3. m \in Message
    BY <2>1, <2>2, Addressees DEF Msg, Message, Procs
  <2>4. QED
    BY <1>a, <1>b, <2>2, <2>3, QuietSend
<1>5. CASE Notify /\ server # "forward"
  <2>1. PICK m \in Message : Send(m)
    BY <1>5, FreeTaked, Notices DEF Notify, Order, InHand
  <2>2. QED
    BY <1>5, <1>a, <1>b, <2>1, QuietSend
<1>6. QED
  BY <1>1, <1>2, <1>3, <1>4, <1>5 DEF ServerStep

LEMMA QuietClient ==
    ASSUME Order, NEW c \in Clients,
           ClientStep(c) \/ User(c) \/ InterruptClient(c) \/ KillClient(c)
    PROVE  Quiet \/ ReadMail(c) \/ TypePost(c)
<1>a. client_id \in [Clients -> Ids \cup {NoId}] /\ (client[c] = "await" => client_id[c] = NoId)
  BY DEF Order, TypeOK, Registered
<1>1. CASE LoopExit(c) \/ LoopAgain(c) \/ ReceiveExit(c) \/ NoInput(c) \/ Attach(c)
           \/ TypeNothing(c) \/ TypeQuit(c)
  <2>1. UNCHANGED <<queue, lost, client_id, history, server, todo, handled>>
    BY <1>1 DEF LoopExit, LoopAgain, ReceiveExit, NoInput, Attach, TypeNothing, TypeQuit, ClientGo
  <2>2. QED
    BY <2>1, QuietSame DEF IdsKept
<1>2. CASE InterruptClient(c) \/ KillClient(c)
  BY <1>2, QuietSame DEF InterruptClient, KillClient, IdsKept
<1>3. CASE RequestId(c)
  <2>1. PICK m : m = Msg(MESSAGE_CLIENT_ID_REQUEST, "IN", c, NoId, c)
    OBVIOUS
  <2>2. Send(m) /\ UNCHANGED <<client_id, history, server, todo, handled>>
    BY <1>3, <2>1 DEF RequestId, ClientGo
  <2>3. m \in Message
    BY <2>1, Addressees DEF Msg, Message, Procs
  <2>4. QED
    BY <2>2, <2>3, QuietSend DEF IdsKept
<1>4. CASE AwaitId(c)
  <2>1. /\ Receive(MESSAGE_CLIENT_ID_SET) /\ client_id[c] = NoId
        /\ \A d \in Clients \ {c} : client_id'[d] = client_id[d]
        /\ UNCHANGED <<history, server, todo, handled>>
    BY <1>a, <1>4 DEF AwaitId, ClientGo
  <2>2. MESSAGE_CLIENT_ID_SET \in Types /\ MESSAGE_CLIENT_ID_SET < 5
        /\ MESSAGE_CLIENT_ID_SET # MESSAGE_POST_REQUEST
    BY Addressees DEF MESSAGE_CLIENT_ID_SET, MESSAGE_POST_REQUEST
  <2>3. IdsKept
    BY <2>1 DEF IdsKept
  <2>4. QED
    BY <2>1, <2>2, <2>3, QuietReceive
<1>5. CASE SayOut(c)
  <2>1. PICK m : m = Msg(MESSAGE_OUT_CHAT, "OUT", c, client_id[c], c)
    OBVIOUS
  <2>2. Send(m) /\ UNCHANGED <<client_id, history, server, todo, handled>>
    BY <1>5, <2>1 DEF SayOut, ClientGo
  <2>3. m \in Message
    BY <1>a, <2>1, Addressees DEF Msg, Message, Procs
  <2>4. QED
    BY <2>2, <2>3, QuietSend DEF IdsKept
<1>6. QED
  BY <1>1, <1>2, <1>3, <1>4, <1>5 DEF ClientStep, User

(* A text that is under way stays so, step by step.                         *)
LEMMA ReachQuiet ==
    ASSUME Quiet, NEW c \in Clients, client_id[c] \in Ids, NEW p, UnderWay(c, p)
    PROVE  UnderWay(c, p)'
<1>1. PICK i \in Ids : i = client_id[c]
  OBVIOUS
<1>2. client_id'[c] = i
  BY <1>1 DEF Quiet, IdsKept, NoId, Ids
<1>3. InPosts(p) => InPosts(p)'
  BY DEF Quiet, Keeps, InPosts
<1>4. InMailOf(i, p) => InMailOf(i, p)'
  BY DEF Quiet, Keeps, InMailOf, Slots, Text
<1>5. InHandFor(i, p) => InHandFor(i, p)'
  BY DEF Quiet, InHandFor
<1>6. Printed(c, p) => Printed(c, p)'
  BY DEF Quiet, Printed, history
<1>7. LostFor(c, p) => LostFor(c, p)'
  BY <1>1, <1>2 DEF Quiet, LostFor
<1>8. QED
  BY <1>1, <1>2, <1>3, <1>4, <1>5, <1>6, <1>7 DEF UnderWay

(* The server takes a post in hand for everyone who has another id.         *)
LEMMA ReachReadPost ==
    ASSUME Order, Ownership, ReadPost, NEW c \in Clients, client_id[c] \in Ids,
           client[c] \notin Gone,
           NEW p \in 1..Len(posted), client_id[posted[p].by] # client_id[c], UnderWay(c, p)
    PROVE  UnderWay(c, p)'
<1>1. PICK i, m : i \in Ids /\ i = client_id[c] /\ m = Received(MESSAGE_POST_REQUEST)
  OBVIOUS
<1>2. /\ Receive(MESSAGE_POST_REQUEST) /\ MESSAGE_POST_REQUEST \in Types /\ server = "posts"
      /\ UNCHANGED <<client_id, seen, lost>>
      /\ m # Nothing => ServerNotifies("posts", "forward", m, Readers(m))
  BY <1>1, Addressees DEF ReadPost, ServerGo, ServerNotifies, users, history, Receive
<1>3. InMailOf(i, p) => InMailOf(i, p)'
  <2>1. Keeps(set_addressee(i))
    <3>1. set_addressee(i) \in Types \ {MESSAGE_POST_REQUEST}
      BY <1>1, Addressees DEF MESSAGE_POST_REQUEST
    <3>2. \A s \in Types \ {MESSAGE_POST_REQUEST} : Keeps(s)
      BY <1>2, ReceiveKeeps
    <3>3. QED
      BY <3>1, <3>2
  <2>2. QED
    BY <2>1 DEF Keeps, InMailOf, Slots, Text
<1>4. /\ ~InHandFor(i, p)
      /\ Printed(c, p) => Printed(c, p)'
      /\ LostFor(c, p) => LostFor(c, p)'
  BY <1>2 DEF InHandFor, Printed, LostFor
<1>5. ASSUME InPosts(p) PROVE InPosts(p)' \/ InHandFor(i, p)'
  <2>1. PICK n \in 1..Len(queue[MESSAGE_POST_REQUEST]) : queue[MESSAGE_POST_REQUEST][n].text = p
    BY <1>5 DEF InPosts
  <2>2. \/ m # Nothing /\ queue[MESSAGE_POST_REQUEST][n] = m
        \/ \E k \in 1..Len(queue'[MESSAGE_POST_REQUEST]) :
              queue'[MESSAGE_POST_REQUEST][k] = queue[MESSAGE_POST_REQUEST][n]
    BY <1>1, <1>2, ReceiveKeeps
  <2>3. CASE \E k \in 1..Len(queue'[MESSAGE_POST_REQUEST]) :
                queue'[MESSAGE_POST_REQUEST][k] = queue[MESSAGE_POST_REQUEST][n]
    BY <2>1, <2>3 DEF InPosts
  <2>4. CASE m # Nothing /\ queue[MESSAGE_POST_REQUEST][n] = m
    <3>1. m.text = p /\ Shaped(m) /\ m.type = MESSAGE_POST_REQUEST
      BY <1>2, <2>1, <2>4 DEF Order, AllShaped, TypeOK
    <3>2. m.sender_id = client_id[posted[p].by]
      BY <3>1 DEF Shaped
    <3>3. i \in Readers(m)
      BY <1>1, <3>2, InChatApart DEF Readers
    <3>4. server' = "forward" /\ todo' = Readers(m) /\ handled' = m
      BY <1>2, <2>4, <3>3 DEF ServerNotifies, ServerGo
    <3>5. QED
      BY <3>1, <3>3, <3>4 DEF InHandFor
  <2>5. QED
    BY <2>2, <2>3, <2>4
<1>6. QED
  BY <1>1, <1>2, <1>3, <1>4, <1>5 DEF UnderWay

(* It sends the text to the least of those ids, or that send fails.         *)
LEMMA ReachForward ==
    ASSUME Order, Notify, server = "forward", NEW c \in Clients, client_id[c] \in Ids,
           NEW p, UnderWay(c, p)
    PROVE  UnderWay(c, p)'
<1>1. PICK i, l, m : i \in Ids /\ i = client_id[c] /\ l = Least(todo) /\ m = Notice(l)
  OBVIOUS
<1>2. /\ Send(m) /\ ServerNotifies(server, server, handled, todo \ {l})
      /\ UNCHANGED <<client_id, seen>>
  BY <1>1 DEF Notify, ServerNotifies, ServerGo, users, history
<1>3. m \in Message /\ m.type = set_addressee(l) /\ l \in Ids
      /\ m.kind = "MESSAGE" /\ m.text = handled.text
  BY <1>1, FreeTaked, Notices, Addressees DEF Notice, Msg, Order, InHand, Notify
<1>4. /\ lost \subseteq lost' /\ \A t \in Types : Keeps(t)
      /\ Room => \E k \in 1..Len(queue'[m.type]) : queue'[m.type][k] = m
      /\ ~Room => m \in lost'
  <2>1. Matters(m)
    BY <1>3, MqAssumption DEF Matters, set_addressee, Ids, MESSAGE_MAGIC_NUMBER
  <2>2. QED
    BY <1>2, <1>3, <2>1, SendKeeps
<1>5. /\ InPosts(p) => InPosts(p)'
      /\ Printed(c, p) => Printed(c, p)'
      /\ LostFor(c, p) => LostFor(c, p)'
  <2>1. Keeps(MESSAGE_POST_REQUEST)
    BY <1>4, Addressees
  <2>2. InPosts(p) => InPosts(p)'
    BY <2>1 DEF Keeps, InPosts
  <2>3. Printed(c, p) => Printed(c, p)'
    BY <1>2 DEF Printed
  <2>4. LostFor(c, p) => LostFor(c, p)'
    BY <1>2, <1>4 DEF LostFor
  <2>5. QED
    BY <2>2, <2>3, <2>4
<1>6. InMailOf(i, p) => InMailOf(i, p)'
  <2>1. Keeps(set_addressee(i))
    BY <1>1, <1>4, Addressees
  <2>2. QED
    BY <2>1 DEF Keeps, InMailOf, Slots, Text
<1>7. ASSUME InHandFor(i, p), i # l PROVE InHandFor(i, p)'
  BY <1>2, <1>7 DEF InHandFor, ServerNotifies, ServerGo
<1>8. ASSUME InHandFor(i, p), i = l PROVE InMailOf(i, p)' \/ LostFor(c, p)'
  <2>1. m.text = p /\ m.type = set_addressee(i) /\ m.kind = "MESSAGE"
    BY <1>3, <1>8 DEF InHandFor
  <2>2. CASE Room
    BY <1>4, <2>1, <2>2 DEF InMailOf, Slots, Text
  <2>3. CASE ~Room
    BY <1>1, <1>2, <1>4, <2>1, <2>3 DEF LostFor
  <2>4. QED
    BY <2>2, <2>3
<1>9. QED
  BY <1>1, <1>2, <1>5, <1>6, <1>7, <1>8 DEF UnderWay

(* It is the reader itself who takes the text out of its queue.             *)
LEMMA ReachReadMail ==
    ASSUME Order, Ownership, NEW d \in Clients, ReadMail(d), NEW c \in Clients,
           client_id[c] \in Ids, client[c] \notin Gone, NEW p, UnderWay(c, p)
    PROVE  UnderWay(c, p)'
<1>1. PICK i, t, m : /\ i \in Ids /\ i = client_id[c]
                     /\ t = set_addressee(client_id[d]) /\ m = Received(t)
  OBVIOUS
<1>2. /\ client[d] = "receive" /\ Receive(t)
      /\ seen' = IF m # Nothing /\ m.kind = "MESSAGE"
                   THEN [seen EXCEPT ![d] = Append(seen[d], m.text)] ELSE seen
      /\ UNCHANGED <<client_id, posted, server, handled, todo>>
  BY <1>1 DEF ReadMail, ClientGo
<1>3. client_id[d] \in Ids /\ t \in Types /\ t > 4
  BY <1>1, <1>2, Addressees DEF Order, TypeOK, Registered
<1>4. /\ lost' = lost /\ \A s \in Types \ {t} : Keeps(s)
      /\ \A n \in 1..Len(queue[t]) :
            \/ m # Nothing /\ queue[t][n] = m
            \/ \E k \in 1..Len(queue'[t]) : queue'[t][k] = queue[t][n]
  BY <1>1, <1>2, <1>3, ReceiveKeeps
<1>5. /\ InPosts(p) => InPosts(p)'
      /\ InHandFor(i, p) => InHandFor(i, p)'
      /\ LostFor(c, p) => LostFor(c, p)'
  <2>1. MESSAGE_POST_REQUEST \in Types \ {t}
    BY <1>3, Addressees DEF MESSAGE_POST_REQUEST
  <2>2. Keeps(MESSAGE_POST_REQUEST)
    BY <1>4, <2>1
  <2>3. InPosts(p) => InPosts(p)'
    BY <2>2 DEF Keeps, InPosts
  <2>4. QED
    BY <1>2, <1>4, <2>3 DEF InHandFor, LostFor
<1>6. PICK s : s = seen[d] /\ s \in Seq(Texts) /\ Len(s) \in Nat
  <2>1. seen[d] \in Seq(Texts)
    BY DEF Order, TypeOK
  <2>2. Len(seen[d]) \in Nat
    BY <2>1
  <2>3. QED
    BY <2>1, <2>2
<1>7. ASSUME m # Nothing, m.kind = "MESSAGE"
      PROVE  /\ seen'[d] = Append(s, m.text) /\ Len(seen'[d]) = Len(s) + 1
             /\ seen'[d][Len(s) + 1] = m.text /\ \A k \in 1..Len(s) : seen'[d][k] = s[k]
             /\ \A e \in Clients \ {d} : seen'[e] = seen[e]
  <2>1. m.text \in Texts
    <3>1. \E n \in 1..Len(queue[t]) : queue[t][n] = m
      BY <1>1, <1>2, <1>3, <1>7, ReceiveQueue DEF Order, TypeOK, Queued
    <3>2. Shaped(m) /\ m.type = t
      BY <1>3, <3>1 DEF Order, AllShaped, TypeOK
    <3>3. m.text \in 1..Len(posted) /\ Len(posted) \in Nat /\ Len(posted) <= MaxPosts
      BY <1>1, <1>3, <1>7, <3>2, TextsNumbered DEF Shaped, Order, TypeOK
    <3>4. QED
      BY <3>3, MqAssumption DEF Texts
  <2>2. seen' = [seen EXCEPT ![d] = Append(s, m.text)] /\ seen \in [Clients -> Seq(Texts)]
    BY <1>2, <1>6, <1>7 DEF Order, TypeOK
  <2>3. seen'[d] = Append(s, m.text) /\ \A e \in Clients \ {d} : seen'[e] = seen[e]
    BY <2>2
  <2>4. /\ Len(Append(s, m.text)) = Len(s) + 1 /\ Append(s, m.text)[Len(s) + 1] = m.text
        /\ \A k \in 1..Len(s) : Append(s, m.text)[k] = s[k]
    BY <1>6, <2>1, AppendProperties
  <2>5. QED
    BY <2>3, <2>4
<1>8. Printed(c, p) => Printed(c, p)'
  <2>1. CASE m # Nothing /\ m.kind = "MESSAGE"
    <3>1. CASE c = d
      <4>1. \A k \in 1..Len(s) : k \in 1..Len(seen'[d])
        BY <1>6, <1>7, <2>1
      <4>2. QED
        BY <1>6, <1>7, <2>1, <3>1, <4>1 DEF Printed
    <3>2. CASE c # d
      BY <1>7, <2>1, <3>2 DEF Printed
    <3>3. QED
      BY <3>1, <3>2
  <2>2. CASE ~(m # Nothing /\ m.kind = "MESSAGE")
    BY <1>2, <2>2 DEF Printed
  <2>3. QED
    BY <2>1, <2>2
<1>9. InMailOf(i, p) => InMailOf(i, p)' \/ Printed(c, p)'
  <2>1. CASE c # d
    <3>1. client_id[d] # i
      BY <1>1, <1>2, <2>1, InChatApart DEF Gone
    <3>2. set_addressee(i) \in Types \ {t}
      BY <1>1, <1>3, <3>1, Addressees
    <3>3. Keeps(set_addressee(i))
      BY <1>4, <3>2
    <3>4. QED
      BY <3>3 DEF Keeps, InMailOf, Slots, Text
  <2>2. CASE c = d
    <3>1. ASSUME NEW n \in 1..Len(queue[t]), queue[t][n].kind = "MESSAGE", queue[t][n].text = p
          PROVE  InMailOf(i, p)' \/ Printed(c, p)'
      <4>1. CASE m # Nothing /\ queue[t][n] = m
        <5>1. seen'[d][Len(s) + 1] = p /\ Len(s) + 1 \in 1..Len(seen'[d])
          BY <1>6, <1>7, <3>1, <4>1
        <5>2. QED
          BY <2>2, <5>1 DEF Printed
      <4>2. CASE \E k \in 1..Len(queue'[t]) : queue'[t][k] = queue[t][n]
        BY <1>1, <2>2, <3>1, <4>2 DEF InMailOf, Slots, Text
      <4>3. QED
        BY <1>4, <4>1, <4>2
    <3>2. QED
      BY <1>1, <2>2, <3>1 DEF InMailOf, Slots, Text
  <2>3. QED
    BY <2>1, <2>2
<1>10. QED
  BY <1>1, <1>2, <1>5, <1>8, <1>9 DEF UnderWay

(* A new text is among the posts, and its readers have other ids than its   *)
(* writer.                                                                  *)
NewText(p) ==
    /\ InPosts(p)
    /\ \A d \in posted[p].to : client_id[d] \in Ids /\ client_id[d] # client_id[posted[p].by]

LEMMA ReachTypePost ==
    ASSUME Order, Ownership, NEW c \in Clients, TypePost(c)
    PROVE  /\ \A d \in Clients : client_id[d] \in Ids => \A p : UnderWay(d, p) => UnderWay(d, p)'
           /\ \A p \in 1..Len(posted') :
                 (p \in 1..Len(posted) /\ posted'[p] = posted[p]) \/ NewText(p)'
<1>1. PICK l, m, r : /\ l = Len(posted) + 1
                     /\ m = Msg(MESSAGE_POST_REQUEST, "MESSAGE", c, client_id[c], l)
                     /\ r = [by |-> c, to |-> {d \in Clients \ {c} : InChat(d)}]
  OBVIOUS
<1>2. /\ Send(m) /\ posted' = IF Room THEN Append(posted, r) ELSE posted
      /\ l <= MaxPosts /\ client[c] \in {"input", "gets"}
      /\ UNCHANGED <<client_id, seen, server, handled, todo>>
  BY <1>1 DEF TypePost, ClientGo, Typing
<1>3. Len(posted) \in Nat /\ posted \in Seq([by : Clients, to : SUBSET Clients])
  BY DEF Order, TypeOK
<1>4. r \in [by : Clients, to : SUBSET Clients] /\ r.by = c
  BY <1>1
<1>5. client_id \in [Clients -> Ids \cup {NoId}] /\ client_id[c] \in Ids /\ client[c] \notin Gone
  BY <1>2 DEF Order, TypeOK, Registered, Gone
<1>6. m \in Message /\ m.type = MESSAGE_POST_REQUEST /\ m.text = l
  BY <1>1, <1>2, <1>3, <1>5, Addressees, MqAssumption DEF Msg, Message, Procs, Texts
<1>7. /\ lost \subseteq lost' /\ \A t \in Types : Keeps(t)
      /\ Room => \E k \in 1..Len(queue'[m.type]) : queue'[m.type][k] = m
  BY <1>2, <1>6, SendKeeps
<1>8. ASSUME NEW d \in Clients, client_id[d] \in Ids, NEW p, UnderWay(d, p) PROVE UnderWay(d, p)'
  <2>1. InPosts(p) => InPosts(p)'
    <3>1. Keeps(MESSAGE_POST_REQUEST)
      BY <1>7, Addressees
    <3>2. QED
      BY <3>1 DEF Keeps, InPosts
  <2>2. InMailOf(client_id[d], p) => InMailOf(client_id[d], p)'
    <3>1. Keeps(set_addressee(client_id[d])) /\ client_id'[d] = client_id[d]
      BY <1>2, <1>7, <1>8, Addressees
    <3>2. PICK i : i = client_id[d] /\ i = client_id'[d]
      BY <3>1
    <3>3. InMailOf(i, p) => InMailOf(i, p)'
      BY <3>1, <3>2 DEF Keeps, InMailOf, Slots, Text
    <3>4. QED
      BY <3>2, <3>3 DEF InMailOf, Slots, Text
  <2>3. InHandFor(client_id[d], p) => InHandFor(client_id[d], p)'
    BY <1>2 DEF InHandFor
  <2>4. Printed(d, p) => Printed(d, p)'
    BY <1>2 DEF Printed
  <2>5. LostFor(d, p) => LostFor(d, p)'
    BY <1>2, <1>7 DEF LostFor
  <2>6. QED
    BY <1>8, <2>1, <2>2, <2>3, <2>4, <2>5 DEF UnderWay
<1>9. CASE ~Room
  BY <1>2, <1>8, <1>9
<1>10. CASE Room
  <2>1. /\ Len(posted') = Len(posted) + 1 /\ posted'[l] = r
        /\ \A p \in 1..Len(posted) : posted'[p] = posted[p]
    BY <1>1, <1>2, <1>3, <1>4, <1>10, AppendProperties
  <2>2. ASSUME NEW d \in r.to PROVE client_id[d] \in Ids /\ client_id[d] # client_id[c]
    <3>1. d \in Clients /\ d # c /\ client[d] \notin Gone /\ client_id[d] \in Ids
      BY <1>1, <1>5, <2>2 DEF InChat
    <3>2. QED
      BY <1>5, <3>1, InChatApart
  <2>3. NewText(l)'
    <3>1. InPosts(l)'
      BY <1>6, <1>7, <1>10 DEF InPosts
    <3>2. QED
      BY <1>2, <1>4, <2>1, <2>2, <3>1 DEF NewText
  <2>4. \A p \in 1..Len(posted') : p \in 1..Len(posted) \/ p = l
    BY <1>1, <1>3, <2>1
  <2>5. QED
    BY <1>8, <2>1, <2>3, <2>4
<1>11. QED
  BY <1>9, <1>10

(* Only a client that posts adds a text.                                    *)
LEMMA PostsSame ==
    ASSUME Order, [Next]_vars, \A c \in Clients : ~TypePost(c) PROVE posted' = posted
<1>1. CASE ServerStep \/ ServerTypesLine \/ ServerQuits \/ InterruptServer \/ UNCHANGED vars
  BY <1>1 DEF ServerStep, ServerTypesLine, ServerQuits, ServerLoop, StartEndJob, ServerInput,
     ReadRequest, GrantId, DropRequest, ReadPost, ReadOut, Notify, RemoveQueue, ServerNotifies, ServerGo,
     InterruptServer, vars, history
<1>2. ASSUME NEW d \in Clients, ClientStep(d) \/ User(d) \/ InterruptClient(d) \/ KillClient(d)
      PROVE  posted' = posted
  BY <1>2 DEF ClientStep, User, LoopExit, RequestId, AwaitId, LoopAgain, ReadMail, ReceiveExit,
     NoInput, SayOut, Attach, TypeNothing, TypeQuit, InterruptClient, KillClient, history
<1>3. QED
  BY <1>1, <1>2 DEF Next

(* Whoever has an id keeps it.                                              *)
LEMMA IdsStay == ASSUME Order, [Next]_vars PROVE IdsKept
<1>1. client_id \in [Clients -> Ids \cup {NoId}] /\ \A c \in Clients : client[c] = "await" => client_id[c] = NoId
  BY DEF Order, TypeOK, Registered
<1>2. CASE ServerStep \/ ServerTypesLine \/ ServerQuits \/ InterruptServer \/ UNCHANGED vars
  <2>1. client_id' = client_id
    BY <1>2 DEF ServerStep, ServerTypesLine, ServerQuits, ServerLoop, StartEndJob, ServerInput,
       ReadRequest, GrantId, DropRequest, ReadPost, ReadOut, Notify, RemoveQueue, ServerNotifies,
       ServerGo, InterruptServer, vars, users
  <2>2. QED
    BY <2>1 DEF IdsKept
<1>3. ASSUME NEW c \in Clients, AwaitId(c) PROVE IdsKept
  BY <1>1, <1>3 DEF AwaitId, IdsKept
<1>4. ASSUME NEW c \in Clients, ClientStep(c) \/ User(c) \/ InterruptClient(c) \/ KillClient(c)
      PROVE  IdsKept
  <2>1. AwaitId(c) \/ client_id' = client_id
    BY <1>4 DEF ClientStep, User, LoopExit, RequestId, LoopAgain, ReadMail, ReceiveExit,
       NoInput, SayOut, Attach, TypePost, TypeNothing, TypeQuit, InterruptClient, KillClient
  <2>2. QED
    BY <1>3, <2>1 DEF IdsKept
<1>5. QED
  BY <1>2, <1>3, <1>4 DEF Next

LEMMA UnderWayStays ==
    ASSUME Order, Ownership, [Next]_vars, server' # "done", NEW c \in Clients,
           client_id[c] \in Ids, client[c] \notin Gone,
           NEW p \in 1..Len(posted), client_id[posted[p].by] # client_id[c], UnderWay(c, p)
    PROVE  UnderWay(c, p)'
<1>1. CASE ServerStep \/ ServerTypesLine \/ ServerQuits
  BY <1>1, QuietServer, ReachQuiet, ReachReadPost, ReachForward
<1>2. CASE InterruptServer \/ UNCHANGED vars
  <2>1. /\ UNCHANGED <<queue, lost, history, client_id>>
        /\ server = "forward" => UNCHANGED <<server, handled, todo>>
    BY <1>2 DEF InterruptServer, vars, users
  <2>2. QED
    BY <2>1, QuietSame, ReachQuiet DEF IdsKept
<1>3. ASSUME NEW d \in Clients, ClientStep(d) \/ User(d) \/ InterruptClient(d) \/ KillClient(d)
      PROVE  UnderWay(c, p)'
  BY <1>3, QuietClient, ReachQuiet, ReachReadMail, ReachTypePost
<1>4. QED
  BY <1>1, <1>2, <1>3 DEF Next

LEMMA ReachStep ==
    ASSUME Order, Ownership, Flow, TextsReach, ReadersHaveIds, [Next]_vars
    PROVE  TextsReach' /\ ReadersHaveIds'
<1>1. \A p \in 1..Len(posted') :
         (p \in 1..Len(posted) /\ posted'[p] = posted[p]) \/ NewText(p)'
  BY PostsSame, ReachTypePost
<1>2. \A p \in 1..Len(posted) : posted[p].by \in Clients /\ posted[p].to \subseteq Clients
  <2>1. posted \in Seq([by : Clients, to : SUBSET Clients])
    BY DEF Order, TypeOK
  <2>2. \A p \in 1..Len(posted) : posted[p] \in [by : Clients, to : SUBSET Clients]
    BY <2>1, ElementOfSeq
  <2>3. QED
    BY <2>2
<1>3. IdsKept
  BY IdsStay
<1>4. client_id \in [Clients -> Ids \cup {NoId}] /\ NoId \notin Ids
  BY DEF Order, TypeOK, NoId, Ids
<1>5. ReadersHaveIds'
  <2>1. ASSUME NEW p \in 1..Len(posted'), NEW c \in posted'[p].to
        PROVE  client_id'[c] \in Ids /\ client_id'[c] # client_id'[posted'[p].by]
    <3>1. CASE NewText(p)'
      BY <2>1, <3>1 DEF NewText
    <3>2. CASE p \in 1..Len(posted) /\ posted'[p] = posted[p]
      <4>1. PICK w : w = posted[p].by /\ w \in Clients /\ c \in Clients
        BY <1>2, <2>1, <3>2
      <4>2. client_id[c] \in Ids /\ client_id[w] \in Ids /\ client_id[c] # client_id[w]
        BY <2>1, <3>2, <4>1 DEF ReadersHaveIds, Flow, WritersHaveIds
      <4>3. QED
        BY <1>3, <1>4, <3>2, <4>1, <4>2 DEF IdsKept
    <3>3. QED
      BY <1>1, <3>1, <3>2
  <2>2. QED
    BY <2>1 DEF ReadersHaveIds
<1>6. TextsReach'
  <2>1. ASSUME server' # "done", NEW p \in 1..Len(posted'), NEW c \in posted'[p].to,
               client'[c] \notin Gone
        PROVE  UnderWay(c, p)'
    <3>1. CASE NewText(p)'
      BY <3>1 DEF NewText, UnderWay
    <3>2. CASE p \in 1..Len(posted) /\ posted'[p] = posted[p]
      <4>1. c \in Clients /\ server # "done" /\ c \in posted[p].to
        BY <1>2, <2>1, <3>2, DoneStays
      <4>2. client[c] \notin Gone
        BY <2>1, <4>1, GoneStays
      <4>3. UnderWay(c, p) /\ client_id[c] \in Ids /\ client_id[posted[p].by] # client_id[c]
        BY <3>2, <4>1, <4>2 DEF TextsReach, ReadersHaveIds
      <4>4. QED
        BY <2>1, <3>2, <4>1, <4>2, <4>3, UnderWayStays
    <3>3. QED
      BY <1>1, <3>1, <3>2
  <2>2. QED
    BY <2>1 DEF TextsReach
<1>7. QED
  BY <1>5, <1>6

(* While the queue is there, a text posted is among the posts, in the       *)
(* server's hand, in the reader's mail or on its screen, unless the send to *)
(* that reader failed: the safety half of Delivered, of all who were in the *)
(* chat at the time and are still in it (run_server's forwarding,           *)
(* run_client's inner loop, IPC_NOWAIT).                                    *)
THEOREM TextsAlwaysReach == Spec => []TextsReach
<1>1. Init => TextsReach /\ ReadersHaveIds
  <2>1. ASSUME Init PROVE 1..Len(posted) = {}
    BY <2>1 DEF Init
  <2>2. QED
    BY <2>1 DEF TextsReach, ReadersHaveIds
<1>2. IInv /\ TextsReach /\ ReadersHaveIds /\ [Next]_vars => TextsReach' /\ ReadersHaveIds'
  BY ReachStep DEF IInv
<1>3. QED
  BY <1>1, <1>2, InductiveInvariant, PTL DEF Spec

-----------------------------------------------------------------------------
(* Everyone is told that the server stops. *)

FinalNotice(i) == Msg(set_addressee(i), "OUT", Server, SERVER_ID, Nothing)
Ending == {"endjob", "remove", "cut"}

(* The notice to id i is unread, or it could not be sent.                   *)
Waiting(i) ==
    \/ \E n \in 1..Len(queue[set_addressee(i)]) : queue[set_addressee(i)][n] = FinalNotice(i)
    \/ FinalNotice(i) \in lost

(* An id that is TAKED is still to be notified, or its notice waits, or its *)
(* client has read it.                                                      *)
Notified(i) ==
    (server = "endjob" /\ i \in todo) \/ Waiting(i) \/ \E c \in Holders(i) : client[c] = "ended"
EveryIdTold == server \in Ending => \A i \in Taked(client_id_pool) : Notified(i)

(* Once the server has notified everyone, the notice waits for each client  *)
(* that still runs and has an id, and for each that has yet to read its     *)
(* reply, unless it could not be sent.                                      *)
NobodyForgotten ==
    server \in {"remove", "cut"} =>
        /\ \A c \in Clients : client_id[c] # NoId /\ client[c] \notin Gone => Waiting(client_id[c])
        /\ \A i \in Ids : Replied(i) => Waiting(i)

KeepsMail == lost \subseteq lost' /\ \A i \in Ids : Keeps(set_addressee(i))

LEMMA TypePostKeepsMail ==
    ASSUME Order, NEW c \in Clients, TypePost(c) PROVE KeepsMail
<1>1. PICK l, m : /\ l = Len(posted) + 1
                  /\ m = Msg(MESSAGE_POST_REQUEST, "MESSAGE", c, client_id[c], l)
  OBVIOUS
<1>2. Send(m) /\ l <= MaxPosts /\ client[c] \in {"input", "gets"}
  BY <1>1 DEF TypePost, ClientGo, Typing
<1>3. Len(posted) \in Nat /\ client_id[c] \in Ids
  BY <1>2 DEF Order, TypeOK, Registered
<1>4. m \in Message
  BY <1>1, <1>2, <1>3, Addressees, MqAssumption DEF Msg, Message, Procs, Texts
<1>5. QED
  BY <1>2, <1>4, SendKeeps, Addressees DEF KeepsMail

LEMMA EndedStays ==
    ASSUME Order, [Next]_vars, NEW i \in Ids, \E c \in Holders(i) : client[c] = "ended"
    PROVE  \E c \in Holders(i)' : client'[c] = "ended"
<1>1. PICK c \in Clients : client_id[c] = i /\ client[c] = "ended"
  BY DEF Holders
<1>2. client'[c] = "ended"
  BY <1>1, GoneStays DEF Gone
<1>3. client_id'[c] = i
  BY <1>1, IdsStay DEF IdsKept, NoId, Ids
<1>4. c \in Holders(i)'
  BY <1>2, <1>3 DEF Holders
<1>5. QED
  BY <1>2, <1>4

LEMMA NotifiedKeeps ==
    ASSUME Order, [Next]_vars, KeepsMail, NEW i \in Ids, Notified(i),
           server = "endjob" => UNCHANGED <<server, todo>>
    PROVE  Notified(i)'
<1>1. Waiting(i) => Waiting(i)'
  BY DEF KeepsMail, Keeps, Waiting, FinalNotice
<1>2. QED
  BY <1>1, EndedStays DEF Notified

(* The job is begun for every id that is TAKED, and then the pool stays.    *)
LEMMA EndingStarts ==
    ASSUME Order, [Next]_vars, server' \in Ending, server \notin Ending
    PROVE  \E from : StartEndJob(from)
<1>1. \A from, loop, m, ids : ServerNotifies(from, loop, m, ids) /\ loop \in {"announce", "forward", "farewell"}
         => server' \notin Ending
  BY DEF ServerNotifies, ServerGo, AfterNotifying, Ending
<1>2. \A from, to : ServerGo(from, to) => server' = to /\ server = from
  BY DEF ServerGo
<1>3. CASE ReadRequest \/ GrantId \/ DropRequest \/ ReadPost \/ ReadOut \/ ServerInput \/ ServerTypesLine
           \/ RemoveQueue
  BY <1>1, <1>2, <1>3 DEF ReadRequest, GrantId, DropRequest, ReadPost, ReadOut, ServerInput,
     ServerTypesLine, RemoveQueue, Ending
<1>4. CASE Notify
  BY <1>1, <1>4 DEF Notify, Notifying, Ending
<1>5. CASE ServerLoop \/ ServerQuits
  BY <1>2, <1>5 DEF ServerLoop, ServerQuits, Ending
<1>6. CASE InterruptServer \/ UNCHANGED vars
  BY <1>6 DEF InterruptServer, AfterInterrupt, vars, Ending
<1>7. ASSUME NEW c \in Clients, ClientStep(c) \/ User(c) \/ InterruptClient(c) \/ KillClient(c)
      PROVE  server' = server
  BY <1>7 DEF ClientStep, User, InterruptClient, KillClient, LoopExit, RequestId, AwaitId, LoopAgain,
     ReadMail, ReceiveExit, NoInput, SayOut, Attach, TypeNothing, TypeQuit, TypePost, ClientGo
<1>8. QED
  BY <1>3, <1>4, <1>5, <1>6, <1>7 DEF Next, ServerStep

LEMMA NotifiedReadMail ==
    ASSUME Order, [Next]_vars, NEW d \in Clients, ReadMail(d), NEW i \in Ids, Notified(i)
    PROVE  Notified(i)'
<1>1. PICK j, t, m : j = client_id[d] /\ t = set_addressee(j) /\ m = Received(t)
  OBVIOUS
<1>2. /\ client[d] = "receive" /\ Receive(t) /\ UNCHANGED <<client_id, server, todo>>
      /\ m # Nothing /\ m.kind = "OUT" /\ m.sender_name = Server => ClientGo(d, "receive", "ended")
  BY <1>1 DEF ReadMail, ClientGo
<1>3. j \in Ids /\ t \in Types
  BY <1>1, <1>2, Addressees DEF Order, TypeOK, Registered
<1>4. /\ lost' = lost /\ \A s \in Types \ {t} : Keeps(s)
      /\ \A n \in 1..Len(queue[t]) :
            \/ m # Nothing /\ queue[t][n] = m
            \/ \E k \in 1..Len(queue'[t]) : queue'[t][k] = queue[t][n]
  BY <1>1, <1>2, <1>3, ReceiveKeeps
<1>5. CASE i # j
  <2>1. set_addressee(i) \in Types \ {t}
    BY <1>1, <1>3, <1>5, Addressees
  <2>2. Keeps(set_addressee(i))
    BY <1>4, <2>1
  <2>3. Waiting(i) => Waiting(i)'
    BY <1>4, <2>2 DEF Keeps, Waiting, FinalNotice
  <2>4. QED
    BY <1>2, <2>3, EndedStays DEF Notified
<1>6. CASE i = j
  <2>1. ASSUME m # Nothing, m = FinalNotice(i) PROVE Notified(i)'
    <3>1. m.kind = "OUT" /\ m.sender_name = Server
      BY <2>1 DEF FinalNotice, Msg
    <3>2. client'[d] = "ended" /\ client_id'[d] = i
      BY <1>1, <1>2, <1>6, <2>1, <3>1 DEF ClientGo, Order, TypeOK
    <3>3. d \in Holders(i)'
      BY <3>2 DEF Holders
    <3>4. QED
      BY <3>2, <3>3 DEF Notified
  <2>2. ASSUME ~(m # Nothing /\ m = FinalNotice(i)), Waiting(i) PROVE Waiting(i)'
    BY <1>1, <1>4, <1>6, <2>2 DEF Waiting, FinalNotice
  <2>3. QED
    BY <1>2, <2>1, <2>2, EndedStays DEF Notified
<1>7. QED
  BY <1>5, <1>6

LEMMA NotifiedByNotify ==
    ASSUME Order, [Next]_vars, Notify, server = "endjob", NEW i \in Ids, Notified(i)
    PROVE  Notified(i)'
<1>1. PICK l, m : l = Least(todo) /\ m = Notice(l)
  OBVIOUS
<1>2. /\ Send(m) /\ m = FinalNotice(l) /\ l \in Ids
      /\ todo \ {l} # {} => server' = "endjob"
      /\ todo' = todo \ {l}
  BY <1>1, FreeTaked DEF Notify, ServerNotifies, ServerGo, Notice, FinalNotice, Order, InHand
<1>3. m \in Message /\ Matters(m) /\ m.type = set_addressee(l)
  <2>1. m \in Message /\ m.type = set_addressee(l)
    BY <1>1, <1>2, Notices DEF Notify
  <2>2. QED
    BY <1>2, <2>1 DEF Matters, FinalNotice, Msg
<1>4. /\ KeepsMail
      /\ Room => \E k \in 1..Len(queue'[m.type]) : queue'[m.type][k] = m
      /\ ~Room => m \in lost'
  BY <1>2, <1>3, SendKeeps, Addressees DEF KeepsMail
<1>5. Waiting(l)'
  BY <1>2, <1>3, <1>4 DEF Waiting, FinalNotice
<1>6. Waiting(i) => Waiting(i)'
  BY <1>4 DEF KeepsMail, Keeps, Waiting, FinalNotice
<1>7. CASE i \in todo /\ i # l
  BY <1>2, <1>7 DEF Notified
<1>8. CASE i = l \/ Waiting(i)
  BY <1>5, <1>6, <1>8 DEF Notified
<1>9. QED
  BY <1>7, <1>8, EndedStays DEF Notified

LEMMA NotifiedStep ==
    ASSUME Order, EveryIdTold, [Next]_vars PROVE EveryIdTold'
<1> SUFFICES ASSUME server' \in Ending, NEW i \in Taked(client_id_pool') PROVE Notified(i)'
  BY DEF EveryIdTold
<1>a. i \in Ids /\ server' # "done"
  BY DEF Taked, Ending
<1>1. CASE server \notin Ending
  <2>1. PICK from : StartEndJob(from)
    BY <1>1, EndingStarts
  <2>2. i \in Taked(client_id_pool)
    BY <2>1 DEF StartEndJob
  <2>3. server' = "endjob" /\ i \in todo'
    BY <2>1, <2>2 DEF StartEndJob, ServerNotifies, ServerGo
  <2>4. QED
    BY <2>3 DEF Notified
<1>2. CASE server \in Ending
  <2>1. CASE ServerStep \/ ServerTypesLine \/ ServerQuits
    <3>1. Notify /\ server = "endjob"
      <4>1. \A from, to : ServerGo(from, to) => server = from /\ server' = to
        BY DEF ServerGo
      <4>2. \A from, loop, m, ids : ServerNotifies(from, loop, m, ids) => server = from
        BY DEF ServerNotifies, ServerGo
      <4>3. \A from : StartEndJob(from) => server = from
        BY <4>2 DEF StartEndJob
      <4>4. QED
        BY <1>a, <1>2, <2>1, <4>1, <4>2, <4>3 DEF ServerStep, ServerLoop, ServerQuits, ServerTypesLine,
           ServerInput, ReadRequest, GrantId, DropRequest, ReadPost, ReadOut, Notify, Notifying, Ending,
           RemoveQueue
    <3>2. client_id_pool' = client_id_pool
      BY <3>1 DEF Notify
    <3>3. QED
      BY <1>a, <1>2, <3>1, <3>2, NotifiedByNotify DEF EveryIdTold
  <2>2. CASE InterruptServer \/ UNCHANGED vars
    <3>1. /\ UNCHANGED <<queue, lost, client_id_pool>>
          /\ server = "endjob" => UNCHANGED <<server, todo>>
      BY <2>2 DEF InterruptServer, vars
    <3>2. KeepsMail
      BY <3>1 DEF KeepsMail, Keeps
    <3>3. Notified(i)
      BY <1>2, <3>1 DEF EveryIdTold
    <3>4. QED
      BY <1>a, <3>1, <3>2, <3>3, NotifiedKeeps
  <2>3. ASSUME NEW d \in Clients, ClientStep(d) \/ User(d) \/ InterruptClient(d) \/ KillClient(d)
        PROVE  Notified(i)'
    <3>1. UNCHANGED <<server, todo, client_id_pool>>
      BY <2>3 DEF ClientStep, User, InterruptClient, KillClient, LoopExit, RequestId, AwaitId, LoopAgain,
         ReadMail, ReceiveExit, NoInput, SayOut, Attach, TypeNothing, TypeQuit, TypePost, ClientGo
    <3>2. Notified(i)
      BY <1>2, <3>1 DEF EveryIdTold
    <3>3. KeepsMail \/ ReadMail(d)
      BY <2>3, QuietClient, TypePostKeepsMail DEF Quiet, KeepsMail
    <3>4. QED
      BY <1>a, <3>1, <3>2, <3>3, NotifiedKeeps, NotifiedReadMail
  <2>4. QED
    BY <2>1, <2>2, <2>3 DEF Next
<1>3. QED
  BY <1>1, <1>2

LEMMA EveryIdIsTold == Spec => []EveryIdTold
<1>1. Init => EveryIdTold
  BY DEF Init, EveryIdTold, Ending
<1>2. IInv /\ EveryIdTold /\ [Next]_vars => EveryIdTold'
  BY NotifiedStep DEF IInv
<1>3. QED
  BY <1>1, <1>2, InductiveInvariant, PTL DEF Spec

LEMMA Forgotten == ASSUME IInv, EveryIdTold PROVE NobodyForgotten
<1> SUFFICES ASSUME server \in {"remove", "cut"} PROVE NobodyForgotten
  BY DEF NobodyForgotten
<1>1. server \in Ending /\ server # "endjob" /\ server # "done"
  BY DEF Ending
<1>2. ASSUME NEW c \in Clients, client_id[c] # NoId, client[c] \notin Gone
      PROVE  Waiting(client_id[c])
  <2>1. PICK i \in Ids : i = client_id[c]
    BY <1>2 DEF IInv, Order, TypeOK
  <2>2. c \in Holders(i)
    BY <1>2, <2>1 DEF Holders, Gone
  <2>3. client_id_pool[i] = "TAKED" /\ One(Holders(i))
    BY <2>1, <2>2 DEF IInv, Ownership, Owned, OwnedOnce, Unowned
  <2>4. i \in Taked(client_id_pool) /\ \A d \in Holders(i) : d = c
    BY <2>1, <2>2, <2>3 DEF Taked, One
  <2>5. Notified(i) /\ client[c] # "ended"
    BY <1>1, <1>2, <2>4 DEF EveryIdTold, Gone
  <2>6. QED
    BY <1>1, <2>1, <2>4, <2>5 DEF Notified
<1>3. ASSUME NEW i \in Ids, Replied(i) PROVE Waiting(i)
  <2>1. Places(i) # {}
    <3>1. PICK u \in Unread : u[1] = MESSAGE_CLIENT_ID_SET /\ queue[u[1]][u[2]].text = i
      BY <1>3 DEF Replied
    <3>2. u[1] \in Types /\ u[2] \in 1..Len(queue[u[1]])
      BY <3>1 DEF Unread
    <3>3. queue[u[1]][u[2]].type = u[1]
      BY <3>2 DEF IInv, Order, TypeOK
    <3>4. u \in Places(i)
      BY <3>1, <3>3 DEF Places, Carries
    <3>5. QED
      BY <3>4
  <2>2. client_id_pool[i] = "TAKED" /\ Holders(i) = {}
    BY <1>1, <2>1 DEF IInv, Ownership, Owned, OwnedOnce, Unowned, One
  <2>3. i \in Taked(client_id_pool)
    BY <2>2 DEF Taked
  <2>4. QED
    BY <1>1, <2>2, <2>3 DEF EveryIdTold, Notified
<1>4. QED
  BY <1>2, <1>3 DEF NobodyForgotten

(* Nobody is forgotten when the server stops: the notice waits for every    *)
(* client that runs and has an id, or gets one of those under way, unless   *)
(* its send failed (run_server's last for loop, IPC_NOWAIT).                *)
THEOREM EveryoneTold == Spec => []NobodyForgotten
<1>1. IInv /\ EveryIdTold => NobodyForgotten
  BY Forgotten
<1>2. QED
  BY <1>1, EveryIdIsTold, InductiveInvariant, PTL

(* Who has not started has no id. *)
LEMMA StartsWithoutId ==
    ASSUME Order, [Next]_vars, NEW c \in Clients, client[c] = "start" => client_id[c] = NoId
    PROVE  client'[c] = "start" => client_id'[c] = NoId
<1>1. client \in [Clients -> ClientStates] /\ client_id \in [Clients -> Ids \cup {NoId}]
  BY DEF Order, TypeOK
<1>2. CASE ServerStep \/ ServerTypesLine \/ ServerQuits \/ InterruptServer \/ UNCHANGED vars
  <2>1. UNCHANGED <<client, client_id>>
    BY <1>2 DEF ServerStep, ServerTypesLine, ServerQuits, ServerLoop, StartEndJob, ServerInput,
       ReadRequest, GrantId, DropRequest, ReadPost, ReadOut, Notify, RemoveQueue, ServerNotifies,
       ServerGo, InterruptServer, vars, users
  <2>2. QED
    BY <2>1
<1>3. ASSUME NEW d \in Clients, ClientStep(d) \/ User(d) \/ InterruptClient(d) \/ KillClient(d),
             client'[c] = "start"
      PROVE  client[c] = "start" /\ client_id'[c] = client_id[c]
  <2>1. CASE InterruptClient(d) \/ KillClient(d)
    BY <1>1, <1>3, <2>1 DEF InterruptClient, KillClient
  <2>2. CASE ClientStep(d) \/ User(d)
    <3>1. \E from, to : to # "start" /\ ClientGo(d, from, to)
      BY <2>2 DEF ClientStep, User, LoopExit, RequestId, AwaitId, LoopAgain, ReadMail,
         ReceiveExit, NoInput, SayOut, Attach, TypePost, TypeNothing, TypeQuit
    <3>2. c # d /\ client[c] = "start"
      BY <1>1, <1>3, <3>1 DEF ClientGo
    <3>3. \A e \in Clients \ {d} : client_id'[e] = client_id[e]
      BY <1>1, <2>2 DEF ClientStep, User, LoopExit, RequestId, AwaitId, LoopAgain, ReadMail,
         ReceiveExit, NoInput, SayOut, Attach, TypePost, TypeNothing, TypeQuit
    <3>4. QED
      BY <3>2, <3>3
  <2>3. QED
    BY <1>3, <2>1, <2>2
<1>4. QED
  BY <1>2, <1>3 DEF Next

(* Unless a signal cuts its 15 seconds short, the server removes the queue  *)
(* only when every client that has an id is gone or hangs in gets, or its   *)
(* notice could not be sent: the safety half of Shutdown (run_server's      *)
(* sleep before IPC_RMID, run_client's inner loop).                         *)
THEOREM NobodyLeftBehind ==
    Spec => [][server = "remove" /\ server' = "done" =>
                  \A c \in Clients : client_id[c] # NoId =>
                      client[c] \in Gone \cup {"gets"} \/ FinalNotice(client_id[c]) \in lost]_vars
<1> DEFINE Started == \A c \in Clients : client[c] = "start" => client_id[c] = NoId
<1> DEFINE Left == server = "remove" /\ server' = "done" =>
                      \A c \in Clients : client_id[c] # NoId =>
                          client[c] \in Gone \cup {"gets"} \/ FinalNotice(client_id[c]) \in lost
<1>1. Init => Started
  BY DEF Init
<1>2. IInv /\ Started /\ [Next]_vars => Started'
  BY StartsWithoutId DEF IInv
<1>3. IInv /\ Started /\ EveryIdTold /\ [Next]_vars => Left
  <2> SUFFICES ASSUME IInv, Started, EveryIdTold, [Next]_vars, server = "remove", server' = "done",
                      NEW c \in Clients, client_id[c] # NoId, client[c] \notin Gone \cup {"gets"}
               PROVE  FinalNotice(client_id[c]) \in lost
    OBVIOUS
  <2>1. RemoveQueue
    <3>1. \A from, to : ServerGo(from, to) => server = from /\ server' = to
      BY DEF ServerGo
    <3>2. ASSUME NEW d \in Clients, ClientStep(d) \/ User(d) \/ InterruptClient(d) \/ KillClient(d)
          PROVE  server' = server
      BY <3>2 DEF ClientStep, User, InterruptClient, KillClient, LoopExit, RequestId, AwaitId, LoopAgain,
         ReadMail, ReceiveExit, NoInput, SayOut, Attach, TypeNothing, TypeQuit, TypePost, ClientGo
    <3>3. ~InterruptServer /\ ~UNCHANGED vars /\ \A from : from # "remove" => ~StartEndJob(from)
      BY DEF InterruptServer, AfterInterrupt, vars, StartEndJob, ServerNotifies, ServerGo
    <3>4. QED
      BY <3>1, <3>2, <3>3 DEF Next, ServerStep, ServerLoop, ServerQuits, ServerTypesLine, ServerInput,
         ReadRequest, GrantId, DropRequest, ReadPost, ReadOut, Notify, Notifying, ServerNotifies
  <2>2. ~MailDue(c)
    BY <2>1 DEF RemoveQueue, ServerGo
  <2>3. client_id[c] \in Ids /\ client[c] # "start"
    BY DEF IInv, Order, TypeOK
  <2>4. queue[set_addressee(client_id[c])] = <<>>
    BY <2>2, <2>3 DEF MailDue
  <2>5. Waiting(client_id[c])
    BY Forgotten DEF NobodyForgotten
  <2>6. QED
    BY <2>4, <2>5 DEF Waiting
<1> HIDE DEF Left, Started
<1>4. Spec => [][Left]_vars
  BY <1>1, <1>2, <1>3, EveryIdIsTold, InductiveInvariant, PTL DEF Spec
<1>5. QED
  BY <1>4 DEF Left
=============================================================================
