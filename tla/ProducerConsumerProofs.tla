----------------------- MODULE ProducerConsumerProofs -----------------------
(***************************************************************************)
(* What ProducerConsumer guarantees for any clients, servers, services,    *)
(* queues and widths of ids.  The invariant has five layers: the types;    *)
(* one server at most; every request in one place at most; the number of   *)
(* a request; and what a client has counted of the replies to its request. *)
(***************************************************************************)
EXTENDS ProducerConsumer, FiniteSetTheorems, SequenceTheorems, TLAPS

(* The types of all variables, the sequences' included.                     *)
Datagrams ==
    {d \in [kind : {"request", "ack", "reply"}, request : AllRequests, id : 0..ShortSize - 1] :
        IsDatagram(d)}

Types ==
    /\ spc \in [Servers -> {"off", "second", "receive", "acknowledge", "poll", "join",
                            "closed", "refused"}]
    /\ flag \in [Servers -> BOOLEAN] /\ queues \subseteq {"request", "reply"}
    /\ requests \in Seq(AllRequests) /\ Len(requests) <= QueueCapacity
    /\ replies \in Seq(AllRequests) /\ Len(replies) <= QueueCapacity
    /\ service \in [Services -> AllRequests \cup {Nothing}]
    /\ ended \subseteq Services /\ current \in AllRequests \cup {Nothing}
    /\ inbox \in Seq(Datagrams)
    /\ alive \subseteq Clients /\ mid \in [Clients -> CharMin..CharMax]
    /\ waiting \in [Clients -> 0..2]
    /\ raw \in [Clients -> Seq(Datagrams)]
    /\ lines \in [Clients -> Nat] /\ pending \in [Clients -> AllRequests \cup {Nothing}]
    /\ counted \in [Clients -> Seq(Datagrams)] /\ mixed \subseteq Clients
    /\ starts \subseteq Servers /\ stops \subseteq Servers \cup Clients /\ losses \in Nat
    /\ gone \subseteq AllRequests /\ dropped \subseteq AllRequests
    /\ acked \subseteq AllRequests /\ answered \subseteq AllRequests

(* One server at most has the request queue, none ever gives the reply      *)
(* queue back, and nothing happens before one has both.                     *)
Owner(s) == spc[s] = "second" \/ Serving(s)
Started(s) == spc[s] \notin {"off", "second", "refused"}

Alone ==
    /\ \A s \in starts : spc[s] = "off"
    /\ \A s \in Servers : Owner(s) => "request" \in queues
    /\ \A s \in Servers : Started(s) => "reply" \in queues
    /\ \A s, t \in Servers : Owner(s) /\ Owner(t) => s = t
    /\ OneServerEver
    /\ current # Nothing <=> \E s \in Servers : spc[s] = "acknowledge"
    /\ (\A s \in Servers : ~Started(s)) => acked = {}

(* Where requests are, from the socket to the reply.                        *)
Elems(q) == {q[i] : i \in 1..Len(q)}
Distinct(q) == \A i, j \in 1..Len(q) : q[i] = q[j] => i = j

Arriving == {d.request : d \in Elems(inbox)}
Working == {service[v] : v \in Services} \ {Nothing}
Queued == {current} \ {Nothing}
InWork == Elems(requests) \cup Working \cup Elems(replies)

(* Each is in one place at most; while a server serves, those it has taken  *)
(* on are in one.                                                           *)
Conserved ==
    /\ Distinct(inbox) /\ Distinct(requests) /\ Distinct(replies)
    /\ \A v, w \in Services : service[v] = service[w] /\ service[v] # Nothing => v = w
    /\ \A d \in Elems(inbox) : d.kind = "request"
    /\ Elems(requests) \cap (Working \cup Elems(replies) \cup answered \cup dropped) = {}
    /\ Working \cap (Elems(replies) \cup answered \cup dropped) = {}
    /\ Elems(replies) \cap (answered \cup dropped) = {}
    /\ answered \cap dropped = {}
    /\ Arriving \cap (InWork \cup answered \cup dropped \cup acked \cup Queued) = {}
    /\ InWork \subseteq acked \cup Queued
    /\ answered \subseteq acked /\ current \notin acked
    /\ (\E s \in Servers : Serving(s)) =>
          acked \cup Queued \subseteq InWork \cup answered \cup dropped

(* Every request was typed: its number is not used again.                   *)
Handled == Arriving \cup InWork \cup Queued
Issued == Handled \cup answered \cup dropped \cup acked
Numbered == \A r \in Issued : lines[r.client] < r.n

(* What a client that never took another's datagram has counted, and what   *)
(* waits for it: its request, its acknowledgement and its reply, each once. *)
Before(k, l) == <<k, l>> \in {<<"request", "ack">>, <<"request", "reply">>, <<"ack", "reply">>}

OwnMail(c, p) ==
    \A i \in 1..Len(raw[c]) : raw[c][i].request.client = c =>
        /\ raw[c][i].request = p
        /\ raw[c][i].kind = "ack" => p \in acked
        /\ raw[c][i].kind = "reply" => p \in answered
        /\ \A j \in 1..(i - 1) :
              raw[c][j].request.client = c => Before(raw[c][j].kind, raw[c][i].kind)
        /\ \A d \in Elems(counted[c]) : Before(d.kind, raw[c][i].kind)

OwnCount(c, p) ==
    LET both == <<Datagram("ack", p), Datagram("reply", p)>>
    IN  /\ counted[c] \in {<<>>, <<both[1]>>, <<both[2]>>, both}
        /\ waiting[c] = 2 - Len(counted[c])
        /\ both[1] \in Elems(counted[c]) => p \in acked
        /\ both[2] \in Elems(counted[c]) => p \in answered
        /\ waiting[c] > 0 => p.id = Short(mid[c])

Orderly(c) ==
    /\ \A r \in Handled : r.client = c => r = pending[c]
    /\ OwnMail(c, pending[c])
    /\ IF pending[c] = Nothing THEN waiting[c] = 0 ELSE OwnCount(c, pending[c])

InStep == \A c \in Clients \ mixed : Orderly(c)

-----------------------------------------------------------------------------
(* Sequences and datagrams. *)

LEMMA TailOf ==
    \A S : \A q \in Seq(S) : q # <<>> =>
        /\ Head(q) = q[1] /\ Head(q) \in S /\ Tail(q) \in Seq(S) /\ Len(Tail(q)) = Len(q) - 1
        /\ Len(q) \in Nat /\ 1 \in 1..Len(q)
        /\ \A i \in 1..Len(Tail(q)) : i + 1 \in 1..Len(q) /\ Tail(q)[i] = q[i + 1]
        /\ Elems(q) = {Head(q)} \cup Elems(Tail(q))
        /\ Distinct(q) => Distinct(Tail(q)) /\ Head(q) \notin Elems(Tail(q))
<1> SUFFICES ASSUME NEW S, NEW q \in Seq(S), q # <<>>
             PROVE  /\ Head(q) = q[1] /\ Head(q) \in S /\ Tail(q) \in Seq(S)
                    /\ Len(Tail(q)) = Len(q) - 1 /\ Len(q) \in Nat /\ 1 \in 1..Len(q)
                    /\ \A i \in 1..Len(Tail(q)) : i + 1 \in 1..Len(q) /\ Tail(q)[i] = q[i + 1]
                    /\ Elems(q) = {Head(q)} \cup Elems(Tail(q))
                    /\ Distinct(q) => Distinct(Tail(q)) /\ Head(q) \notin Elems(Tail(q))
  OBVIOUS
<1>1. /\ Head(q) = q[1] /\ Head(q) \in S /\ Tail(q) \in Seq(S) /\ Len(Tail(q)) = Len(q) - 1
      /\ Len(q) \in Nat /\ 1 \in 1..Len(q)
      /\ \A i \in 1..Len(Tail(q)) : i + 1 \in 1..Len(q) /\ Tail(q)[i] = q[i + 1]
  OBVIOUS
<1>2. \A i \in 1..Len(q) : i = 1 \/ (i - 1 \in 1..Len(Tail(q)) /\ Tail(q)[i - 1] = q[i])
  <2>1. ASSUME NEW i \in 1..Len(q), i # 1 PROVE i - 1 \in 1..Len(Tail(q)) /\ (i - 1) + 1 = i
    BY <1>1, <2>1
  <2>2. ASSUME NEW i \in 1..Len(q), i # 1 PROVE Tail(q)[i - 1] = q[i]
    <3>1. PICK j : j = i - 1 /\ j \in 1..Len(Tail(q)) /\ j + 1 = i
      BY <2>1, <2>2
    <3>2. QED
      BY <1>1, <3>1
  <2>3. ASSUME NEW i \in 1..Len(q) PROVE i = 1 \/ (i - 1 \in 1..Len(Tail(q)) /\ Tail(q)[i - 1] = q[i])
    BY <2>1, <2>2, Zenon
  <2>4. QED
    BY <2>3
<1>3. Elems(q) = {Head(q)} \cup Elems(Tail(q))
  <2>1. ASSUME NEW x \in Elems(q) PROVE x \in {Head(q)} \cup Elems(Tail(q))
    <3>1. PICK i \in 1..Len(q) : x = q[i]
      BY DEF Elems
    <3>2. CASE i = 1
      BY <1>1, <3>1, <3>2
    <3>3. CASE i # 1
      BY <1>2, <3>1, <3>3 DEF Elems
    <3>4. QED
      BY <3>2, <3>3
  <2>2. ASSUME NEW x \in {Head(q)} \cup Elems(Tail(q)) PROVE x \in Elems(q)
    BY <1>1 DEF Elems
  <2>3. QED
    BY <2>1, <2>2
<1>4. ASSUME Distinct(q), NEW i \in 1..Len(Tail(q)), NEW j \in 1..Len(Tail(q)), Tail(q)[i] = Tail(q)[j]
      PROVE  i = j
  <2>1. i + 1 = j + 1
    BY <1>1, <1>4 DEF Distinct
  <2>2. QED
    BY <2>1
<1>5. ASSUME Distinct(q), Head(q) \in Elems(Tail(q)) PROVE FALSE
  <2>1. PICK i \in 1..Len(Tail(q)) : Tail(q)[i] = Head(q)
    BY <1>5 DEF Elems
  <2>2. i + 1 = 1
    BY <1>1, <1>5, <2>1 DEF Distinct
  <2>3. QED
    BY <2>2
<1>6. QED
  BY <1>1, <1>3, <1>4, <1>5 DEF Distinct

LEMMA AppendOf ==
    \A S : \A q \in Seq(S) : \A e \in S :
        /\ Append(q, e) \in Seq(S) /\ Len(Append(q, e)) = Len(q) + 1 /\ Len(q) \in Nat
        /\ Append(q, e)[Len(q) + 1] = e
        /\ \A i \in 1..Len(q) : Append(q, e)[i] = q[i]
        /\ Elems(Append(q, e)) = Elems(q) \cup {e}
        /\ Distinct(q) /\ e \notin Elems(q) => Distinct(Append(q, e))
<1> SUFFICES ASSUME NEW S, NEW q \in Seq(S), NEW e \in S
             PROVE  /\ Append(q, e) \in Seq(S) /\ Len(Append(q, e)) = Len(q) + 1 /\ Len(q) \in Nat
                    /\ Append(q, e)[Len(q) + 1] = e
                    /\ \A i \in 1..Len(q) : Append(q, e)[i] = q[i]
                    /\ Elems(Append(q, e)) = Elems(q) \cup {e}
                    /\ Distinct(q) /\ e \notin Elems(q) => Distinct(Append(q, e))
  OBVIOUS
<1>1. /\ Append(q, e) \in Seq(S) /\ Len(Append(q, e)) = Len(q) + 1 /\ Len(q) \in Nat
      /\ Append(q, e)[Len(q) + 1] = e
      /\ \A i \in 1..Len(q) : Append(q, e)[i] = q[i]
  OBVIOUS
<1>2. 1..Len(Append(q, e)) = (1..Len(q)) \cup {Len(q) + 1}
  BY <1>1
<1>3. Elems(Append(q, e)) = Elems(q) \cup {e}
  <2>1. \A x \in Elems(Append(q, e)) : x \in Elems(q) \cup {e}
    BY <1>1, <1>2 DEF Elems
  <2>2. \A x \in Elems(q) \cup {e} : x \in Elems(Append(q, e))
    BY <1>1, <1>2 DEF Elems
  <2>3. QED
    BY <2>1, <2>2
<1>4. Distinct(q) /\ e \notin Elems(q) => Distinct(Append(q, e))
  BY <1>1, <1>2 DEF Distinct, Elems
<1>5. QED
  BY <1>1, <1>3, <1>4

LEMMA EmptyOf == Elems(<<>>) = {} /\ Distinct(<<>>) /\ Len(<<>>) = 0 /\ (\A S : <<>> \in Seq(S))
<1>1. Len(<<>>) = 0 /\ 1..Len(<<>>) = {}
  OBVIOUS
<1>a. \A S : <<>> \in Seq(S)
  OBVIOUS
<1>2. QED
  <2>1. Elems(<<>>) = {}
    BY <1>1, Zenon DEF Elems
  <2>2. Distinct(<<>>)
    BY <1>1, Zenon DEF Distinct
  <2>3. QED
    BY <1>1, <1>a, <2>1, <2>2, Zenon

LEMMA ElemsIn == \A S : \A q \in Seq(S) : Elems(q) \subseteq S
BY DEF Elems

(* A number becomes an unsigned short, and the next number another one.     *)
LEMMA Shorts ==
    /\ \A n \in Int : Short(n) \in 0..ShortSize - 1
    /\ \A n \in Int : Short(n + 1) # Short(n)
<1>1. ShortSize \in Nat /\ ShortSize > 1
  BY ProducerConsumerAssumption
<1>2. ASSUME NEW n \in Int PROVE n % ShortSize \in 0..ShortSize - 1
  BY <1>1
<1>3. ASSUME NEW n \in Int, (n + 1) % ShortSize = n % ShortSize PROVE FALSE
  <2>1. PICK q \in Int, p \in Int : /\ n = ShortSize * q + (n % ShortSize)
                                    /\ n + 1 = ShortSize * p + ((n + 1) % ShortSize)
    <3>1. \A m \in Int : m \div ShortSize \in Int /\ m = ShortSize * (m \div ShortSize) + (m % ShortSize)
      BY <1>1
    <3>2. QED
      BY <3>1
  <2>2. PICK k \in Int : k = p - q
    OBVIOUS
  <2>3. ShortSize * k = 1
    BY <1>1, <1>2, <1>3, <2>1, <2>2
  <2>4. QED
    BY <1>1, <2>3
<1>4. QED
  BY <1>2, <1>3 DEF Short

LEMMA DatagramsAre ==
    /\ \A r \in AllRequests : \A k \in {"request", "ack", "reply"} :
          /\ Datagram(k, r) \in Datagrams /\ Datagram(k, r).request = r /\ Datagram(k, r).kind = k
    /\ \A d \in Datagrams : /\ d.request \in AllRequests /\ d.kind \in {"request", "ack", "reply"}
                            /\ d = Datagram(d.kind, d.request) /\ IsDatagram(d)
<1>1. ASSUME NEW r \in AllRequests, NEW k \in {"request", "ack", "reply"}
      PROVE  /\ Datagram(k, r) \in Datagrams /\ Datagram(k, r).request = r /\ Datagram(k, r).kind = k
  <2>1. r.id \in 0..ShortSize - 1 /\ r.id \in Int /\ ReplyId(r.id) \in 0..ShortSize - 1
    BY ProducerConsumerAssumption, Shorts DEF AllRequests, ReplyId
  <2>2. QED
    BY <2>1 DEF Datagrams, Datagram, IsDatagram
<1>2. QED
  BY <1>1 DEF Datagrams, IsDatagram

LEMMA TypesImply == Types => TypeOK
<1>1. ASSUME NEW q \in Seq(AllRequests) PROVE \A i \in DOMAIN q : q[i] \in AllRequests
  OBVIOUS
<1>2. ASSUME NEW q \in Seq(Datagrams) PROVE \A i \in DOMAIN q : IsDatagram(q[i])
  <2>1. \A i \in DOMAIN q : q[i] \in Datagrams
    OBVIOUS
  <2>2. QED
    BY <2>1, DatagramsAre
<1>3. QED
  BY <1>1, <1>2 DEF Types, TypeOK

-----------------------------------------------------------------------------
(* The types. *)

(* A datagram sent reaches the raw sockets and, a request, the server, or   *)
(* does not.                                                                *)
LEMMA Network ==
    ASSUME Types, NEW d \in Datagrams, Send(d)
    PROVE  /\ raw' \in [Clients -> Seq(Datagrams)] /\ inbox' \in Seq(Datagrams)
           /\ losses' \in Nat /\ gone' \subseteq AllRequests
           /\ \A c \in Clients : raw'[c] = raw[c] \/ raw'[c] = Append(raw[c], d)
           /\ inbox' = inbox \/ inbox' = Append(inbox, d)
           /\ d.kind # "request" => inbox' = inbox
<1>a. /\ alive \subseteq Clients /\ raw \in [Clients -> Seq(Datagrams)] /\ inbox \in Seq(Datagrams)
      /\ losses \in Nat /\ gone \subseteq AllRequests
  BY DEF Types
<1>b. d.request \in AllRequests
  BY DatagramsAre
<1>1. PICK missed \in SUBSET (alive \cup (IF d.kind = "request" THEN {"server"} ELSE {})) :
        Transmit(d, missed)
  BY DEF Send
<1>2. Cardinality(missed) \in Nat
  <2>1. IsFiniteSet(alive \cup {"server"})
    BY <1>a, ProducerConsumerAssumption, FS_Subset, FS_AddElement
  <2>2. IsFiniteSet(missed)
    BY <2>1, FS_Subset
  <2>3. QED
    BY <2>2, FS_CardinalityType
<1>3. losses' \in Nat
  BY <1>a, <1>1, <1>2 DEF Transmit
<1>4. \A c \in Clients : Append(raw[c], d) \in Seq(Datagrams) /\ raw[c] \in Seq(Datagrams)
  BY <1>a, AppendOf
<1>5. Append(inbox, d) \in Seq(Datagrams)
  BY <1>a, AppendOf
<1>6. /\ raw' = [c \in Clients |-> IF c \in alive \ missed THEN Append(raw[c], d) ELSE raw[c]]
      /\ inbox' = IF d.kind = "request" /\ Bound /\ "server" \notin missed
                    THEN Append(inbox, d) ELSE inbox
      /\ gone' = gone \/ gone' = gone \cup {d.request}
  BY <1>1, Zenon DEF Transmit
<1>7. QED
  BY <1>a, <1>b, <1>3, <1>4, <1>5, <1>6

LEMMA TypesStep == ASSUME Types, Alone, Next PROVE Types'
<1>a. /\ \A k \in {"request", "ack", "reply"} : \A r \in AllRequests : Datagram(k, r) \in Datagrams
      /\ \A d \in Datagrams : d.request \in AllRequests
  BY DatagramsAre
<1>b. /\ \A S : \A q \in Seq(S) : q # <<>> =>
            Head(q) \in S /\ Tail(q) \in Seq(S) /\ Len(Tail(q)) = Len(q) - 1 /\ Len(q) \in Nat
      /\ \A S : \A q \in Seq(S) : \A e \in S :
            Append(q, e) \in Seq(S) /\ Len(Append(q, e)) = Len(q) + 1 /\ Len(q) \in Nat
  BY TailOf, AppendOf
<1>c. QueueCapacity \in Nat /\ CharMax \in Nat /\ CharMin \in Int /\ CharMin <= CharMax
  BY ProducerConsumerAssumption DEF CharMin
<1>1. ASSUME NEW s \in Servers, Start(s) PROVE Types'
  BY <1>1 DEF Start, Types, clientVars, netVars, history
<1>2. ASSUME NEW s \in Servers, StartServices(s) PROVE Types'
  <2>1. {inbox[i].request : i \in DOMAIN inbox} \subseteq AllRequests
    <3>1. \A i \in DOMAIN inbox : inbox[i] \in Datagrams
      BY DEF Types
    <3>2. QED
      BY <1>a, <3>1
  <2>2. inbox' \in Seq(Datagrams) /\ gone' \subseteq AllRequests
    <3>1. <<>> \in Seq(Datagrams)
      BY EmptyOf
    <3>2. QED
      BY <1>2, <2>1, <3>1 DEF StartServices, Types
  <2>3. QED
    BY <1>2, <2>2 DEF StartServices, Types, environment, clientVars, history
<1>3. ASSUME NEW s \in Servers, Receive(s) PROVE Types'
  <2>1. Head(inbox) \in Datagrams /\ Tail(inbox) \in Seq(Datagrams)
    BY <1>3, <1>b DEF Receive, Types
  <2>2. PICK r : r = Head(inbox).request /\ r \in AllRequests
    BY <1>a, <2>1
  <2>3. Append(requests, r) \in Seq(AllRequests) /\ Len(Append(requests, r)) = Len(requests) + 1
        /\ Len(requests) \in Nat
    BY <1>b, <2>2 DEF Types
  <2>4. requests' \in Seq(AllRequests) /\ Len(requests') <= QueueCapacity
        /\ dropped' \subseteq AllRequests /\ current' \in AllRequests \cup {Nothing}
    <3>1. \/ /\ Len(requests) < QueueCapacity /\ requests' = Append(requests, r)
             /\ current' = r /\ dropped' = dropped
          \/ requests' = requests /\ current' = current /\ dropped' = dropped \cup {r}
      BY <1>3, <2>2 DEF Receive
    <3>2. /\ requests \in Seq(AllRequests) /\ Len(requests) <= QueueCapacity
          /\ current \in AllRequests \cup {Nothing} /\ dropped \subseteq AllRequests
      BY DEF Types
    <3>3. Len(requests) < QueueCapacity => Len(requests) + 1 <= QueueCapacity
      BY <1>c, <2>3
    <3>4. QED
      BY <2>2, <2>3, <3>1, <3>2, <3>3
  <2>5. QED
    BY <1>3, <2>1, <2>4 DEF Receive, Types, environment, clientVars, history
<1>4. ASSUME NEW s \in Servers, ReceiveNothing(s) \/ Leave(s) \/ Interrupt(s) PROVE Types'
  BY <1>4 DEF ReceiveNothing, Leave, Interrupt, Types, environment, clientVars, netVars, history
<1>5. ASSUME NEW s \in Servers, Acknowledge(s) PROVE Types'
  <2>1. current \in AllRequests
    BY <1>5 DEF Acknowledge, Types, Alone
  <2>2. Datagram("ack", current) \in Datagrams
    BY <1>a, <2>1
  <2>3. /\ raw' \in [Clients -> Seq(Datagrams)] /\ inbox' \in Seq(Datagrams)
        /\ losses' \in Nat /\ gone' \subseteq AllRequests
    BY <1>5, <2>2, Network DEF Acknowledge
  <2>4. QED
    BY <1>5, <2>1, <2>3 DEF Acknowledge, Types, environment, clientVars
<1>6. ASSUME NEW s \in Servers, Poll(s) PROVE Types'
  <2>1. CASE replies = <<>>
    BY <1>6, <2>1 DEF Poll, Types, environment, clientVars, netVars
  <2>2. CASE replies # <<>>
    <3>1. Head(replies) \in AllRequests /\ Tail(replies) \in Seq(AllRequests)
          /\ Len(Tail(replies)) <= QueueCapacity
      BY <1>b, <1>c, <2>2 DEF Types
    <3>2. Datagram("reply", Head(replies)) \in Datagrams
      BY <1>a, <3>1
    <3>3. /\ raw' \in [Clients -> Seq(Datagrams)] /\ inbox' \in Seq(Datagrams)
          /\ losses' \in Nat /\ gone' \subseteq AllRequests
      BY <1>6, <2>2, <3>2, Network DEF Poll
    <3>4. answered' \subseteq AllRequests
      BY <1>6, <2>2, <3>1 DEF Poll, Types
    <3>5. QED
      BY <1>6, <2>2, <3>1, <3>3, <3>4 DEF Poll, Types, environment, clientVars
  <2>3. QED
    BY <2>1, <2>2
<1>7. ASSUME NEW s \in Servers, Close(s) PROVE Types'
  <2>1. <<>> \in Seq(Datagrams) /\ <<>> \in Seq(AllRequests) /\ Len(<<>>) = 0
    BY EmptyOf
  <2>2. QED
    BY <1>7, <1>c, <2>1 DEF Close, Types, environment, clientVars, history
<1>8. ASSUME NEW v \in Services, Take(v) PROVE Types'
  <2>1. /\ Head(requests) \in AllRequests /\ Tail(requests) \in Seq(AllRequests)
        /\ Len(Tail(requests)) <= QueueCapacity
    BY <1>8, <1>b, <1>c DEF Take, Types
  <2>2. QED
    BY <1>8, <2>1 DEF Take, Types, environment, clientVars, netVars, history
<1>9. ASSUME NEW v \in Services, Put(v) PROVE Types'
  <2>1. service[v] \in AllRequests
    BY <1>9 DEF Put, Types
  <2>2. Append(replies, service[v]) \in Seq(AllRequests)
        /\ Len(Append(replies, service[v])) = Len(replies) + 1 /\ Len(replies) \in Nat
    BY <1>b, <2>1 DEF Types
  <2>3. replies' \in Seq(AllRequests) /\ Len(replies') <= QueueCapacity
        /\ dropped' \subseteq AllRequests
    <3>1. \/ /\ Len(replies) < QueueCapacity /\ replies' = Append(replies, service[v])
             /\ dropped' = dropped
          \/ replies' = replies /\ dropped' = dropped \cup {service[v]}
      BY <1>9 DEF Put
    <3>2. /\ replies \in Seq(AllRequests) /\ Len(replies) <= QueueCapacity
          /\ dropped \subseteq AllRequests
      BY DEF Types
    <3>3. Len(replies) < QueueCapacity => Len(replies) + 1 <= QueueCapacity
      BY <1>c, <2>2
    <3>4. QED
      BY <2>1, <2>2, <3>1, <3>2, <3>3
  <2>4. QED
    BY <1>9, <2>3 DEF Put, Types, environment, clientVars, netVars, history
<1>10. ASSUME NEW v \in Services, EndService(v) PROVE Types'
  BY <1>10 DEF EndService, Types, environment, clientVars, netVars, history
<1>11. ASSUME NEW c \in Clients, Type(c) PROVE Types'
  <2>1. NewRequest(c) \in AllRequests
    <3>1. lines[c] \in Nat \ {0} /\ mid[c] \in Int
      BY <1>11, <1>c DEF Type, Types
    <3>2. Short(mid[c]) \in 0..ShortSize - 1
      BY <3>1, Shorts
    <3>3. QED
      BY <3>1, <3>2 DEF NewRequest, AllRequests
  <2>2. Datagram("request", NewRequest(c)) \in Datagrams
    BY <1>a, <2>1
  <2>3. /\ raw' \in [Clients -> Seq(Datagrams)] /\ inbox' \in Seq(Datagrams)
        /\ losses' \in Nat /\ gone' \subseteq AllRequests
    BY <1>11, <2>2, Network DEF Type
  <2>4. counted' \in [Clients -> Seq(Datagrams)]
    <3>1. <<>> \in Seq(Datagrams)
      BY EmptyOf
    <3>2. QED
      BY <1>11, <3>1 DEF Type, Types
  <2>5. lines' \in [Clients -> Nat] /\ pending' \in [Clients -> AllRequests \cup {Nothing}]
        /\ waiting' \in [Clients -> 0..2]
    BY <1>11, <2>1 DEF Type, Types
  <2>6. QED
    BY <1>11, <2>3, <2>4, <2>5 DEF Type, Types, environment, serverVars, history
<1>12. ASSUME NEW c \in Clients, Read(c) PROVE Types'
  <2>1. PICK d \in Datagrams : d = Head(raw[c])
    BY <1>12, <1>b DEF Read, Types
  <2>2. Tail(raw[c]) \in Seq(Datagrams) /\ Append(counted[c], d) \in Seq(Datagrams)
    BY <1>12, <1>b, <2>1 DEF Read, Types
  <2>a. /\ waiting[c] > 0 /\ raw' = [raw EXCEPT ![c] = Tail(raw[c])]
        /\ \/ /\ waiting' = [waiting EXCEPT ![c] = waiting[c] - 1]
              /\ counted' = [counted EXCEPT ![c] = Append(counted[c], d)]
           \/ waiting' = waiting /\ counted' = counted
    BY <1>12, <2>1 DEF Read
  <2>3. raw' \in [Clients -> Seq(Datagrams)] /\ counted' \in [Clients -> Seq(Datagrams)]
    <3>1. raw \in [Clients -> Seq(Datagrams)] /\ counted \in [Clients -> Seq(Datagrams)]
      BY DEF Types
    <3>2. [counted EXCEPT ![c] = Append(counted[c], d)] \in [Clients -> Seq(Datagrams)]
      BY <2>2, <3>1
    <3>3. [raw EXCEPT ![c] = Tail(raw[c])] \in [Clients -> Seq(Datagrams)]
      BY <2>2, <3>1
    <3>4. QED
      BY <2>a, <3>1, <3>2, <3>3
  <2>4. waiting' \in [Clients -> 0..2]
    <3>1. waiting \in [Clients -> 0..2]
      BY DEF Types
    <3>2. waiting[c] - 1 \in 0..2
      BY <2>a, <3>1
    <3>3. QED
      BY <2>a, <3>1, <3>2
  <2>5. mid' \in [Clients -> CharMin..CharMax]
    <3>1. NextMid(mid[c]) \in CharMin..CharMax
      BY <1>12, <1>c DEF NextMid, Types
    <3>2. mid' = mid \/ mid' = [mid EXCEPT ![c] = mid[c]] \/ mid' = [mid EXCEPT ![c] = NextMid(mid[c])]
      BY <1>12 DEF Read
    <3>3. mid \in [Clients -> CharMin..CharMax]
      BY DEF Types
    <3>4. QED
      BY <3>1, <3>2, <3>3
  <2>6. mixed' \subseteq Clients
    BY <1>12 DEF Read, Types
  <2>7. QED
    BY <1>12, <2>3, <2>4, <2>5, <2>6 DEF Read, Types, environment, serverVars, history
<1>13. ASSUME NEW c \in Clients, LeaveClient(c) PROVE Types'
  <2>1. raw' \in [Clients -> Seq(Datagrams)]
    <3>1. <<>> \in Seq(Datagrams)
      BY EmptyOf
    <3>2. QED
      BY <1>13, <3>1 DEF LeaveClient, Types
  <2>2. QED
    BY <1>13, <2>1 DEF LeaveClient, Types, serverVars, history
<1>14. QED
  BY <1>1, <1>2, <1>3, <1>4, <1>5, <1>6, <1>7, <1>8, <1>9, <1>10, <1>11, <1>12, <1>13
     DEF Next, ServerStep, ServiceStep

-----------------------------------------------------------------------------
(* One server. *)

LEMMA AloneStep == ASSUME Types, Alone, Next PROVE Alone'
<1>a. spc \in [Servers -> {"off", "second", "receive", "acknowledge", "poll", "join",
                           "closed", "refused"}]
      /\ starts \subseteq Servers
  BY DEF Types
<1>b. \A s, t \in Servers : Started(s) /\ Started(t) => s = t
  <2>1. ASSUME NEW s \in Servers, NEW t \in Servers, Started(s), Started(t) PROVE s = t
    <3>1. {spc[s], spc[t]} \cap {"off", "second", "refused"} = {}
      BY <2>1 DEF Started
    <3>2. OneServerEver
      BY DEF Alone
    <3>3. QED
      BY <3>1, <3>2, Zenon DEF OneServerEver
  <2>2. QED
    BY <2>1
<1> DEFINE Only == \A s, t \in Servers : Started(s) /\ Started(t) => s = t
<1>c. Only' => OneServerEver'
  BY DEF OneServerEver, Started
<1>1. ASSUME NEW s \in Servers, Start(s) PROVE Alone'
  <2>1. /\ spc[s] = "off" /\ starts' = starts \ {s} /\ current' = current /\ acked' = acked
        /\ \/ /\ "request" \in queues /\ spc' = [spc EXCEPT ![s] = "refused"]
              /\ queues' = queues
           \/ /\ "request" \notin queues /\ spc' = [spc EXCEPT ![s] = "second"]
              /\ queues' = queues \cup {"request"}
    BY <1>1 DEF Start, Exists, Alone, history
  <2>2. \A t \in Servers \ {s} : spc'[t] = spc[t]
    BY <1>a, <2>1
  <2>3. spc'[s] = "refused" \/ (spc'[s] = "second" /\ \A t \in Servers : ~Owner(t))
    BY <1>a, <2>1 DEF Alone
  <2>4. \A t \in Servers : (Started(t)' <=> Started(t)) /\ ~Started(s)
    BY <2>1, <2>2, <2>3 DEF Started
  <2>5. \A t \in Servers : spc'[t] = "acknowledge" <=> spc[t] = "acknowledge"
    BY <2>1, <2>2, <2>3
  <2>6. \A t \in starts' : spc'[t] = "off"
    BY <1>a, <2>1, <2>2 DEF Alone
  <2>7. \A t \in Servers : Owner(t)' => "request" \in queues'
    BY <2>1, <2>2, <2>3 DEF Owner, Serving, Alone
  <2>8. \A t \in Servers : Started(t)' => "reply" \in queues'
    BY <2>1, <2>4 DEF Alone
  <2>9. \A t, u \in Servers : Owner(t)' /\ Owner(u)' => t = u
    BY <2>2, <2>3 DEF Owner, Serving, Alone
  <2>10. Only'
    BY <1>b, <2>4
  <2>11. (current' # Nothing <=> \E t \in Servers : spc'[t] = "acknowledge")
         /\ ((\A t \in Servers : ~Started(t)') => acked' = {})
    BY <2>1, <2>4, <2>5 DEF Alone
  <2>12. QED
    BY <1>c, <2>6, <2>7, <2>8, <2>9, <2>10, <2>11 DEF Alone
<1>2. ASSUME NEW s \in Servers, StartServices(s) PROVE Alone'
  <2>1. /\ spc[s] = "second" /\ starts' = starts /\ current' = current /\ acked' = acked
        /\ \/ /\ spc' = [spc EXCEPT ![s] = "refused"] /\ queues' = queues
           \/ /\ "reply" \notin queues /\ spc' = [spc EXCEPT ![s] = "receive"]
              /\ queues' = queues \cup {"reply"}
    BY <1>2 DEF StartServices, Exists, environment, history
  <2>2. \A t \in Servers \ {s} : spc'[t] = spc[t]
    BY <1>a, <2>1
  <2>3. spc'[s] = "refused" \/ (spc'[s] = "receive" /\ \A t \in Servers : ~Started(t))
    BY <1>a, <2>1 DEF Alone
  <2>4. ~Started(s) /\ \A t \in Servers : Started(t) => Started(t)'
    BY <2>1, <2>2 DEF Started
  <2>5. \A t \in Servers : spc'[t] = "acknowledge" <=> spc[t] = "acknowledge"
    BY <2>1, <2>2, <2>3
  <2>6. \A t \in starts' : spc'[t] = "off"
    BY <1>a, <2>1, <2>2 DEF Alone
  <2>7. \A t \in Servers : (Owner(t)' => Owner(t)) /\ Owner(s)
    BY <2>1, <2>2 DEF Owner, Serving
  <2>8. \A t \in Servers : Owner(t)' => "request" \in queues'
    BY <2>1, <2>7 DEF Alone
  <2>9. \A t \in Servers : Started(t)' => "reply" \in queues'
    BY <1>a, <2>1, <2>2, <2>3 DEF Started, Alone
  <2>10. \A t, u \in Servers : Owner(t)' /\ Owner(u)' => t = u
    BY <2>7 DEF Alone
  <2>11. Only'
    BY <1>b, <2>2, <2>3 DEF Started
  <2>12. (current' # Nothing <=> \E t \in Servers : spc'[t] = "acknowledge")
         /\ ((\A t \in Servers : ~Started(t)') => acked' = {})
    BY <2>1, <2>4, <2>5 DEF Alone
  <2>13. QED
    BY <1>c, <2>6, <2>8, <2>9, <2>10, <2>11, <2>12 DEF Alone
(* A serving server moves on.                                               *)
<1>3. ASSUME NEW s \in Servers, Serving(s), starts' = starts, queues' = queues,
             NEW x \in {"receive", "acknowledge", "poll", "join"}, spc' = [spc EXCEPT ![s] = x],
             current' # Nothing <=> x = "acknowledge"
      PROVE  Alone'
  <2>1. /\ spc'[s] = x /\ Serving(s)' /\ Owner(s) /\ Owner(s)' /\ Started(s) /\ Started(s)'
        /\ spc[s] # "off"
    BY <1>3, <1>a DEF Serving, Owner, Started
  <2>2. \A t \in Servers \ {s} : spc'[t] = spc[t]
    BY <1>3, <1>a
  <2>3. \A t \in Servers : (Owner(t)' <=> Owner(t)) /\ (Started(t)' <=> Started(t))
    BY <2>1, <2>2 DEF Owner, Serving, Started
  <2>4. \A t \in Servers \ {s} : spc[t] # "acknowledge" /\ spc'[t] # "acknowledge"
    BY <2>1, <2>2 DEF Alone, Owner, Serving
  <2>5. current' # Nothing <=> \E t \in Servers : spc'[t] = "acknowledge"
    BY <1>3, <2>1, <2>4
  <2>6. \A t \in starts' : spc'[t] = "off"
    BY <1>a, <1>3, <2>1, <2>2 DEF Alone
  <2>7. Only'
    BY <1>b, <2>3
  <2>8. QED
    BY <1>c, <1>3, <2>1, <2>3, <2>5, <2>6, <2>7 DEF Alone
(* While it is not between queueing a request and acknowledging it,         *)
(* current is Nothing.                                                      *)
<1>4. ASSUME NEW s \in Servers, Serving(s), spc[s] # "acknowledge" PROVE current = Nothing
  BY <1>4 DEF Alone, Owner, Serving
<1>5. ASSUME NEW s \in Servers, Receive(s) PROVE Alone'
  <2>1. Head(inbox).request # Nothing
    <3>1. Head(inbox) \in Datagrams
      BY <1>5, TailOf DEF Receive, Types
    <3>2. QED
      BY <3>1, NothingAssumption, DatagramsAre
  <2>2. Serving(s) /\ starts' = starts /\ queues' = queues /\ spc[s] = "receive"
    BY <1>5 DEF Receive, Serving, environment
  <2>3. \/ current' # Nothing /\ spc' = [spc EXCEPT ![s] = "acknowledge"]
        \/ current' = current /\ spc' = [spc EXCEPT ![s] = "poll"]
    BY <1>5, <2>1 DEF Receive
  <2>4. QED
    BY <1>3, <1>4, <2>2, <2>3
<1>6. ASSUME NEW s \in Servers, ReceiveNothing(s) \/ Leave(s) \/ Acknowledge(s) \/ Poll(s)
      PROVE  Alone'
  <2>1. /\ Serving(s) /\ starts' = starts /\ queues' = queues
        /\ \E x \in {"receive", "poll", "join"} : spc' = [spc EXCEPT ![s] = x]
        /\ spc[s] # "acknowledge" => current' = current
        /\ spc[s] = "acknowledge" => current' = Nothing
    BY <1>6 DEF ReceiveNothing, Leave, Acknowledge, Poll, Serving, environment
  <2>2. QED
    BY <1>3, <1>4, <2>1
<1>7. ASSUME NEW s \in Servers, Close(s) PROVE Alone'
  <2>1. /\ spc[s] = "join" /\ starts' = starts /\ current' = current /\ acked' = acked
        /\ spc' = [spc EXCEPT ![s] = "closed"] /\ queues' = queues \ {"request"}
    BY <1>7 DEF Close, environment, history
  <2>2. spc'[s] = "closed" /\ \A t \in Servers \ {s} : spc'[t] = spc[t]
    BY <1>a, <2>1
  <2>3. \A t \in Servers : Started(t)' <=> Started(t)
    BY <2>1, <2>2 DEF Started
  <2>4. \A t \in Servers : ~Owner(t)'
    BY <2>1, <2>2 DEF Owner, Serving, Alone
  <2>5. \A t \in Servers : spc'[t] = "acknowledge" <=> spc[t] = "acknowledge"
    BY <2>1, <2>2
  <2>6. \A t \in starts' : spc'[t] = "off"
    BY <1>a, <2>1, <2>2 DEF Alone
  <2>7. Only'
    BY <1>b, <2>3
  <2>8. /\ \A t \in Servers : Started(t)' => "reply" \in queues'
        /\ current' # Nothing <=> \E t \in Servers : spc'[t] = "acknowledge"
        /\ (\A t \in Servers : ~Started(t)') => acked' = {}
    BY <2>1, <2>3, <2>5 DEF Alone
  <2>9. QED
    BY <1>c, <2>4, <2>6, <2>7, <2>8 DEF Alone
(* The rest leaves the servers where they are.                              *)
<1>8. ASSUME UNCHANGED <<starts, spc, queues, current, acked>> PROVE Alone'
  BY <1>8 DEF Alone, OneServerEver, Owner, Serving, Started
<1>9. ASSUME NEW s \in Servers, Interrupt(s) PROVE Alone'
  BY <1>8, <1>9 DEF Interrupt, history
<1>10. ASSUME NEW v \in Services, ServiceStep(v) PROVE Alone'
  BY <1>8, <1>10 DEF ServiceStep, Take, Put, EndService, environment, history
<1>11. ASSUME NEW c \in Clients, Type(c) \/ Read(c) \/ LeaveClient(c) PROVE Alone'
  BY <1>8, <1>11 DEF Type, Read, LeaveClient, environment, serverVars, history
<1>12. QED
  BY <1>1, <1>2, <1>5, <1>6, <1>7, <1>9, <1>10, <1>11 DEF Next, ServerStep

-----------------------------------------------------------------------------
(* Where requests are. *)

(* A request moves on or goes; none but those of new appears.               *)
OnlyNew(new) == Handled' \subseteq Handled \cup new /\ Issued' \subseteq Issued \cup new

LEMMA Untouched ==
    ASSUME UNCHANGED <<requests, replies, service, current, inbox, dropped, acked, answered>>
    PROVE  /\ Conserved /\ ((\E s \in Servers : Serving(s))' => \E s \in Servers : Serving(s))
                => Conserved'
           /\ OnlyNew({})
BY DEF Conserved, Issued, Handled, OnlyNew, Arriving, InWork, Working, Queued

LEMMA ConservedStep ==
    ASSUME Types, Alone, Conserved, Numbered, Next
    PROVE  Conserved' /\ (OnlyNew({}) \/ \E c \in Clients : Type(c) /\ OnlyNew({NewRequest(c)}))
<1>a. /\ requests \in Seq(AllRequests) /\ replies \in Seq(AllRequests) /\ inbox \in Seq(Datagrams)
      /\ service \in [Services -> AllRequests \cup {Nothing}] /\ current \in AllRequests \cup {Nothing}
      /\ dropped \subseteq AllRequests /\ acked \subseteq AllRequests /\ answered \subseteq AllRequests
      /\ Nothing \notin AllRequests
  BY NothingAssumption DEF Types
<1>b. Elems(requests) \subseteq AllRequests /\ Elems(replies) \subseteq AllRequests
      /\ Elems(inbox) \subseteq Datagrams /\ Working \subseteq AllRequests
  BY <1>a, ElemsIn DEF Working
<1>c. \A d, e \in Elems(inbox) : d.request = e.request => d = e
  <2>1. \A d \in Elems(inbox) : d = Datagram("request", d.request)
    BY <1>b, DatagramsAre DEF Conserved
  <2>2. QED
    BY <2>1
<1>d. \A s, t \in Servers : Serving(s) /\ Serving(t) => s = t
  BY DEF Alone, Owner
<1>e. ASSUME NEW s \in Servers, Serving(s), spc[s] # "acknowledge" PROVE current = Nothing
  BY <1>e DEF Alone, Owner, Serving
<1>f. \A v, w \in Services : service[v] = service[w] /\ service[v] # Nothing => v = w
  BY DEF Conserved
<1>1. ASSUME NEW s \in Servers, Start(s) PROVE Conserved' /\ OnlyNew({})
  <2>1. UNCHANGED <<requests, replies, service, current, inbox, dropped, acked, answered>>
    BY <1>1 DEF Start, netVars, history
  <2>2. ASSUME NEW t \in Servers, Serving(t)' PROVE Serving(t)
    BY <1>1, <2>2 DEF Start, Serving, Types
  <2>3. QED
    BY <2>1, <2>2, Untouched
<1>2. ASSUME NEW s \in Servers, StartServices(s) PROVE Conserved' /\ OnlyNew({})
  <2>1. UNCHANGED <<requests, replies, service, current, dropped, acked, answered>>
    BY <1>2 DEF StartServices, history
  <2>2. CASE spc'[s] = "refused"
    <3>1. ASSUME NEW t \in Servers, Serving(t)' PROVE Serving(t)
      BY <1>2, <2>2, <3>1 DEF StartServices, Serving, Types
    <3>2. inbox' = <<>>
      BY <1>2, <2>2 DEF StartServices, Types
    <3>3. Elems(inbox') = {} /\ Arriving' = {} /\ Distinct(inbox')
      BY <3>2, EmptyOf DEF Arriving
    <3>4. Conserved'
      BY <2>1, <3>1, <3>3 DEF Conserved, Working, InWork, Queued
    <3>5. QED
      BY <2>1, <3>3, <3>4 DEF Issued, Handled, OnlyNew, Working, InWork, Queued
  <2>3. CASE spc'[s] # "refused"
    <3>1. "reply" \notin queues /\ spc[s] = "second" /\ inbox' = inbox
      BY <1>2, <2>3 DEF StartServices, Exists, Types
    <3>2. acked = {}
      BY <3>1 DEF Alone
    <3>3. current = Nothing
      BY <3>1 DEF Alone, Owner, Serving
    <3>4. acked' \cup Queued' = {}
      BY <2>1, <3>2, <3>3 DEF Queued
    <3>5. UNCHANGED <<Arriving, Working, InWork, Queued>>
      BY <2>1, <3>1 DEF Arriving, Working, InWork, Queued
    <3>6. Conserved'
      BY <2>1, <3>1, <3>4, <3>5 DEF Conserved
    <3>7. QED
      BY <2>1, <3>5, <3>6 DEF Issued, Handled, OnlyNew
  <2>4. QED
    BY <2>2, <2>3
<1>3. ASSUME NEW s \in Servers, Receive(s) PROVE Conserved' /\ OnlyNew({})
  <2>1. /\ UNCHANGED <<replies, service, acked, answered>> /\ inbox # <<>> /\ inbox' = Tail(inbox)
        /\ spc[s] = "receive"
    BY <1>3 DEF Receive, history
  <2>2. PICK d : d = Head(inbox)
    OBVIOUS
  <2>3. Elems(inbox) = {d} \cup Elems(inbox') /\ Distinct(inbox') /\ d \notin Elems(inbox')
    BY <1>a, <2>1, <2>2, TailOf DEF Conserved
  <2>4. PICK r : r = d.request /\ r \in AllRequests
    BY <1>b, <2>3, DatagramsAre
  <2>5. Arriving = {r} \cup Arriving' /\ r \notin Arriving'
    BY <1>c, <2>3, <2>4 DEF Arriving
  <2>6. current = Nothing /\ Queued = {}
    BY <1>e, <2>1 DEF Serving, Queued
  <2>7. Serving(s) /\ Working' = Working
    BY <2>1 DEF Serving, Working
  <2>8. CASE Len(requests) < QueueCapacity
    <3>1. requests' = Append(requests, r) /\ current' = r /\ dropped' = dropped
      BY <1>3, <2>2, <2>4, <2>8 DEF Receive
    <3>2. r \notin Elems(requests)
      BY <2>5 DEF Conserved, InWork
    <3>3. Elems(requests') = Elems(requests) \cup {r} /\ Distinct(requests')
      BY <1>a, <2>4, <3>1, <3>2, AppendOf DEF Conserved
    <3>4. Queued' = {r}
      BY <1>a, <2>4, <3>1 DEF Queued
    <3>5. InWork' = InWork \cup {r}
      BY <2>1, <2>7, <3>3 DEF InWork
    <3>6. Conserved'
      <4>1. r \notin Elems(requests) \cup Working \cup Elems(replies) \cup answered \cup dropped \cup acked
        BY <2>5 DEF Conserved, InWork
      <4>2. QED
        BY <2>1, <2>3, <2>5, <2>6, <2>7, <3>1, <3>3, <3>4, <3>5, <4>1 DEF Conserved
    <3>7. QED
      BY <2>1, <2>5, <2>6, <3>1, <3>4, <3>5, <3>6 DEF Issued, Handled, OnlyNew
  <2>9. CASE ~(Len(requests) < QueueCapacity)
    <3>1. requests' = requests /\ current' = current /\ dropped' = dropped \cup {r}
      BY <1>3, <2>2, <2>4, <2>9 DEF Receive
    <3>2. InWork' = InWork /\ Queued' = {}
      BY <2>1, <2>6, <2>7, <3>1 DEF InWork, Queued
    <3>3. Conserved'
      <4>1. r \notin Elems(requests) \cup Working \cup Elems(replies) \cup answered \cup acked
        BY <2>5 DEF Conserved, InWork
      <4>2. QED
        BY <2>1, <2>3, <2>5, <2>6, <2>7, <3>1, <3>2, <4>1 DEF Conserved
    <3>4. QED
      BY <2>1, <2>5, <2>6, <3>1, <3>2, <3>3 DEF Issued, Handled, OnlyNew
  <2>10. QED
    BY <2>8, <2>9
<1>4. ASSUME NEW s \in Servers, ReceiveNothing(s) \/ Leave(s) \/ Interrupt(s)
      PROVE  Conserved' /\ OnlyNew({})
  <2>1. UNCHANGED <<requests, replies, service, current, inbox, dropped, acked, answered>>
    BY <1>4 DEF ReceiveNothing, Leave, Interrupt, netVars, history
  <2>2. ASSUME NEW t \in Servers, Serving(t)' PROVE Serving(t)
    BY <1>4, <2>2 DEF ReceiveNothing, Leave, Interrupt, Serving, Types
  <2>3. QED
    BY <2>1, <2>2, Untouched
<1>5. ASSUME NEW s \in Servers, Acknowledge(s) PROVE Conserved' /\ OnlyNew({})
  <2>1. /\ UNCHANGED <<requests, replies, service, dropped, answered>> /\ spc[s] = "acknowledge"
        /\ acked' = acked \cup {current} /\ current' = Nothing /\ Send(Datagram("ack", current))
    BY <1>5 DEF Acknowledge
  <2>2. current \in AllRequests
    BY <1>a, <2>1 DEF Alone
  <2>3. inbox' = inbox
    BY <2>1, <2>2, DatagramsAre, Network
  <2>4. /\ Arriving' = Arriving /\ Working' = Working /\ InWork' = InWork
        /\ Queued = {current} /\ Queued' = {} /\ Serving(s)
    BY <1>a, <2>1, <2>2, <2>3 DEF Arriving, Working, InWork, Queued, Serving
  <2>5. Conserved'
    BY <1>a, <2>1, <2>2, <2>3, <2>4 DEF Conserved
  <2>6. QED
    BY <2>1, <2>4, <2>5 DEF Issued, Handled, OnlyNew
<1>6. ASSUME NEW s \in Servers, Poll(s) PROVE Conserved' /\ OnlyNew({})
  <2>1. UNCHANGED <<requests, service, current, dropped, acked>> /\ spc[s] = "poll"
    BY <1>6 DEF Poll
  <2>2. CASE replies = <<>>
    <3>1. UNCHANGED <<requests, replies, service, current, inbox, dropped, acked, answered>>
      BY <1>6, <2>1, <2>2 DEF Poll, netVars
    <3>2. Serving(s)
      BY <2>1 DEF Serving
    <3>3. QED
      BY <3>1, <3>2, Untouched
  <2>3. CASE replies # <<>>
    <3>1. PICK r : r = Head(replies)
      OBVIOUS
    <3>2. replies' = Tail(replies) /\ answered' = answered \cup {r} /\ Send(Datagram("reply", r))
      BY <1>6, <2>3, <3>1 DEF Poll
    <3>3. /\ Elems(replies) = {r} \cup Elems(replies') /\ Distinct(replies')
          /\ r \notin Elems(replies') /\ r \in AllRequests
      BY <1>a, <2>3, <3>1, <3>2, TailOf DEF Conserved
    <3>4. inbox' = inbox
      BY <3>2, <3>3, DatagramsAre, Network
    <3>5. Arriving' = Arriving /\ Working' = Working /\ Queued' = Queued /\ InWork = InWork' \cup {r}
      BY <2>1, <3>3, <3>4 DEF Arriving, Working, Queued, InWork
    <3>6. Queued = {} /\ Serving(s)
      BY <1>e, <2>1 DEF Queued, Serving
    <3>7. Conserved'
      <4>1. r \in acked /\ r \notin Elems(requests) \cup Working \cup answered \cup dropped
        BY <3>3, <3>5, <3>6 DEF Conserved
      <4>2. QED
        BY <2>1, <3>2, <3>3, <3>4, <3>5, <3>6, <4>1 DEF Conserved
    <3>8. QED
      BY <2>1, <3>2, <3>5, <3>7 DEF Issued, Handled, OnlyNew
  <2>4. QED
    BY <2>2, <2>3
<1>7. ASSUME NEW s \in Servers, Close(s) PROVE Conserved' /\ OnlyNew({})
  <2>1. /\ UNCHANGED <<replies, service, current, dropped, acked, answered>>
        /\ requests' = <<>> /\ inbox' = <<>> /\ spc[s] = "join" /\ spc' = [spc EXCEPT ![s] = "closed"]
    BY <1>7 DEF Close, history
  <2>2. Elems(inbox') = {} /\ Distinct(inbox') /\ Elems(requests') = {} /\ Distinct(requests')
    BY <2>1, EmptyOf
  <2>3. Arriving' = {} /\ Working' = Working /\ Queued' = Queued /\ InWork' \subseteq InWork
    BY <2>1, <2>2 DEF Arriving, Working, Queued, InWork
  <2>4. ASSUME NEW t \in Servers, Serving(t)' PROVE FALSE
    <3>1. t # s /\ Serving(t)
      BY <2>1, <2>4 DEF Types, Serving
    <3>2. QED
      BY <1>d, <2>1, <3>1 DEF Serving
  <2>5. Conserved'
    BY <2>1, <2>2, <2>3, <2>4 DEF Conserved
  <2>6. QED
    BY <2>1, <2>3, <2>5 DEF Issued, Handled, OnlyNew
<1>8. ASSUME NEW v \in Services, Take(v) PROVE Conserved' /\ OnlyNew({})
  <2>1. /\ UNCHANGED <<spc, replies, current, inbox, dropped, acked, answered>> /\ service[v] = Nothing
        /\ requests # <<>> /\ requests' = Tail(requests)
        /\ service' = [service EXCEPT ![v] = Head(requests)]
    BY <1>8 DEF Take, netVars, history
  <2>2. PICK r : r = Head(requests)
    OBVIOUS
  <2>3. /\ Elems(requests) = {r} \cup Elems(requests') /\ Distinct(requests')
        /\ r \notin Elems(requests') /\ r \in AllRequests
    BY <1>a, <2>1, <2>2, TailOf DEF Conserved
  <2>4. service'[v] = r /\ \A w \in Services \ {v} : service'[w] = service[w]
    BY <1>a, <2>1, <2>2
  <2>5. Working' = Working \cup {r}
    BY <1>a, <2>1, <2>3, <2>4 DEF Working
  <2>6. /\ Arriving' = Arriving /\ Queued' = Queued /\ InWork' = InWork
        /\ ((\E s \in Servers : Serving(s))' <=> \E s \in Servers : Serving(s))
    BY <2>1, <2>3, <2>5 DEF Arriving, Queued, InWork, Serving
  <2>7. ASSUME NEW w \in Services, NEW u \in Services, service'[w] = service'[u], service'[w] # Nothing
        PROVE  w = u
    <3>1. r \notin Working
      BY <2>3 DEF Conserved
    <3>2. \A t \in Services : service[t] # r
      BY <1>a, <2>3, <3>1 DEF Working
    <3>3. QED
      BY <1>f, <2>4, <2>7, <3>2
  <2>8. Conserved'
    BY <2>1, <2>3, <2>5, <2>6, <2>7 DEF Conserved
  <2>9. QED
    BY <2>1, <2>6, <2>8 DEF Issued, Handled, OnlyNew
<1>9. ASSUME NEW v \in Services, Put(v) PROVE Conserved' /\ OnlyNew({})
  <2>1. PICK r : r = service[v]
    OBVIOUS
  <2>2. /\ UNCHANGED <<spc, requests, current, inbox, acked, answered>> /\ r # Nothing
        /\ service' = [service EXCEPT ![v] = Nothing]
        /\ \/ replies' = Append(replies, r) /\ dropped' = dropped
           \/ replies' = replies /\ dropped' = dropped \cup {r}
    BY <1>9, <2>1 DEF Put, netVars, history
  <2>3. r \in AllRequests /\ r \in Working
    BY <1>a, <2>1, <2>2 DEF Working
  <2>4. service'[v] = Nothing /\ \A w \in Services \ {v} : service'[w] = service[w]
    BY <1>a, <2>2
  <2>5. Working = Working' \cup {r} /\ r \notin Working'
    <3>1. \A w \in Services \ {v} : service[w] # r
      BY <1>f, <2>1, <2>2
    <3>2. QED
      BY <2>1, <2>2, <2>4, <3>1 DEF Working
  <2>6. /\ Arriving' = Arriving /\ Queued' = Queued
        /\ ((\E s \in Servers : Serving(s))' <=> \E s \in Servers : Serving(s))
    BY <2>2 DEF Arriving, Queued, Serving
  <2>7. \A w, u \in Services : service'[w] = service'[u] /\ service'[w] # Nothing => w = u
    BY <1>f, <2>4
  <2>8. r \notin Elems(requests) \cup Elems(replies) \cup answered \cup dropped \cup Arriving
    BY <2>3 DEF Conserved, InWork
  <2>9. CASE replies' = Append(replies, r) /\ dropped' = dropped
    <3>1. Elems(replies') = Elems(replies) \cup {r} /\ Distinct(replies')
      BY <1>a, <2>3, <2>8, <2>9, AppendOf DEF Conserved
    <3>2. InWork' = InWork
      BY <2>2, <2>5, <3>1 DEF InWork
    <3>3. Conserved'
      BY <2>2, <2>5, <2>6, <2>7, <2>8, <2>9, <3>1, <3>2 DEF Conserved
    <3>4. QED
      BY <2>2, <2>6, <2>9, <3>2, <3>3 DEF Issued, Handled, OnlyNew
  <2>10. CASE replies' = replies /\ dropped' = dropped \cup {r}
    <3>1. InWork = InWork' \cup {r}
      BY <2>2, <2>5, <2>10 DEF InWork
    <3>2. Conserved'
      BY <2>2, <2>5, <2>6, <2>7, <2>8, <2>10, <3>1 DEF Conserved
    <3>3. QED
      BY <2>2, <2>6, <2>10, <3>1, <3>2 DEF Issued, Handled, OnlyNew
  <2>11. QED
    BY <2>2, <2>9, <2>10
<1>10. ASSUME NEW v \in Services, EndService(v) PROVE Conserved' /\ OnlyNew({})
  <2>1. UNCHANGED <<spc, requests, replies, service, current, inbox, dropped, acked, answered>>
    BY <1>10 DEF EndService, netVars, history
  <2>2. QED
    BY <2>1, Untouched DEF Serving
<1>11. ASSUME NEW c \in Clients, Type(c)
       PROVE  Conserved' /\ OnlyNew({NewRequest(c)})
  <2>1. /\ UNCHANGED <<spc, requests, replies, service, current, dropped, acked, answered>>
        /\ Send(Datagram("request", NewRequest(c))) /\ lines[c] \in Nat \ {0} /\ mid[c] \in Int
    BY <1>11, ProducerConsumerAssumption DEF Type, serverVars, history, Types, CharMin
  <2>2. PICK r : r = NewRequest(c) /\ r \in AllRequests /\ r.client = c /\ r.n = lines[c]
    BY <2>1, Shorts DEF NewRequest, AllRequests
  <2>3. r \notin Issued
    <3>1. ~(lines[c] < lines[c])
      BY <2>1
    <3>2. QED
      BY <2>2, <3>1 DEF Numbered
  <2>4. PICK d : d = Datagram("request", r) /\ d \in Datagrams /\ d.request = r /\ d.kind = "request"
    BY <2>2, DatagramsAre
  <2>5. UNCHANGED <<Working, InWork, Queued>>
    BY <2>1 DEF Working, InWork, Queued
  <2>6. CASE inbox' = inbox
    BY <2>1, <2>6, Untouched DEF Serving, OnlyNew
  <2>7. CASE inbox' = Append(inbox, d)
    <3>1. d \notin Elems(inbox)
      BY <2>3, <2>4 DEF Issued, Handled, OnlyNew, Arriving
    <3>2. Elems(inbox') = Elems(inbox) \cup {d} /\ Distinct(inbox')
      BY <1>a, <2>4, <2>7, <3>1, AppendOf DEF Conserved
    <3>3. Arriving' = Arriving \cup {r}
      BY <2>4, <3>2 DEF Arriving
    <3>4. (\E s \in Servers : Serving(s))' <=> \E s \in Servers : Serving(s)
      BY <2>1 DEF Serving
    <3>5. Conserved'
      <4>1. r \notin InWork \cup answered \cup dropped \cup acked \cup Queued
        BY <2>3 DEF Issued, Handled, OnlyNew
      <4>2. QED
        BY <2>1, <2>4, <2>5, <3>2, <3>3, <3>4, <4>1 DEF Conserved
    <3>6. QED
      BY <2>1, <2>2, <2>5, <3>3, <3>5 DEF Issued, Handled, OnlyNew
  <2>8. QED
    BY <2>1, <2>2, <2>4, <2>6, <2>7, Network
<1>12. ASSUME NEW c \in Clients, Read(c) \/ LeaveClient(c) PROVE Conserved' /\ OnlyNew({})
  <2>1. UNCHANGED <<spc, requests, replies, service, current, inbox, dropped, acked, answered>>
    BY <1>12 DEF Read, LeaveClient, serverVars, history
  <2>2. QED
    BY <2>1, Untouched DEF Serving
<1>13. QED
  BY <1>1, <1>2, <1>3, <1>4, <1>5, <1>6, <1>7, <1>8, <1>9, <1>10, <1>11, <1>12
     DEF Next, ServerStep, ServiceStep

LEMMA NumberedStep ==
    ASSUME Types, Alone, Conserved, Numbered, Next PROVE Numbered'
<1>1. lines \in [Clients -> Nat]
  BY DEF Types
<1>2. Issued \subseteq AllRequests
  <2>1. /\ Elems(requests) \subseteq AllRequests /\ Elems(replies) \subseteq AllRequests
        /\ Elems(inbox) \subseteq Datagrams
    BY ElemsIn DEF Types
  <2>2. Arriving \subseteq AllRequests
    BY <2>1, DatagramsAre DEF Arriving
  <2>3. QED
    BY <2>1, <2>2 DEF Types, Issued, Handled, InWork, Working, Queued
<1>3. \A r \in AllRequests : r.client \in Clients /\ r.n \in Nat
  BY DEF AllRequests
<1>4. ASSUME NEW c \in Clients, Type(c), OnlyNew({NewRequest(c)}) PROVE Numbered'
  <2>1. lines' = [lines EXCEPT ![c] = lines[c] - 1] /\ NewRequest(c).client = c
        /\ NewRequest(c).n = lines[c]
    BY <1>4 DEF Type, NewRequest
  <2>2. \A x \in Clients : lines'[x] = IF x = c THEN lines[c] - 1 ELSE lines[x]
    BY <1>1, <2>1
  <2>3. ASSUME NEW r \in Issued PROVE lines'[r.client] < r.n
    <3>1. r.client \in Clients /\ r.n \in Nat /\ lines[r.client] < r.n /\ lines[r.client] \in Nat
      BY <1>1, <1>2, <1>3 DEF Numbered
    <3>2. QED
      BY <1>1, <2>2, <3>1
  <2>4. lines'[NewRequest(c).client] < NewRequest(c).n
    BY <1>1, <2>1, <2>2
  <2>5. QED
    BY <1>4, <2>3, <2>4 DEF Numbered, OnlyNew
<1>5. ASSUME ~\E c \in Clients : Type(c) PROVE lines' = lines
  BY <1>5 DEF Next, ServerStep, ServiceStep, Start, Interrupt, StartServices, Receive,
     ReceiveNothing, Acknowledge, Poll, Leave, Close, Take, Put, EndService, Read, LeaveClient,
     clientVars
<1>6. CASE OnlyNew({})
  <2>1. CASE \E c \in Clients : Type(c)
    BY <1>4, <1>6, <2>1 DEF OnlyNew
  <2>2. CASE ~\E c \in Clients : Type(c)
    BY <1>5, <1>6, <2>2 DEF Numbered, OnlyNew
  <2>3. QED
    BY <2>1, <2>2
<1>7. QED
  BY <1>4, <1>6, ConservedStep

-----------------------------------------------------------------------------
(* What a client takes and counts. *)

LEMMA Pairs ==
    \A x, y : /\ Elems(<<x>>) = {x} /\ Elems(<<x, y>>) = {x, y}
              /\ Len(<<x>>) = 1 /\ Len(<<x, y>>) = 2
              /\ Append(<<>>, x) = <<x>> /\ Append(<<x>>, y) = <<x, y>>
<1>1. ASSUME NEW x, NEW y
      PROVE  /\ Elems(<<x>>) = {x} /\ Elems(<<x, y>>) = {x, y}
             /\ Len(<<x>>) = 1 /\ Len(<<x, y>>) = 2
             /\ Append(<<>>, x) = <<x>> /\ Append(<<x>>, y) = <<x, y>>
  <2>a. /\ Len(<<x>>) = 1 /\ Len(<<x, y>>) = 2
        /\ <<x>>[1] = x /\ <<x, y>>[1] = x /\ <<x, y>>[2] = y
    OBVIOUS
  <2>b. <<x>> \in Seq({x}) /\ <<x>> \in Seq({x, y}) /\ <<x, y>> \in Seq({x, y})
    OBVIOUS
  <2>1. PICK q : q = <<x>> /\ Len(q) = 1 /\ q[1] = x /\ q \in Seq({x}) /\ q \in Seq({x, y})
    BY <2>a, <2>b, Zenon
  <2>2. PICK t : t = <<x, y>> /\ Len(t) = 2 /\ t[1] = x /\ t[2] = y /\ t \in Seq({x, y})
    BY <2>a, <2>b, Zenon
  <2>3. 1..1 = {1} /\ 1..2 = {1, 2}
    OBVIOUS
  <2>4. Elems(q) = {x} /\ Elems(t) = {x, y}
    BY <2>1, <2>2, <2>3 DEF Elems
  <2>5. Append(<<>>, x) = q
    <3>1. /\ q \in Seq({x}) /\ Append(<<>>, x) \in Seq({x}) /\ Len(Append(<<>>, x)) = 1
          /\ Append(<<>>, x)[1] = x
      <4>1. <<>> \in Seq({x}) /\ Len(<<>>) = 0
        OBVIOUS
      <4>2. QED
        BY <2>1, <4>1, AppendOf
    <3>2. QED
      BY <2>1, <2>3, <3>1, SeqEqual
  <2>6. Append(q, y) = t
    <3>1. /\ t \in Seq({x, y}) /\ Append(q, y) \in Seq({x, y}) /\ Len(Append(q, y)) = 2
          /\ Append(q, y)[1] = x /\ Append(q, y)[2] = y
      <4>1. q \in Seq({x, y}) /\ t \in Seq({x, y})
        BY <2>1, <2>2
      <4>2. QED
        BY <2>1, <2>3, <4>1, AppendOf
    <3>2. QED
      BY <2>2, <2>3, <3>1, SeqEqual
  <2>7. QED
    BY <2>1, <2>2, <2>4, <2>5, <2>6
<1>2. QED
  BY <1>1

LEMMA Kinds ==
    ASSUME NEW c, NEW p \in AllRequests, OwnCount(c, p)
    PROVE  /\ \A e \in Elems(counted[c]) :
                 \/ e = Datagram("ack", p) /\ e.kind = "ack" /\ p \in acked
                 \/ e = Datagram("reply", p) /\ e.kind = "reply" /\ p \in answered
           /\ waiting[c] = 0 => \E e \in Elems(counted[c]) : e.kind = "reply" /\ p \in answered
                                                           /\ Datagram("ack", p) \in Elems(counted[c])
           /\ waiting[c] = 0 => counted[c] = <<Datagram("ack", p), Datagram("reply", p)>>
<1> DEFINE a == Datagram("ack", p)
           b == Datagram("reply", p)
<1>1. a.kind = "ack" /\ b.kind = "reply"
  BY DatagramsAre
<1>2. /\ counted[c] \in {<<>>, <<a>>, <<b>>, <<a, b>>} /\ waiting[c] = 2 - Len(counted[c])
      /\ a \in Elems(counted[c]) => p \in acked
      /\ b \in Elems(counted[c]) => p \in answered
  BY DEF OwnCount
<1>3. /\ Elems(<<>>) = {} /\ Elems(<<a>>) = {a} /\ Elems(<<b>>) = {b} /\ Elems(<<a, b>>) = {a, b}
      /\ Len(<<>>) = 0 /\ Len(<<a>>) = 1 /\ Len(<<b>>) = 1 /\ Len(<<a, b>>) = 2
  BY EmptyOf, Pairs
<1>4. \A e \in Elems(counted[c]) : e \in {a, b}
  <2> HIDE DEF a, b
  <2>1. QED
    BY <1>2, <1>3
<1>5. waiting[c] = 0 => counted[c] = <<a, b>>
  <2> HIDE DEF a, b
  <2>1. QED
    BY <1>2, <1>3
<1>6. waiting[c] = 0 => a \in Elems(counted[c]) /\ b \in Elems(counted[c])
  BY <1>3, <1>5
<1>7. QED
  <2> HIDE DEF a, b
  <2>1. \A e \in Elems(counted[c]) : \/ e = a /\ e.kind = "ack" /\ p \in acked
                                     \/ e = b /\ e.kind = "reply" /\ p \in answered
    BY <1>1, <1>2, <1>4
  <2>2. waiting[c] = 0 => b \in Elems(counted[c]) /\ b.kind = "reply" /\ p \in answered
                          /\ a \in Elems(counted[c])
    BY <1>1, <1>2, <1>6
  <2>3. QED
    BY <1>5, <2>1, <2>2 DEF a, b

(* What a datagram that reaches a client must be for its mail to stay in    *)
(* order.                                                                   *)
Fits(c, d) ==
    d.request.client = c =>
        /\ d.request = pending[c]
        /\ d.kind = "ack" => d.request \in acked'
        /\ d.kind = "reply" => d.request \in answered'
        /\ \A j \in 1..Len(raw[c]) : raw[c][j].request.client = c => Before(raw[c][j].kind, d.kind)
        /\ \A e \in Elems(counted[c]) : Before(e.kind, d.kind)

LEMMA Arrives ==
    ASSUME Types, NEW c \in Clients, Orderly(c), NEW d \in Datagrams, Fits(c, d),
           raw'[c] = raw[c] \/ raw'[c] = Append(raw[c], d),
           pending'[c] = pending[c], counted'[c] = counted[c], waiting'[c] = waiting[c],
           mid'[c] = mid[c], acked \subseteq acked', answered \subseteq answered',
           \A r \in Handled' : r.client = c => r \in Handled
    PROVE  Orderly(c)'
<1>1. PICK p : p = pending[c]
  OBVIOUS
<1>2. OwnMail(c, p) /\ (\A r \in Handled : r.client = c => r = p)
      /\ IF p = Nothing THEN waiting[c] = 0 ELSE OwnCount(c, p)
  BY <1>1 DEF Orderly
<1>3. IF p = Nothing THEN waiting'[c] = 0 ELSE OwnCount(c, p)'
  BY <1>2 DEF OwnCount
<1>4. OwnMail(c, p)'
  <2>1. CASE raw'[c] = raw[c]
    BY <1>2, <2>1 DEF OwnMail
  <2>2. CASE raw'[c] = Append(raw[c], d)
    <3>1. raw[c] \in Seq(Datagrams)
      BY DEF Types
    <3>2. /\ Len(raw[c]) \in Nat /\ Len(raw'[c]) = Len(raw[c]) + 1 /\ raw'[c][Len(raw[c]) + 1] = d
          /\ \A i \in 1..Len(raw[c]) : raw'[c][i] = raw[c][i]
      BY <2>2, <3>1, AppendOf
    <3>3. ASSUME NEW i \in 1..Len(raw'[c]), raw'[c][i].request.client = c
          PROVE  /\ raw'[c][i].request = p
                 /\ raw'[c][i].kind = "ack" => p \in acked'
                 /\ raw'[c][i].kind = "reply" => p \in answered'
                 /\ \A j \in 1..(i - 1) :
                       raw'[c][j].request.client = c => Before(raw'[c][j].kind, raw'[c][i].kind)
                 /\ \A e \in Elems(counted'[c]) : Before(e.kind, raw'[c][i].kind)
      <4>1. CASE i \in 1..Len(raw[c])
        <5>1. \A j \in 1..(i - 1) : j \in 1..Len(raw[c])
          BY <3>2, <4>1
        <5>2. QED
          BY <1>2, <3>2, <3>3, <4>1, <5>1 DEF OwnMail
      <4>2. CASE i = Len(raw[c]) + 1
        <5>1. \A j \in 1..(i - 1) : j \in 1..Len(raw[c])
          BY <3>2, <4>2
        <5>2. d.request.client = c /\ raw'[c][i] = d
          BY <3>2, <3>3, <4>2
        <5>3. QED
          BY <1>1, <3>2, <4>2, <5>1, <5>2 DEF Fits
      <4>3. QED
        BY <3>2, <4>1, <4>2
    <3>4. QED
      BY <3>3 DEF OwnMail
  <2>3. QED
    BY <2>1, <2>2
<1>5. QED
  BY <1>1, <1>2, <1>3, <1>4 DEF Orderly

(* A client takes what is first in its socket.                              *)
LEMMA Taken ==
    ASSUME Types, NEW c \in Clients, Orderly(c), c \notin mixed', Read(c)
    PROVE  Orderly(c)'
<1>a. raw[c] \in Seq(Datagrams) /\ raw[c] # <<>> /\ waiting[c] \in 1..2 /\ c \in Clients
      /\ mid[c] \in Int /\ counted[c] \in Seq(Datagrams)
  BY ProducerConsumerAssumption DEF Types, Read, CharMin
<1>b. raw'[c] = Tail(raw[c]) /\ UNCHANGED <<pending, acked, answered, Handled>>
  BY DEF Read, Types, serverVars, history, Handled, Arriving, InWork, Working, Queued
<1>1. PICK p : p = pending[c]
  OBVIOUS
<1>2. p \in AllRequests /\ p # Nothing /\ OwnMail(c, p) /\ OwnCount(c, p) /\ p.id = Short(mid[c])
      /\ \A r \in Handled : r.client = c => r = p
  BY <1>1, <1>a, NothingAssumption DEF Types, Orderly, OwnCount
<1>3. PICK d : d = Head(raw[c]) /\ d = raw[c][1] /\ d \in Datagrams
  BY <1>a, TailOf
<1>t. /\ 1 \in 1..Len(raw[c]) /\ Len(raw[c]) \in Nat /\ Len(Tail(raw[c])) = Len(raw[c]) - 1
      /\ \A i \in 1..Len(Tail(raw[c])) : i + 1 \in 1..Len(raw[c]) /\ Tail(raw[c])[i] = raw[c][i + 1]
  BY <1>a, TailOf
(* Its mail stays in order, whether d counts or not.                        *)
<1>4. ASSUME NEW i \in 1..Len(raw'[c]), raw'[c][i].request.client = c
      PROVE  /\ raw'[c][i].request = p
             /\ raw'[c][i].kind = "ack" => p \in acked'
             /\ raw'[c][i].kind = "reply" => p \in answered'
             /\ \A j \in 1..(i - 1) :
                   raw'[c][j].request.client = c => Before(raw'[c][j].kind, raw'[c][i].kind)
             /\ \A e \in Elems(counted[c]) : Before(e.kind, raw'[c][i].kind)
             /\ d.request.client = c => Before(d.kind, raw'[c][i].kind)
  <2>1. PICK k : k = i + 1 /\ k \in 1..Len(raw[c]) /\ raw'[c][i] = raw[c][k] /\ 1 \in 1..(k - 1)
    <3>1. i \in Nat /\ i >= 1
      BY <1>b, <1>4, <1>t
    <3>2. QED
      BY <1>b, <1>t, <1>4, <3>1
  <2>2. ASSUME NEW j \in 1..(i - 1) PROVE j + 1 \in 1..(k - 1) /\ raw'[c][j] = raw[c][j + 1]
    <3>1. i \in Nat /\ i <= Len(Tail(raw[c])) /\ Len(Tail(raw[c])) \in Nat
      BY <1>b, <1>4, <1>t
    <3>2. j \in 1..Len(Tail(raw[c])) /\ j + 1 \in 1..(k - 1)
      BY <2>1, <2>2, <3>1
    <3>3. QED
      BY <1>b, <1>t, <3>2
  <2>3. /\ raw[c][k].request = p
        /\ raw[c][k].kind = "ack" => p \in acked
        /\ raw[c][k].kind = "reply" => p \in answered
        /\ \A j \in 1..(k - 1) : raw[c][j].request.client = c => Before(raw[c][j].kind, raw[c][k].kind)
        /\ \A e \in Elems(counted[c]) : Before(e.kind, raw[c][k].kind)
    BY <1>2, <1>4, <2>1 DEF OwnMail
  <2>4. \A j \in 1..(i - 1) : raw'[c][j].request.client = c => Before(raw'[c][j].kind, raw'[c][i].kind)
    BY <2>1, <2>2, <2>3
  <2>5. d.request.client = c => Before(d.kind, raw'[c][i].kind)
    BY <1>3, <2>1, <2>3
  <2>6. QED
    BY <1>b, <2>1, <2>3, <2>4, <2>5
<1>5. CASE d.id # ExpectedId(c)
  <2>1. UNCHANGED <<waiting, mid, counted>>
    BY <1>3, <1>5 DEF Read
  <2>2. OwnMail(c, p)'
    BY <1>4, <2>1 DEF OwnMail
  <2>3. OwnCount(c, p)'
    BY <1>2, <1>b, <2>1 DEF OwnCount
  <2>4. QED
    BY <1>1, <1>2, <1>b, <2>2, <2>3 DEF Orderly
<1>6. CASE d.id = ExpectedId(c)
  <2>1. /\ waiting' = [waiting EXCEPT ![c] = waiting[c] - 1]
        /\ mid' = [mid EXCEPT ![c] = IF waiting[c] = 1 THEN NextMid(mid[c]) ELSE mid[c]]
        /\ counted' = [counted EXCEPT ![c] = Append(counted[c], d)]
        /\ mixed' = IF d.request.client = c THEN mixed ELSE mixed \cup {c}
    BY <1>3, <1>6 DEF Read
  <2>2. d.request.client = c
    BY <2>1
  <2>3. /\ d.request = p /\ (d.kind = "ack" => p \in acked) /\ (d.kind = "reply" => p \in answered)
        /\ \A e \in Elems(counted[c]) : Before(e.kind, d.kind)
    BY <1>2, <1>3, <1>t, <2>2 DEF OwnMail
  <2>4. d = Datagram(d.kind, p) /\ d.kind \in {"request", "ack", "reply"}
    BY <1>3, <2>3, DatagramsAre
  <2>5. d.kind # "request"
    <3>1. ASSUME d.kind = "request" PROVE FALSE
      <4>1. d.id = Short(mid[c])
        BY <1>2, <2>4, <3>1 DEF Datagram
      <4>2. QED
        BY <1>6, <1>a, <4>1, Shorts DEF ExpectedId
    <3>2. QED
      BY <3>1
  <2>6. PICK a, b : a = Datagram("ack", p) /\ b = Datagram("reply", p) /\ a.kind = "ack" /\ b.kind = "reply"
    BY <1>2, DatagramsAre
  <2>7. d = a \/ d = b
    BY <2>4, <2>5, <2>6
  <2>8. /\ counted[c] \in {<<>>, <<a>>, <<b>>, <<a, b>>} /\ waiting[c] = 2 - Len(counted[c])
        /\ a \in Elems(counted[c]) => p \in acked
        /\ b \in Elems(counted[c]) => p \in answered
    BY <1>2, <2>6 DEF OwnCount
  <2>9. Elems(<<b>>) = {b} /\ Elems(<<a>>) = {a} /\ a \in Elems(<<a, b>>) /\ b \in Elems(<<a, b>>)
    BY Pairs
  <2>10. counted[c] = <<>> \/ (counted[c] = <<a>> /\ d = b)
    <3>1. ~Before("reply", "ack") /\ ~Before("reply", "reply") /\ ~Before("ack", "ack")
      BY DEF Before
    <3>2. b \notin Elems(counted[c])
      BY <2>3, <2>6, <2>7, <3>1
    <3>3. a \in Elems(counted[c]) => d = b
      BY <2>3, <2>6, <2>7, <3>1
    <3>4. QED
      BY <2>8, <2>9, <3>2, <3>3
  <2>11. counted'[c] = Append(counted[c], d) /\ waiting'[c] = waiting[c] - 1
         /\ (waiting[c] # 1 => mid'[c] = mid[c])
    BY <2>1 DEF Types
  <2>12. /\ counted'[c] \in {<<>>, <<a>>, <<b>>, <<a, b>>} /\ waiting'[c] = 2 - Len(counted'[c])
         /\ Elems(counted'[c]) = Elems(counted[c]) \cup {d}
    <3>1. Append(<<>>, d) = <<d>> /\ Append(<<a>>, d) = <<a, d>>
      BY Pairs
    <3>2. /\ Len(Append(counted[c], d)) = Len(counted[c]) + 1 /\ Len(counted[c]) \in Nat
          /\ Elems(Append(counted[c], d)) = Elems(counted[c]) \cup {d}
      BY <1>a, <1>3, AppendOf
    <3>3. waiting'[c] = 2 - Len(counted'[c])
      BY <1>a, <2>8, <2>11, <3>2
    <3>4. counted'[c] \in {<<>>, <<a>>, <<b>>, <<a, b>>}
      BY <2>7, <2>10, <2>11, <3>1
    <3>5. QED
      BY <2>11, <3>2, <3>3, <3>4
  <2>13. OwnCount(c, p)'
    <3>1. a \in Elems(counted'[c]) => p \in acked'
      BY <1>b, <2>3, <2>6, <2>8, <2>12
    <3>2. b \in Elems(counted'[c]) => p \in answered'
      BY <1>b, <2>3, <2>6, <2>8, <2>12
    <3>3. waiting'[c] > 0 => p.id = Short(mid'[c])
      BY <1>a, <1>2, <2>11
    <3>4. QED
      BY <2>6, <2>12, <3>1, <3>2, <3>3 DEF OwnCount
  <2>14. OwnMail(c, p)'
    BY <1>4, <2>2, <2>12 DEF OwnMail
  <2>15. QED
    BY <1>1, <1>2, <1>b, <2>13, <2>14 DEF Orderly
<1>7. QED
  BY <1>5, <1>6

(* A client that types has nothing left of its last request.                *)
LEMMA Typed ==
    ASSUME Types, Conserved, NEW c \in Clients, Orderly(c), Type(c), OnlyNew({NewRequest(c)})
    PROVE  Orderly(c)'
<1>1. PICK r : r = NewRequest(c) /\ r \in AllRequests /\ r.client = c /\ r.id = Short(mid[c])
  <2>1. lines[c] \in Nat \ {0} /\ mid[c] \in Int
    BY ProducerConsumerAssumption DEF Type, Types, CharMin
  <2>2. Short(mid[c]) \in 0..ShortSize - 1
    BY <2>1, Shorts
  <2>3. NewRequest(c) \in AllRequests /\ NewRequest(c).client = c /\ NewRequest(c).id = Short(mid[c])
    BY <2>1, <2>2 DEF NewRequest, AllRequests
  <2>4. QED
    BY <2>3
<1>2. PICK d : d = Datagram("request", r) /\ d \in Datagrams /\ d.request = r /\ d.kind = "request"
  BY <1>1, DatagramsAre
<1>3. /\ pending'[c] = r /\ counted'[c] = <<>> /\ waiting'[c] = 2 /\ mid'[c] = mid[c]
      /\ waiting[c] = 0 /\ Send(d)
  BY <1>1, <1>2 DEF Type, Types
<1>4. PICK p : p = pending[c]
  OBVIOUS
<1>5. /\ OwnMail(c, p) /\ \A q \in Handled : q.client = c => q = p
      /\ p # Nothing => OwnCount(c, p) /\ p \in AllRequests
  BY <1>4 DEF Orderly, Types
<1>a. raw[c] \in Seq(Datagrams)
  BY DEF Types
<1>6. \A q \in Handled : q.client # c
  <2>1. CASE p = Nothing
    <3>1. Handled \subseteq AllRequests
      <4>1. /\ Elems(requests) \subseteq AllRequests /\ Elems(replies) \subseteq AllRequests
            /\ Elems(inbox) \subseteq Datagrams
        BY ElemsIn DEF Types
      <4>2. Arriving \subseteq AllRequests
        BY <4>1, DatagramsAre DEF Arriving
      <4>3. QED
        BY <4>1, <4>2 DEF Types, Handled, InWork, Working, Queued
    <3>2. QED
      BY <1>5, <2>1, <3>1, NothingAssumption
  <2>2. CASE p # Nothing
    <3>1. p \in answered
      BY <1>3, <1>5, <2>2, Kinds
    <3>2. p \in acked /\ p \notin Arriving /\ p \notin InWork /\ p \notin Queued
      BY <3>1 DEF Conserved, InWork, Queued
    <3>3. QED
      BY <1>5, <3>2 DEF Handled
  <2>3. QED
    BY <2>1, <2>2
<1>7. \A i \in 1..Len(raw[c]) : raw[c][i].request.client # c
  <2>1. CASE p = Nothing
    <3>1. ASSUME NEW i \in 1..Len(raw[c]) PROVE raw[c][i].request # Nothing
      <4>1. raw[c][i] \in Datagrams
        BY <1>a
      <4>2. QED
        BY <4>1, DatagramsAre, NothingAssumption
    <3>2. QED
      BY <1>5, <2>1, <3>1 DEF OwnMail
  <2>2. CASE p # Nothing
    <3>1. PICK e \in Elems(counted[c]) : e.kind = "reply"
      BY <1>3, <1>5, <2>2, Kinds
    <3>2. \A k : ~Before("reply", k)
      BY DEF Before
    <3>3. QED
      BY <1>5, <3>1, <3>2 DEF OwnMail
  <2>3. QED
    BY <2>1, <2>2
<1>8. \A q \in Handled' : q.client = c => q = r
  BY <1>1, <1>6 DEF OnlyNew
<1>9. OwnMail(c, r)'
  <2>1. raw'[c] = raw[c] \/ raw'[c] = Append(raw[c], d)
    BY <1>2, <1>3, Network
  <2>2. Elems(counted'[c]) = {}
    BY <1>3, EmptyOf
  <2>3. /\ Len(Append(raw[c], d)) = Len(raw[c]) + 1 /\ Len(raw[c]) \in Nat
        /\ Append(raw[c], d)[Len(raw[c]) + 1] = d
        /\ \A i \in 1..Len(raw[c]) : Append(raw[c], d)[i] = raw[c][i]
    BY <1>a, <1>2, AppendOf
  <2>4. ASSUME NEW i \in 1..Len(raw'[c]), raw'[c][i].request.client = c
        PROVE  raw'[c][i] = d /\ \A j \in 1..(i - 1) : raw'[c][j].request.client # c
    <3>1. raw'[c] = Append(raw[c], d)
      BY <1>7, <2>1, <2>4
    <3>2. i = Len(raw[c]) + 1
      BY <1>7, <2>3, <2>4, <3>1
    <3>3. \A j \in 1..(i - 1) : j \in 1..Len(raw[c])
      BY <2>3, <3>2
    <3>4. QED
      BY <1>7, <2>3, <3>1, <3>2, <3>3
  <2>5. QED
    BY <1>2, <2>2, <2>4 DEF OwnMail
<1>10. OwnCount(c, r)'
  <2>1. Len(<<>>) = 0 /\ Elems(<<>>) = {}
    BY EmptyOf
  <2>2. QED
    BY <1>1, <1>3, <2>1 DEF OwnCount
<1>11. r # Nothing
  BY <1>1, NothingAssumption
<1>12. QED
  BY <1>3, <1>8, <1>9, <1>10, <1>11 DEF Orderly

(* Nothing new for the client.                                              *)
LEMMA Quiet ==
    ASSUME NEW c \in Clients, Orderly(c), raw'[c] = raw[c],
           pending'[c] = pending[c], counted'[c] = counted[c], waiting'[c] = waiting[c],
           mid'[c] = mid[c], acked \subseteq acked', answered \subseteq answered',
           \A r \in Handled' : r.client = c => r \in Handled
    PROVE  Orderly(c)'
<1>1. PICK p : p = pending[c]
  OBVIOUS
<1>2. OwnMail(c, p)'
  BY <1>1 DEF Orderly, OwnMail
<1>3. IF p = Nothing THEN waiting'[c] = 0 ELSE OwnCount(c, p)'
  BY <1>1 DEF Orderly, OwnCount
<1>4. \A r \in Handled' : r.client = c => r = p
  BY <1>1 DEF Orderly
<1>5. QED
  BY <1>1, <1>2, <1>3, <1>4 DEF Orderly

LEMMA InStepStep ==
    ASSUME Types, Alone, Conserved, Numbered, InStep, Next PROVE InStep'
<1> SUFFICES ASSUME NEW c \in Clients, c \notin mixed' PROVE Orderly(c)'
  BY DEF InStep
<1>a. c \notin mixed
  <2>1. mixed \subseteq mixed'
    BY DEF Next, ServerStep, ServiceStep, Start, Interrupt, StartServices, Receive, ReceiveNothing,
       Acknowledge, Poll, Leave, Close, Take, Put, EndService, Type, Read, LeaveClient, clientVars
  <2>2. QED
    BY <2>1
<1>b. Orderly(c)
  BY <1>a DEF InStep
<1>c. OnlyNew({}) \/ \E t \in Clients : Type(t) /\ OnlyNew({NewRequest(t)})
  BY ConservedStep
<1>d. (\A t \in Clients : ~Type(t)) => Handled' \subseteq Handled
  BY <1>c DEF OnlyNew
(* A new line: typed by the client itself, or by another one.               *)
<1>1. ASSUME NEW t \in Clients, Type(t) PROVE Orderly(c)'
  <2>1. \A u \in Clients : Type(u) => u = t
    <3>1. ASSUME NEW u \in Clients, Type(u), u # t PROVE FALSE
      <4>1. waiting' = [waiting EXCEPT ![u] = 2] /\ waiting' = [waiting EXCEPT ![t] = 2]
            /\ waiting[u] = 0 /\ waiting \in [Clients -> 0..2]
        BY <1>1, <3>1 DEF Type, Types
      <4>2. QED
        BY <3>1, <4>1
    <3>2. QED
      BY <3>1
  <2>2. OnlyNew({NewRequest(t)})
    BY <1>c, <2>1 DEF OnlyNew
  <2>3. CASE t = c
    BY <1>1, <1>b, <2>2, <2>3, Typed
  <2>4. CASE t # c
    <3>1. /\ Send(Datagram("request", NewRequest(t))) /\ UNCHANGED <<mid, acked, answered>>
          /\ pending' = [pending EXCEPT ![t] = NewRequest(t)]
          /\ counted' = [counted EXCEPT ![t] = <<>>]
          /\ waiting' = [waiting EXCEPT ![t] = 2]
      BY <1>1 DEF Type, history
    <3>2. pending'[c] = pending[c] /\ counted'[c] = counted[c] /\ waiting'[c] = waiting[c]
      BY <2>4, <3>1 DEF Types
    <3>3. PICK r : r = NewRequest(t) /\ r \in AllRequests /\ r.client = t
      <4>1. lines[t] \in Nat \ {0} /\ mid[t] \in Int
        BY <1>1, ProducerConsumerAssumption DEF Type, Types, CharMin
      <4>2. Short(mid[t]) \in 0..ShortSize - 1
        BY <4>1, Shorts
      <4>3. NewRequest(t) \in AllRequests /\ NewRequest(t).client = t
        BY <4>1, <4>2 DEF NewRequest, AllRequests
      <4>4. QED
        BY <4>3
    <3>4. PICK d : d = Datagram("request", r) /\ d \in Datagrams /\ d.request = r
      BY <3>3, DatagramsAre
    <3>5. raw'[c] = raw[c] \/ raw'[c] = Append(raw[c], d)
      BY <3>1, <3>3, <3>4, Network
    <3>6. Fits(c, d)
      BY <2>4, <3>3, <3>4 DEF Fits
    <3>7. \A q \in Handled' : q.client = c => q \in Handled
      BY <2>2, <2>4, <3>3 DEF OnlyNew
    <3>8. QED
      BY <1>b, <3>1, <3>2, <3>4, <3>5, <3>6, <3>7, Arrives
  <2>5. QED
    BY <2>3, <2>4
<1>2. ASSUME NEW t \in Clients, Read(t) PROVE Orderly(c)'
  <2>1. CASE t = c
    BY <1>2, <1>b, <2>1, Taken
  <2>2. CASE t # c
    <3>1. UNCHANGED <<pending, acked, answered, Handled>>
      BY <1>2 DEF Read, serverVars, history, Handled, Arriving, InWork, Working, Queued
    <3>2. /\ raw'[c] = raw[c] /\ counted'[c] = counted[c] /\ waiting'[c] = waiting[c]
          /\ mid'[c] = mid[c]
      BY <1>2, <2>2 DEF Read, Types
    <3>3. QED
      BY <1>b, <3>1, <3>2, Quiet
  <2>3. QED
    BY <2>1, <2>2
<1>3. ASSUME NEW t \in Clients, LeaveClient(t) PROVE Orderly(c)'
  <2>1. UNCHANGED <<pending, counted, waiting, mid, acked, answered, Handled>>
    BY <1>3 DEF LeaveClient, serverVars, history, Handled, Arriving, InWork, Working, Queued
  <2>2. CASE t # c
    <3>1. raw'[c] = raw[c]
      BY <1>3, <2>2 DEF LeaveClient, Types
    <3>2. QED
      BY <1>b, <2>1, <3>1, Quiet
  <2>3. CASE t = c
    <3>1. raw'[c] = <<>>
      BY <1>3, <2>3 DEF LeaveClient, Types
    <3>2. 1..Len(raw'[c]) = {}
      BY <3>1
    <3>3. PICK p : p = pending[c]
      OBVIOUS
    <3>4. OwnMail(c, p)'
      BY <3>2 DEF OwnMail
    <3>5. IF p = Nothing THEN waiting'[c] = 0 ELSE OwnCount(c, p)'
      BY <1>b, <2>1, <3>3 DEF Orderly, OwnCount
    <3>6. QED
      BY <1>b, <2>1, <3>3, <3>4, <3>5 DEF Orderly
  <2>4. QED
    BY <2>2, <2>3
(* The server sends an acknowledgement, and then a reply.                   *)
<1>s. ASSUME \A t \in Clients : ~Type(t), NEW d \in Datagrams, Send(d), Fits(c, d),
             UNCHANGED clientVars, acked \subseteq acked', answered \subseteq answered'
      PROVE  Orderly(c)'
  <2>1. raw'[c] = raw[c] \/ raw'[c] = Append(raw[c], d)
    BY <1>s, Network
  <2>2. UNCHANGED <<pending, counted, waiting, mid>>
    BY <1>s DEF clientVars
  <2>3. \A r \in Handled' : r.client = c => r \in Handled
    BY <1>d, <1>s
  <2>4. QED
    BY <1>b, <1>s, <2>1, <2>2, <2>3, Arrives
<1>n. ASSUME UNCHANGED clientVars PROVE \A t \in Clients : ~Type(t)
  <2>1. ASSUME NEW t \in Clients, Type(t) PROVE FALSE
    <3>1. waiting' = [waiting EXCEPT ![t] = 2] /\ waiting[t] = 0 /\ waiting' = waiting
          /\ waiting \in [Clients -> 0..2]
      BY <1>n, <2>1 DEF Type, clientVars, Types
    <3>2. QED
      BY <3>1
  <2>2. QED
    BY <2>1
<1>p. \A r : r = pending[c] => OwnMail(c, r) /\ (r # Nothing => OwnCount(c, r))
  BY <1>b DEF Orderly
<1>q. \A d \in Datagrams : d.kind \in {"request", "ack", "reply"}
  BY DatagramsAre
<1>r. \A j \in 1..Len(raw[c]) : raw[c][j].kind \in {"request", "ack", "reply"}
  <2>1. \A j \in 1..Len(raw[c]) : raw[c][j] \in Datagrams
    BY DEF Types
  <2>2. QED
    BY <1>q, <2>1
<1>4. ASSUME NEW s \in Servers, Acknowledge(s) PROVE Orderly(c)'
  <2>1. /\ Send(Datagram("ack", current)) /\ UNCHANGED <<clientVars, answered>>
        /\ acked' = acked \cup {current} /\ spc[s] = "acknowledge"
    BY <1>4 DEF Acknowledge
  <2>2. PICK r : r = current /\ r \in AllRequests /\ r # Nothing /\ r \notin acked /\ r \in Queued
    BY <2>1, NothingAssumption DEF Types, Alone, Conserved, Queued
  <2>3. PICK d : d = Datagram("ack", r) /\ d \in Datagrams /\ d.request = r /\ d.kind = "ack"
    BY <2>2, DatagramsAre
  <2>4. Fits(c, d)
    <3>1. CASE r.client # c
      BY <2>3, <3>1 DEF Fits
    <3>2. CASE r.client = c
      <4>1. r = pending[c] /\ r \notin answered
        BY <1>b, <2>2, <3>2 DEF Orderly, Handled, Conserved
      <4>2. OwnMail(c, r) /\ OwnCount(c, r)
        BY <1>p, <2>2, <4>1
      <4>3. \A j \in 1..Len(raw[c]) : raw[c][j].request.client = c => raw[c][j].kind = "request"
        BY <1>r, <2>2, <4>1, <4>2 DEF OwnMail
      <4>4. Elems(counted[c]) = {}
        BY <2>2, <4>1, <4>2, Kinds
      <4>5. Before("request", "ack")
        BY DEF Before
      <4>6. QED
        BY <2>1, <2>2, <2>3, <4>1, <4>3, <4>4, <4>5 DEF Fits
    <3>3. QED
      BY <3>1, <3>2
  <2>5. QED
    BY <1>n, <1>s, <2>1, <2>2, <2>3, <2>4
<1>5. ASSUME NEW s \in Servers, Poll(s), replies # <<>> PROVE Orderly(c)'
  <2>1. PICK r : r = Head(replies) /\ r \in AllRequests /\ r \in Elems(replies) /\ r # Nothing
    <3>1. replies \in Seq(AllRequests)
      BY DEF Types
    <3>2. Head(replies) \in AllRequests /\ Head(replies) \in Elems(replies)
      BY <1>5, <3>1, TailOf
    <3>3. QED
      BY <3>2, NothingAssumption
  <2>2. /\ Send(Datagram("reply", r)) /\ UNCHANGED <<clientVars, acked>>
        /\ answered' = answered \cup {r}
    BY <1>5, <2>1 DEF Poll
  <2>3. PICK d : d = Datagram("reply", r) /\ d \in Datagrams /\ d.request = r /\ d.kind = "reply"
    BY <2>1, DatagramsAre
  <2>4. Fits(c, d)
    <3>1. CASE r.client # c
      BY <2>3, <3>1 DEF Fits
    <3>2. CASE r.client = c
      <4>1. r = pending[c] /\ r \notin answered
        BY <1>b, <2>1, <3>2 DEF Orderly, Handled, InWork, Conserved
      <4>2. OwnMail(c, r) /\ OwnCount(c, r)
        BY <1>p, <2>1, <4>1
      <4>3. Before("request", "reply") /\ Before("ack", "reply")
        BY DEF Before
      <4>4. \A j \in 1..Len(raw[c]) : raw[c][j].request.client = c => Before(raw[c][j].kind, "reply")
        BY <1>r, <4>1, <4>2, <4>3 DEF OwnMail
      <4>5. \A e \in Elems(counted[c]) : Before(e.kind, "reply")
        BY <2>1, <4>1, <4>2, <4>3, Kinds
      <4>6. QED
        BY <2>2, <2>3, <4>1, <4>4, <4>5 DEF Fits
    <3>3. QED
      BY <3>1, <3>2
  <2>5. QED
    BY <1>n, <1>s, <2>2, <2>3, <2>4
(* The rest is not seen by a client.                                        *)
<1>6. ASSUME UNCHANGED <<clientVars, raw, history>> PROVE Orderly(c)'
  <2>1. UNCHANGED <<pending, counted, waiting, mid, acked, answered>>
    BY <1>6 DEF clientVars, history
  <2>2. Handled' \subseteq Handled
    BY <1>6, <1>d, <1>n
  <2>3. QED
    BY <1>6, <1>b, <2>1, <2>2, Quiet
<1>7. ASSUME NEW s \in Servers, \/ Start(s) \/ Interrupt(s) \/ StartServices(s) \/ Receive(s)
                                \/ ReceiveNothing(s) \/ Leave(s) \/ Close(s)
                                \/ Poll(s) /\ replies = <<>>
      PROVE  Orderly(c)'
  <2>1. UNCHANGED <<clientVars, raw, history>>
    BY <1>7 DEF Start, Interrupt, StartServices, Receive, ReceiveNothing, Leave, Close, Poll,
       netVars, history
  <2>2. QED
    BY <1>6, <2>1
<1>8. ASSUME NEW v \in Services, ServiceStep(v) PROVE Orderly(c)'
  BY <1>6, <1>8 DEF ServiceStep, Take, Put, EndService, netVars
<1>9. QED
  BY <1>1, <1>2, <1>3, <1>4, <1>5, <1>7, <1>8 DEF Next, ServerStep

-----------------------------------------------------------------------------
(* The theorems. *)

IInv == Types /\ Alone /\ Conserved /\ Numbered /\ InStep

(* Every behaviour satisfies the invariant: the code's variables keep their *)
(* types, one server has the queues, every request is in one place, and a   *)
(* client's replies come in order.                                          *)
THEOREM InductiveInvariant == Spec => []IInv
<1>1. Init => IInv
  <2> SUFFICES ASSUME Init PROVE IInv
    OBVIOUS
  <2>e. Elems(<<>>) = {} /\ Distinct(<<>>) /\ Len(<<>>) = 0 /\ (\A S : <<>> \in Seq(S))
    BY EmptyOf
  <2>1. Types
    <3>1. /\ lines \in [Clients -> Nat] /\ losses \in Nat
          /\ starts \subseteq Servers /\ stops \subseteq Servers \cup Clients
      BY ProducerConsumerAssumption DEF Init
    <3>2. 0 \in CharMin..CharMax /\ QueueCapacity \in Nat
      BY ProducerConsumerAssumption DEF CharMin
    <3>3. QED
      BY <2>e, <3>1, <3>2 DEF Init, Types
  <2>2. Alone
    BY <2>1 DEF Init, Types, Alone, Owner, Serving, Started, OneServerEver
  <2>3. Arriving = {} /\ Working = {} /\ Queued = {} /\ InWork = {}
    BY <2>e DEF Init, Arriving, Working, Queued, InWork
  <2>4. Conserved
    BY <2>e, <2>3 DEF Init, Conserved, Serving
  <2>5. Numbered
    BY <2>3 DEF Init, Numbered, Issued, Handled
  <2>6. InStep
    <3>1. ASSUME NEW c \in Clients PROVE Orderly(c)
      <4>1. raw[c] = <<>> /\ pending[c] = Nothing /\ waiting[c] = 0
        BY <3>1 DEF Init
      <4>2. \A r \in Handled : FALSE
        BY <2>3 DEF Handled
      <4>3. 1..Len(raw[c]) = {}
        BY <4>1
      <4>4. OwnMail(c, pending[c])
        BY <4>3 DEF OwnMail
      <4>5. QED
        BY <4>1, <4>2, <4>4 DEF Orderly
    <3>2. QED
      BY <3>1 DEF InStep
  <2>7. QED
    BY <2>1, <2>2, <2>4, <2>5, <2>6 DEF IInv
<1>2. IInv /\ [Next]_vars => IInv'
  <2>1. CASE Next
    BY <2>1, TypesStep, AloneStep, ConservedStep, NumberedStep, InStepStep DEF IInv
  <2>2. CASE UNCHANGED vars
    <3>1. UNCHANGED <<spc, flag, queues, requests, replies, service, ended, current, dropped,
                      starts, stops, alive, mid, waiting, lines, pending, counted, mixed,
                      inbox, raw, losses, gone, acked, answered>>
      BY <2>2 DEF vars, serverVars, environment, clientVars, netVars, history
    <3>2. Types => Types'
      BY <3>1 DEF Types
    <3>3. Alone => Alone'
      BY <3>1 DEF Alone, Owner, Serving, Started, OneServerEver
    <3>4. UNCHANGED <<Handled, Issued, Arriving, Working, InWork, Queued>>
      BY <3>1 DEF Handled, Issued, Arriving, Working, InWork, Queued
    <3>5. (Conserved => Conserved') /\ (Numbered => Numbered')
      BY <3>1, <3>4 DEF Conserved, Numbered, Serving
    <3>6. ASSUME NEW c \in Clients, Orderly(c) PROVE Orderly(c)'
      BY <3>1, <3>4, <3>6, Quiet
    <3>7. InStep => InStep'
      BY <3>1, <3>6 DEF InStep
    <3>8. QED
      BY <3>2, <3>3, <3>5, <3>7 DEF IInv
  <2>3. QED
    BY <2>1, <2>2
<1>3. QED
  BY <1>1, <1>2, PTL DEF Spec

(* The variables of run_server, the services and run_client keep their      *)
(* types.                                                                   *)
THEOREM TypeCorrect == Spec => []TypeOK
<1>1. IInv => TypeOK
  BY TypesImply DEF IInv
<1>2. QED
  BY <1>1, InductiveInvariant, PTL

(* However many servers are started, only one ever gets both queues         *)
(* (run_server, 436-447).                                                   *)
THEOREM OneServer == Spec => []OneServerEver
<1>1. IInv => OneServerEver
  BY DEF IInv, Alone
<1>2. QED
  BY <1>1, InductiveInvariant, PTL

(* While the server runs, a request it acknowledged is in one place: a      *)
(* queue, one service's hands, answered or refused by a full queue.         *)
THEOREM EachRequestOnce == Spec => []Accounted
<1>1. ASSUME IInv PROVE Accounted
  <2>1. ASSUME NEW s \in Servers, Serving(s), NEW r \in acked \cup ({current} \ {Nothing})
        PROVE  Cardinality(Places(r)) = 1
    <3>a. r \in InWork \cup answered \cup dropped
      BY <1>1, <2>1 DEF IInv, Conserved, Queued
    <3>b. /\ DOMAIN requests = 1..Len(requests) /\ DOMAIN replies = 1..Len(replies)
          /\ service \in [Services -> AllRequests \cup {Nothing}] /\ r \in AllRequests /\ r # Nothing
      BY <1>1, <2>1, NothingAssumption DEF IInv, Types
    <3> DEFINE A == {<<"requests", i>> : i \in {j \in DOMAIN requests : requests[j] = r}}
               B == {<<"service", v>> : v \in {w \in Services : service[w] = r}}
               C == {<<"replies", i>> : i \in {j \in DOMAIN replies : replies[j] = r}}
               D == IF r \in answered THEN {<<"answered">>} ELSE {}
               E == IF r \in dropped THEN {<<"dropped">>} ELSE {}
    <3>p. Places(r) = A \cup B \cup C \cup D \cup E
      BY Zenon DEF Places
    <3>1. r \notin Elems(requests) => A = {}
      BY <3>b DEF Elems
    <3>2. r \notin Working => B = {}
      BY <3>b DEF Working
    <3>3. r \notin Elems(replies) => C = {}
      BY <3>b DEF Elems
    <3>4. r \in Elems(requests) => \E x : A = {x}
      <4>1. ASSUME NEW i \in 1..Len(requests), requests[i] = r PROVE A = {<<"requests", i>>}
        <5>1. \A j \in 1..Len(requests) : requests[j] = r => j = i
          BY <1>1, <4>1 DEF IInv, Conserved, Distinct
        <5>2. {j \in DOMAIN requests : requests[j] = r} = {i}
          BY <3>b, <4>1, <5>1
        <5>3. QED
          BY <5>2
      <4>2. QED
        BY <4>1 DEF Elems
    <3>5. r \in Working => \E x : B = {x}
      <4>1. ASSUME NEW v \in Services, service[v] = r PROVE B = {<<"service", v>>}
        <5>1. \A w \in Services : service[w] = r => w = v
          BY <1>1, <3>b, <4>1 DEF IInv, Conserved
        <5>2. {w \in Services : service[w] = r} = {v}
          BY <4>1, <5>1
        <5>3. QED
          BY <5>2
      <4>2. QED
        BY <4>1 DEF Working
    <3>6. r \in Elems(replies) => \E x : C = {x}
      <4>1. ASSUME NEW i \in 1..Len(replies), replies[i] = r PROVE C = {<<"replies", i>>}
        <5>1. \A j \in 1..Len(replies) : replies[j] = r => j = i
          BY <1>1, <4>1 DEF IInv, Conserved, Distinct
        <5>2. {j \in DOMAIN replies : replies[j] = r} = {i}
          BY <3>b, <4>1, <5>1
        <5>3. QED
          BY <5>2
      <4>2. QED
        BY <4>1 DEF Elems
    <3>7. \E x : Places(r) = {x}
      <4>1. /\ D = {} <=> r \notin answered
            /\ E = {} <=> r \notin dropped
            /\ r \in answered => D = {<<"answered">>}
            /\ r \in dropped => E = {<<"dropped">>}
        OBVIOUS
      <4>2. /\ r \in Elems(requests) => r \notin Working \cup Elems(replies) \cup answered \cup dropped
            /\ r \in Working => r \notin Elems(requests) \cup Elems(replies) \cup answered \cup dropped
            /\ r \in Elems(replies) => r \notin Elems(requests) \cup Working \cup answered \cup dropped
            /\ r \in answered => r \notin Elems(requests) \cup Working \cup Elems(replies) \cup dropped
            /\ r \in dropped => r \notin Elems(requests) \cup Working \cup Elems(replies) \cup answered
        BY <1>1 DEF IInv, Conserved
      <4> HIDE DEF A, B, C, D, E
      <4>3. CASE r \in Elems(requests)
        BY <3>p, <3>2, <3>3, <3>4, <4>1, <4>2, <4>3
      <4>4. CASE r \in Working
        BY <3>p, <3>1, <3>3, <3>5, <4>1, <4>2, <4>4
      <4>5. CASE r \in Elems(replies)
        BY <3>p, <3>1, <3>2, <3>6, <4>1, <4>2, <4>5
      <4>6. CASE r \in answered
        BY <3>p, <3>1, <3>2, <3>3, <4>1, <4>2, <4>6
      <4>7. CASE r \in dropped
        BY <3>p, <3>1, <3>2, <3>3, <4>1, <4>2, <4>7
      <4>8. QED
        BY <3>a, <4>3, <4>4, <4>5, <4>6, <4>7 DEF InWork
    <3>8. QED
      BY <3>7, FS_Singleton
  <2>2. answered \subseteq acked
    BY <1>1 DEF IInv, Conserved
  <2>3. QED
    BY <2>1, <2>2 DEF Accounted
<1>2. QED
  BY <1>1, InductiveInvariant, PTL

(* A client that never took another's datagram counts the acknowledgement   *)
(* and the reply of its own request and goes on when it has both, however   *)
(* often its id has wrapped around.                                         *)
THEOREM InLockStep == Spec => []LockStep
<1>1. ASSUME IInv PROVE LockStep
  <2>1. ASSUME NEW c \in Clients, c \notin mixed, pending[c] # Nothing
        PROVE  LET both == <<Datagram("ack", pending[c]), Datagram("reply", pending[c])>>
               IN  /\ counted[c] \in {<<>>, <<both[1]>>, <<both[2]>>, both}
                   /\ waiting[c] = 0 => counted[c] = both
    <3>1. OwnCount(c, pending[c]) /\ pending[c] \in AllRequests
      BY <1>1, <2>1 DEF IInv, InStep, Orderly, Types
    <3>2. PICK a, b : a = Datagram("ack", pending[c]) /\ b = Datagram("reply", pending[c])
      OBVIOUS
    <3>3. counted[c] \in {<<>>, <<a>>, <<b>>, <<a, b>>}
      BY <3>1, <3>2 DEF OwnCount
    <3>4. waiting[c] = 0 => counted[c] = <<a, b>>
      BY <3>1, <3>2, Kinds
    <3>5. QED
      BY <3>2, <3>3, <3>4
  <2>2. QED
    BY <2>1, Zenon DEF LockStep
<1>2. QED
  BY <1>1, InductiveInvariant, PTL
=============================================================================
