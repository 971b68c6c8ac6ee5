---------------------------- MODULE ServersProofs -----------------------------
(***************************************************************************)
(* What the service pool and the TCP servers guarantee for any value of    *)
(* their constants, and with it the types of all exercises.                *)
(***************************************************************************)
EXTENDS ExercisesProofs

-----------------------------------------------------------------------------
(* ServicePool *)

(* What is in a queue.                                                      *)
Elems(some) == {some[i] : i \in DOMAIN some}

Datagram ==
    [kind : {"request", "reply"}, type : {"connect", "data", "close"},
     sid : P!ServiceIds \cup {NotDefined}, mid : Nat, client : PoolClients, text : PoolClients \X Nat]

(* What the clients put into their requests.                                *)
AsSent(d) ==
    /\ d \in Datagram /\ d.kind = "request"
    /\ d.type = "connect" => d.mid = 0 /\ d.sid = NotDefined /\ d.text = <<d.client, 0>>
    /\ d.type # "connect" => d.sid \in P!ServiceIds
    /\ d.type = "data" => d.text = <<d.client, d.mid + 1>>

PoolTypes ==
    /\ bound \in Bounds
    /\ spc \in {"off", "loop", "receive", "await", "join", "closed", "crashed", "refused"}
    /\ flag \in BOOLEAN /\ starts \in 0..bound.starts /\ queue \in BOOLEAN
    /\ size \in {0, POOL, 2 * POOL}
    /\ pool_state \in [P!ServiceIds -> {"none", "available", "busy", "error"}]
    /\ hand \in [P!ServiceIds -> P!Texts \cup {Nothing}]
    /\ ended \subseteq P!ServiceIds /\ late \subseteq P!ServiceIds
    /\ cpc \in [PoolClients -> {"connect", "connecting", "prompt", "asking", "give up",
                                 "failed", "closed"}]
    /\ sid \in [PoolClients -> P!ServiceIds \cup {NotDefined}]
    /\ given \in [PoolClients -> P!ServiceIds \cup {NotDefined}]
    /\ mid \in [PoolClients -> 0..bound.lines]
    /\ attempts \in [PoolClients -> 0..ATTEMPTS]
    /\ astray \subseteq PoolClients
    /\ toService \in [P!ServiceIds -> Seq(P!Texts)]
    /\ fromService \in [P!ServiceIds -> Seq(P!Texts)]
    /\ inbox \in Seq(Datagram)
    /\ raw \in [PoolClients -> Seq(Datagram)]
    /\ pending \in [PoolClients -> Datagram \cup {Nothing}]
    /\ answer \in [PoolClients -> Datagram \cup {Nothing}]

(* What the server relies on while it is up, and what it leaves behind.     *)
ServerState ==
    /\ queue <=> spc \notin {"off", "closed"}
    /\ ~queue => \A i \in P!ServiceIds : toService[i] = <<>> /\ fromService[i] = <<>>
    /\ ~P!Up => inbox = <<>>
    /\ P!Up =>
        /\ size # 0
        /\ ended # {} => flag
    /\ spc = "await" => AsSent(current) /\ current.type = "data" /\ current.text \in P!Texts

(* What a client knows of its session, and how its last request reads.      *)
ClientState ==
    \A c \in PoolClients :
        /\ cpc[c] \in {"connect", "connecting", "failed"} => sid[c] = NotDefined /\ mid[c] = 0
        /\ cpc[c] \notin {"connect", "connecting", "failed"} => sid[c] \in P!ServiceIds
        /\ cpc[c] = "connect" => given[c] = NotDefined
        /\ cpc[c] \in {"connecting", "asking"} => attempts[c] > 0 /\ pending[c].mid = mid[c]
        /\ cpc[c] = "connecting" => pending[c].type = "connect" /\ pending[c].text = <<c, 0>>
        /\ cpc[c] = "asking" =>
            /\ pending[c].type = "data" /\ pending[c].text = <<c, mid[c] + 1>>
            /\ mid[c] < bound.lines

(* The requests in the server's socket: a client connects once and closes   *)
(* once, and sends nothing after that.                                      *)
Protocol ==
    /\ \A i \in DOMAIN inbox :
        /\ AsSent(inbox[i]) /\ inbox[i].text \in P!Texts
        /\ cpc[inbox[i].client] # "connect"
        /\ inbox[i].type # "connect" => cpc[inbox[i].client] \notin {"connecting", "failed"}
        /\ inbox[i].type = "connect" => given[inbox[i].client] = NotDefined
        /\ inbox[i].type = "close" => cpc[inbox[i].client] = "closed"
        /\ inbox[i].type = "data" /\ cpc[inbox[i].client] = "closed" =>
            \E k \in DOMAIN inbox :
                k > i /\ inbox[k].type = "close" /\ inbox[k].client = inbox[i].client
    /\ \A i, k \in DOMAIN inbox :
        inbox[i].type = inbox[k].type /\ inbox[i].client = inbox[k].client
            => i = k \/ inbox[i].type = "data"

(* What clients may read in their raw sockets.                              *)
Heard ==
    \A c \in PoolClients : \A d \in Elems(raw[c]) :
        /\ d.mid > 0 \/ d.kind = "reply" => d.sid \in P!ServiceIds
        /\ d.kind = "reply" /\ d.type = "connect" =>
            d.sid = given[d.client] /\ d.text = <<d.client, 0>>
        /\ d.kind = "reply" /\ d.type = "data" /\ late = {} => d.text = <<d.client, d.mid>>

(* A client that holds a service: it has been given one, and its close has  *)
(* not been received.                                                       *)
Holding(c) ==
    /\ given[c] # NotDefined
    /\ \/ cpc[c] \in {"connecting", "prompt", "asking", "give up"}
       \/ \E i \in DOMAIN inbox : inbox[i].type = "close" /\ inbox[i].client = c

(* As long as nobody went astray, a service that is held is busy and held   *)
(* by one client, which names it in all it sends.                           *)
Held ==
    astray = {} =>
        /\ \A c, e \in PoolClients : Holding(c) /\ Holding(e) /\ given[c] = given[e] => c = e
        /\ P!Up => \A c \in PoolClients : Holding(c) =>
                pool_state[given[c]] = "busy" /\ given[c] < size
        /\ ~queue => \A c \in PoolClients : ~Holding(c)
        /\ \A c \in PoolClients : sid[c] # NotDefined => sid[c] = given[c]
        /\ \A i \in DOMAIN inbox : inbox[i].type # "connect" => inbox[i].sid = given[inbox[i].client]
        /\ spc = "await" => pool_state[current.sid] = "busy"

(* As long as no service was late, there is one text under way at most: that*)
(* of the request over which run_server sleeps.                             *)
Quiet ==
    late = {} /\ P!Up =>
        \A i \in P!ServiceIds :
            \/ hand[i] = Nothing /\ toService[i] = <<>> /\ fromService[i] = <<>>
            \/ /\ spc = "await" /\ i = current.sid
               /\ \/ toService[i] = <<current.text>> /\ hand[i] = Nothing /\ fromService[i] = <<>>
                  \/ toService[i] = <<>> /\ hand[i] = current.text /\ fromService[i] = <<>>
                  \/ toService[i] = <<>> /\ hand[i] = Nothing /\ fromService[i] = <<current.text>>

(* An answer that was taken is that to the last request.                    *)
Answered ==
    astray = {} /\ late = {} =>
        \A c \in P!Connected : answer[c] # Nothing => answer[c].text = pending[c].text

(* What a kind of messages takes of the message queue.                      *)
Room(some) ==
    LET Places == P!ServiceIds \X (1..QueueCapacity) IN
    Cardinality({place \in Places : place[2] <= Len(some[place[1]])})

Fits == Room(toService) + Room(fromService) <= QueueCapacity

PoolInv ==
    /\ PoolTypes /\ ServerState /\ ClientState /\ Protocol /\ Heard
    /\ Held /\ Quiet /\ Answered /\ Fits

LEMMA PoolConstants ==
    /\ POOL \in Nat \ {0} /\ ATTEMPTS \in Nat \ {0} /\ QueueCapacity \in Nat
    /\ Bounds \subseteq [clients : SUBSET PoolClients, lines : Nat, starts : Nat]
    /\ P!ServiceIds = 0..2 * POOL - 1 /\ P!ServiceIds \subseteq Nat
    /\ NotDefined \notin Nat /\ NotDefined \notin P!ServiceIds
    /\ POOL \in P!ServiceIds /\ \A i \in Nat : i < POOL => i \in P!ServiceIds
<1>1. P!ServicePoolAssumption
  BY ExercisesAssumption DEF ExercisesAssumption
<1>2. QED
  BY <1>1 DEF P!ServicePoolAssumption, P!ServiceIds

(* What the bounds of a run are.                                            *)
LEMMA RunBounds ==
    ASSUME PoolTypes
    PROVE  /\ bound.lines \in Nat /\ bound.starts \in Nat
           /\ P!Texts = PoolClients \X (0..bound.lines) /\ P!Texts \subseteq PoolClients \X Nat
<1>1. bound \in [clients : SUBSET PoolClients, lines : Nat, starts : Nat]
  BY PoolConstants DEF PoolTypes
<1>2. bound.lines \in Nat /\ bound.starts \in Nat
  BY <1>1
<1>3. QED
  BY <1>2 DEF P!Texts

(* Queues whose head is taken, and to which something is added.             *)
LEMMA Taken ==
    ASSUME NEW Members, NEW some \in Seq(Members), some # <<>>
    PROVE  /\ Head(some) \in Members /\ Head(some) = some[1] /\ Tail(some) \in Seq(Members)
           /\ 1 \in DOMAIN some /\ Head(some) \in Elems(some)
           /\ Elems(Tail(some)) \subseteq Elems(some)
           /\ \A i \in DOMAIN Tail(some) :
                i \in Nat /\ i + 1 \in DOMAIN some /\ i + 1 # 1 /\ Tail(some)[i] = some[i + 1]
           /\ \A i \in DOMAIN some :
                i \in Nat /\ (i # 1 => i - 1 \in DOMAIN Tail(some) /\ Tail(some)[i - 1] = some[i])
<1>1. Len(some) \in Nat \ {0} /\ DOMAIN some = 1..Len(some)
  OBVIOUS
<1>2. /\ Head(some) \in Members /\ Head(some) = some[1] /\ Tail(some) \in Seq(Members)
      /\ Len(Tail(some)) = Len(some) - 1
  BY <1>1
<1>3. DOMAIN Tail(some) = 1..Len(some) - 1
  BY <1>2
<1>4. \A i \in 1..Len(some) - 1 : Tail(some)[i] = some[i + 1]
  BY <1>1
<1>5. \A i \in DOMAIN Tail(some) :
        i \in Nat /\ i + 1 \in DOMAIN some /\ i + 1 # 1 /\ Tail(some)[i] = some[i + 1]
  BY <1>1, <1>3, <1>4
<1>6. ASSUME NEW i \in DOMAIN some
      PROVE  i \in Nat /\ (i # 1 => i - 1 \in DOMAIN Tail(some) /\ Tail(some)[i - 1] = some[i])
  <2>1. i \in Nat /\ i >= 1 /\ i <= Len(some)
    BY <1>1
  <2>2. ASSUME i # 1 PROVE i - 1 \in DOMAIN Tail(some) /\ i - 1 + 1 = i
    BY <1>1, <1>3, <2>1, <2>2
  <2>3. QED
    BY <1>5, <2>1, <2>2
<1>7. Elems(Tail(some)) \subseteq Elems(some)
  BY <1>5 DEF Elems
<1>8. 1 \in DOMAIN some
  BY <1>1
<1>9. QED
  BY <1>2, <1>5, <1>6, <1>7, <1>8 DEF Elems

LEMMA Added ==
    ASSUME NEW Members, NEW some \in Seq(Members), NEW d \in Members
    PROVE  /\ Append(some, d) \in Seq(Members) /\ Append(some, d) # <<>>
           /\ Elems(Append(some, d)) = Elems(some) \cup {d}
           /\ \A i \in DOMAIN some :
                i \in DOMAIN Append(some, d) /\ Append(some, d)[i] = some[i]
                /\ i \in Nat /\ i < Len(some) + 1
           /\ Len(some) \in Nat
           /\ Len(some) + 1 \in DOMAIN Append(some, d) /\ Append(some, d)[Len(some) + 1] = d
           /\ \A i \in DOMAIN Append(some, d) : i # Len(some) + 1 => i \in DOMAIN some
<1> DEFINE longer == Append(some, d)
<1>1. /\ longer \in Seq(Members) /\ Len(longer) = Len(some) + 1 /\ longer[Len(some) + 1] = d
      /\ \A i \in 1..Len(some) : longer[i] = some[i]
      /\ Len(some) \in Nat /\ DOMAIN some = 1..Len(some)
  OBVIOUS
<1> HIDE DEF longer
<1>2. DOMAIN longer = 1..Len(some) + 1 /\ longer # <<>>
  BY <1>1
<1>3. \A i \in DOMAIN some : i \in DOMAIN longer /\ longer[i] = some[i] /\ i \in Nat /\ i < Len(some) + 1
  BY <1>1, <1>2
<1>4. \A i \in DOMAIN longer : i # Len(some) + 1 => i \in DOMAIN some
  BY <1>1, <1>2
<1>5. Len(some) + 1 \in DOMAIN longer
  BY <1>1, <1>2
<1>6. Elems(longer) = Elems(some) \cup {d}
  BY <1>1, <1>3, <1>4, <1>5 DEF Elems
<1>7. QED
  BY <1>1, <1>2, <1>3, <1>4, <1>5, <1>6 DEF longer

LEMMA NothingIn == Elems(<<>>) = {} /\ DOMAIN <<>> = {}
BY DEF Elems

(* What the queue holds of a kind of messages.                              *)
LEMMA RoomTaken ==
    ASSUME NEW Members, NEW some \in [P!ServiceIds -> Seq(Members)], NEW i \in P!ServiceIds, NEW one \in Seq(Members)
    PROVE  LET other == [some EXCEPT ![i] = one] IN
           /\ Room(some) \in Nat /\ Room(other) \in Nat
           /\ Len(one) <= Len(some[i]) => Room(other) <= Room(some)
           /\ Len(one) = Len(some[i]) + 1 => Room(other) <= Room(some) + 1
<1> DEFINE Places == P!ServiceIds \X (1..QueueCapacity)
           In(q) == {place \in Places : place[2] <= Len(q[place[1]])}
           other == [some EXCEPT ![i] = one]
           added == <<i, Len(some[i]) + 1>>
<1>1. IsFiniteSet(Places)
  <2>1. IsFiniteSet(P!ServiceIds) /\ IsFiniteSet(1..QueueCapacity)
    BY PoolConstants, FS_Interval
  <2>2. QED
    BY <2>1, FS_Product
<1>2. \A q : IsFiniteSet(In(q)) /\ Cardinality(In(q)) \in Nat
  <2>1. \A q : In(q) \subseteq Places
    OBVIOUS
  <2> HIDE DEF In, Places
  <2>2. QED
    BY <1>1, <2>1, FS_Subset, FS_CardinalityType
<1>3. other[i] = one /\ \A k \in P!ServiceIds : k # i => other[k] = some[k]
  OBVIOUS
<1>4. Len(one) \in Nat /\ Len(some[i]) \in Nat
  OBVIOUS
<1>5. ASSUME NEW place \in Places
      PROVE  /\ place[1] \in P!ServiceIds /\ place[2] \in Nat /\ place[2] >= 1
             /\ place = <<place[1], place[2]>>
  BY PoolConstants, <1>5
<1>6. ASSUME Len(one) <= Len(some[i]) PROVE Cardinality(In(other)) <= Cardinality(In(some))
  <2>1. ASSUME NEW place \in In(other) PROVE place \in In(some)
    <3>1. place \in Places /\ place[2] <= Len(other[place[1]])
      BY <2>1
    <3>2. CASE place[1] = i
      BY <1>3, <1>4, <1>5, <1>6, <3>1, <3>2
    <3>3. CASE place[1] # i
      BY <1>3, <1>5, <3>1, <3>3
    <3>4. QED
      BY <3>2, <3>3
  <2>2. In(other) \subseteq In(some)
    BY <2>1
  <2> HIDE DEF In, other
  <2>3. QED
    BY <1>2, <2>2, FS_Subset
<1>7. ASSUME Len(one) = Len(some[i]) + 1 PROVE Cardinality(In(other)) <= Cardinality(In(some)) + 1
  <2>1. ASSUME NEW place \in In(other) PROVE place \in In(some) \cup {added}
    <3>1. place \in Places /\ place[2] <= Len(other[place[1]])
      BY <2>1
    <3>2. CASE place[1] = i
      <4>1. place[2] <= Len(some[i]) + 1
        BY <1>3, <1>7, <3>1, <3>2
      <4>2. CASE place[2] <= Len(some[i])
        BY <3>1, <3>2, <4>2
      <4>3. CASE ~(place[2] <= Len(some[i]))
        <5>1. place[2] = Len(some[i]) + 1
          BY <1>4, <1>5, <3>1, <4>1, <4>3
        <5>2. place = added
          BY <1>5, <3>1, <3>2, <5>1
        <5>3. QED
          BY <5>2
      <4>4. QED
        BY <4>2, <4>3
    <3>3. CASE place[1] # i
      BY <1>3, <1>5, <3>1, <3>3
    <3>4. QED
      BY <3>2, <3>3
  <2>2. In(other) \subseteq In(some) \cup {added}
    BY <2>1
  <2> HIDE DEF In, other, added
  <2>3. /\ IsFiniteSet(In(some) \cup {added})
        /\ Cardinality(In(some) \cup {added}) \in {Cardinality(In(some)), Cardinality(In(some)) + 1}
    BY <1>2, FS_AddElement
  <2>4. Cardinality(In(other)) <= Cardinality(In(some) \cup {added})
    BY <2>2, <2>3, FS_Subset
  <2>5. Cardinality(In(other)) \in Nat /\ Cardinality(In(some)) \in Nat
    BY <1>2
  <2>6. QED
    BY <2>3, <2>4, <2>5
<1>8. Room(some) = Cardinality(In(some)) /\ Room(other) = Cardinality(In(other))
  BY DEF Room
<1> HIDE DEF In, other
<1>9. QED
  BY <1>2, <1>6, <1>7, <1>8 DEF other

LEMMA RoomEmpty == Room([i \in P!ServiceIds |-> <<>>]) = 0
<1>1. ASSUME NEW place \in P!ServiceIds \X (1..QueueCapacity)
      PROVE  ~(place[2] <= Len([i \in P!ServiceIds |-> <<>>][place[1]]))
  <2>1. place[1] \in P!ServiceIds /\ place[2] \in 1..QueueCapacity
    BY <1>1
  <2>2. Len([i \in P!ServiceIds |-> <<>>][place[1]]) = 0
    BY <2>1
  <2>3. QED
    BY <2>1, <2>2, PoolConstants
<1>2. {place \in P!ServiceIds \X (1..QueueCapacity) :
           place[2] <= Len([i \in P!ServiceIds |-> <<>>][place[1]])} = {}
  BY <1>1
<1>3. QED
  BY <1>2, FS_EmptySet DEF Room

LEMMA QueueRoom == P!QueueLength = Room(toService) + Room(fromService)
<1>1. \A set : P!Cardinality(set) = Cardinality(set)
  BY DEF P!Cardinality, Cardinality
<1>2. QED
  BY <1>1 DEF P!QueueLength, Room

(* Positions in the server's socket, and the numbers of a client's lines.   *)
LEMMA InboxPlaces ==
    ASSUME PoolTypes
    PROVE  /\ inbox \in Seq(Datagram) /\ Len(inbox) \in Nat
           /\ \A i \in DOMAIN inbox : i \in Nat /\ i < Len(inbox) + 1 /\ Len(inbox) + 1 > i
<1>1. inbox \in Seq(Datagram)
  BY DEF PoolTypes
<1>2. Len(inbox) \in Nat /\ DOMAIN inbox = 1..Len(inbox)
  BY <1>1
<1>3. QED
  BY <1>1, <1>2

LEMMA NextLine ==
    ASSUME NEW n \in Nat, NEW m \in 0..n
    PROVE  m \in Nat /\ m + 1 \in Nat /\ m + 1 > 0 /\ (m < n => m + 1 \in 0..n)
OBVIOUS

LEMMA OneFewer ==
    ASSUME NEW n \in Nat, NEW m \in 0..n, m > 0
    PROVE  m - 1 \in 0..n /\ (m > 1 => m - 1 > 0)
OBVIOUS

LEMMA AllAttempts == ATTEMPTS \in 0..ATTEMPTS /\ ATTEMPTS > 0
<1>1. ATTEMPTS \in Nat \ {0}
  BY PoolConstants
<1>2. QED
  BY <1>1

(* The pool has its first size or twice that; ids and sizes are numbers.    *)
LEMMA Sizes ==
    ASSUME PoolTypes
    PROVE  /\ size \in Nat /\ (size > POOL => size = 2 * POOL)
           /\ P!ServiceIds \subseteq Nat
<1>1. POOL \in Nat \ {0} /\ P!ServiceIds \subseteq Nat
  BY PoolConstants
<1>2. size \in {0, POOL, 2 * POOL}
  BY DEF PoolTypes
<1>3. QED
  BY <1>1, <1>2

LEMMA OneText == \A x : Append(<<>>, x) = <<x>> /\ Head(<<x>>) = x /\ Tail(<<x>>) = <<>> /\ <<x>> # <<>>
OBVIOUS

(* A step that leaves alone what a part of the invariant is about.          *)
LEMMA Kept ==
    ASSUME bound' = bound
    PROVE  /\ (ClientState /\ UNCHANGED <<cpc, sid, mid, given, attempts, pending>> => ClientState')
           /\ (Protocol /\ UNCHANGED <<inbox, cpc, given>> => Protocol')
           /\ (Heard /\ UNCHANGED <<raw, given, late>> => Heard')
           /\ (Answered /\ UNCHANGED <<astray, late, cpc, answer, pending>> => Answered')
           /\ (Fits /\ UNCHANGED <<toService, fromService>> => Fits')
           /\ (UNCHANGED <<given, cpc, inbox>> => \A c \in PoolClients : Holding(c)' = Holding(c))
           /\ P!Texts' = P!Texts
<1>1. P!Texts' = P!Texts
  BY DEF P!Texts
<1>2. ClientState /\ UNCHANGED <<cpc, sid, mid, given, attempts, pending>> => ClientState'
  BY DEF ClientState
<1>3. Protocol /\ UNCHANGED <<inbox, cpc, given>> => Protocol'
  BY <1>1 DEF Protocol
<1>4. Heard /\ UNCHANGED <<raw, given, late>> => Heard'
  BY DEF Heard
<1>5. Answered /\ UNCHANGED <<astray, late, cpc, answer, pending>> => Answered'
  BY DEF Answered, P!Connected
<1>6. Fits /\ UNCHANGED <<toService, fromService>> => Fits'
  BY DEF Fits
<1>7. UNCHANGED <<given, cpc, inbox>> => \A c \in PoolClients : Holding(c)' = Holding(c)
  BY DEF Holding
<1>8. QED
  BY <1>1, <1>2, <1>3, <1>4, <1>5, <1>6, <1>7

(* A step that gives nobody a service and takes none from anybody.          *)
LEMMA HeldStays ==
    ASSUME Held, astray \subseteq astray', UNCHANGED <<given, sid, pool_state, size>>,
           P!Up' => P!Up, queue' = queue,
           \A c \in PoolClients : Holding(c)' => Holding(c),
           \A i \in DOMAIN inbox' : \E k \in DOMAIN inbox : inbox'[i] = inbox[k],
           spc' = "await" => (astray = {} => pool_state[current'.sid] = "busy")
    PROVE  Held'
<1> SUFFICES ASSUME astray' = {}
             PROVE  /\ \A c, e \in PoolClients : Holding(c)' /\ Holding(e)' /\ given[c] = given[e] => c = e
                    /\ P!Up' => \A c \in PoolClients : Holding(c)' =>
                            pool_state[given[c]] = "busy" /\ given[c] < size
                    /\ ~queue => \A c \in PoolClients : ~Holding(c)'
                    /\ \A c \in PoolClients : sid[c] # NotDefined => sid[c] = given[c]
                    /\ \A i \in DOMAIN inbox' : inbox'[i].type # "connect" =>
                            inbox'[i].sid = given[inbox'[i].client]
                    /\ spc' = "await" => pool_state[current'.sid] = "busy"
  BY DEF Held
<1>1. astray = {}
  OBVIOUS
<1>2. /\ \A c, e \in PoolClients : Holding(c) /\ Holding(e) /\ given[c] = given[e] => c = e
      /\ P!Up => \A c \in PoolClients : Holding(c) =>
              pool_state[given[c]] = "busy" /\ given[c] < size
      /\ ~queue => \A c \in PoolClients : ~Holding(c)
      /\ \A c \in PoolClients : sid[c] # NotDefined => sid[c] = given[c]
      /\ \A i \in DOMAIN inbox : inbox[i].type # "connect" => inbox[i].sid = given[inbox[i].client]
  BY <1>1 DEF Held
<1>3. \A i \in DOMAIN inbox' : inbox'[i].type # "connect" => inbox'[i].sid = given[inbox'[i].client]
  BY <1>2
<1>4. QED
  BY <1>1, <1>2, <1>3

(* A datagram reaches raw sockets.                                          *)
LEMMA RawGrows ==
    ASSUME PoolTypes, NEW d \in Datagram, NEW receivers, P!Copied(d, receivers)
    PROVE  /\ raw' \in [PoolClients -> Seq(Datagram)]
           /\ \A c \in PoolClients : \A x \in Elems(raw'[c]) : x = d \/ x \in Elems(raw[c])
<1>1. raw' = [c \in PoolClients |-> IF c \in receivers THEN Append(raw[c], d) ELSE <<>>]
  BY DEF P!Copied
<1>2. ASSUME NEW c \in PoolClients
      PROVE  raw'[c] \in Seq(Datagram) /\ \A x \in Elems(raw'[c]) : x = d \/ x \in Elems(raw[c])
  <2>1. raw[c] \in Seq(Datagram)
    BY DEF PoolTypes
  <2>2. Append(raw[c], d) \in Seq(Datagram) /\ Elems(Append(raw[c], d)) = Elems(raw[c]) \cup {d}
    BY <2>1, Added
  <2>3. CASE c \in receivers
    BY <1>1, <2>2, <2>3
  <2>4. CASE c \notin receivers
    <3>1. raw'[c] = <<>>
      BY <1>1, <2>4
    <3>2. QED
      BY <3>1, NothingIn
  <2>5. QED
    BY <2>3, <2>4
<1>3. raw' = [c \in PoolClients |-> raw'[c]]
  BY <1>1
<1>4. QED
  BY <1>2, <1>3

(* The server takes a request out of its socket.                            *)
LEMMA Receipt ==
    ASSUME PoolTypes, Protocol, inbox # <<>>, inbox' = Tail(inbox), cpc' = cpc, bound' = bound,
           \A c \in PoolClients : \/ given'[c] = given[c]
                                  \/ Head(inbox).type = "connect" /\ c = Head(inbox).client
    PROVE  /\ Head(inbox) = inbox[1] /\ 1 \in DOMAIN inbox
           /\ AsSent(Head(inbox)) /\ Head(inbox).text \in P!Texts /\ Head(inbox).client \in PoolClients
           /\ inbox' \in Seq(Datagram)
           /\ \A i \in DOMAIN inbox' : \E k \in DOMAIN inbox : k # 1 /\ inbox'[i] = inbox[k]
           /\ \A c \in PoolClients : Holding(c)' /\ given'[c] = given[c] => Holding(c)
           /\ Protocol'
<1>1. /\ Head(inbox) = inbox[1] /\ 1 \in DOMAIN inbox /\ Tail(inbox) \in Seq(Datagram)
      /\ \A i \in DOMAIN inbox' :
            i \in Nat /\ i + 1 \in DOMAIN inbox /\ i + 1 # 1 /\ inbox'[i] = inbox[i + 1]
      /\ \A i \in DOMAIN inbox :
            i \in Nat /\ (i # 1 => i - 1 \in DOMAIN inbox' /\ inbox'[i - 1] = inbox[i])
  <2>1. inbox \in Seq(Datagram)
    BY DEF PoolTypes
  <2>2. QED
    BY <2>1, Taken
<1>2. \A i \in DOMAIN inbox : AsSent(inbox[i]) /\ inbox[i].text \in P!Texts /\ inbox[i].client \in PoolClients
  BY DEF Protocol, AsSent, Datagram
<1>3. \A i \in DOMAIN inbox' : \E k \in DOMAIN inbox : k # 1 /\ inbox'[i] = inbox[k]
  BY <1>1
<1>4. ASSUME NEW c \in PoolClients, Holding(c)', given'[c] = given[c] PROVE Holding(c)
  <2>1. CASE cpc[c] \in {"connecting", "prompt", "asking", "give up"}
    BY <1>4, <2>1 DEF Holding
  <2>2. CASE cpc[c] \notin {"connecting", "prompt", "asking", "give up"}
    <3>1. PICK i \in DOMAIN inbox' : inbox'[i].type = "close" /\ inbox'[i].client = c
      BY <1>4, <2>2 DEF Holding
    <3>2. PICK k \in DOMAIN inbox : inbox'[i] = inbox[k]
      BY <1>3
    <3>3. QED
      BY <1>4, <3>1, <3>2 DEF Holding
  <2>3. QED
    BY <2>1, <2>2
<1>5. P!Texts' = P!Texts
  BY Kept
<1>6. ASSUME NEW i \in DOMAIN inbox'
      PROVE  /\ AsSent(inbox'[i]) /\ inbox'[i].text \in P!Texts
             /\ cpc[inbox'[i].client] # "connect"
             /\ inbox'[i].type # "connect" => cpc[inbox'[i].client] \notin {"connecting", "failed"}
             /\ inbox'[i].type = "close" => cpc[inbox'[i].client] = "closed"
  BY <1>3 DEF Protocol
<1>7. ASSUME NEW i \in DOMAIN inbox', inbox'[i].type = "connect"
      PROVE  given'[inbox'[i].client] = NotDefined
  <2>1. PICK k \in DOMAIN inbox : k # 1 /\ inbox'[i] = inbox[k]
    BY <1>3
  <2>2. given[inbox[k].client] = NotDefined /\ inbox[k].type = "connect" /\ inbox[k].client \in PoolClients
    BY <1>2, <1>7, <2>1 DEF Protocol
  <2>3. ~(Head(inbox).type = "connect" /\ inbox[k].client = Head(inbox).client)
    BY <1>1, <2>1, <2>2 DEF Protocol
  <2>4. QED
    BY <2>1, <2>2, <2>3
<1>8. ASSUME NEW i \in DOMAIN inbox', inbox'[i].type = "data", cpc[inbox'[i].client] = "closed"
      PROVE  \E k \in DOMAIN inbox' :
                k > i /\ inbox'[k].type = "close" /\ inbox'[k].client = inbox'[i].client
  <2>1. i + 1 \in DOMAIN inbox /\ i \in Nat /\ inbox'[i] = inbox[i + 1]
    BY <1>1
  <2>2. PICK k \in DOMAIN inbox :
            k > i + 1 /\ inbox[k].type = "close" /\ inbox[k].client = inbox[i + 1].client
    BY <1>8, <2>1 DEF Protocol
  <2>3. k \in Nat /\ k # 1
    BY <1>1, <2>1, <2>2
  <2>4. k - 1 \in DOMAIN inbox' /\ inbox'[k - 1] = inbox[k] /\ k - 1 > i
    BY <1>1, <2>1, <2>2, <2>3
  <2>5. QED
    BY <2>1, <2>2, <2>4
<1>9. ASSUME NEW i \in DOMAIN inbox', NEW k \in DOMAIN inbox',
             inbox'[i].type = inbox'[k].type, inbox'[i].client = inbox'[k].client
      PROVE  i = k \/ inbox'[i].type = "data"
  <2>1. /\ i + 1 \in DOMAIN inbox /\ i \in Nat /\ inbox'[i] = inbox[i + 1]
        /\ k + 1 \in DOMAIN inbox /\ k \in Nat /\ inbox'[k] = inbox[k + 1]
    BY <1>1
  <2>2. i + 1 = k + 1 \/ inbox[i + 1].type = "data"
    BY <1>9, <2>1 DEF Protocol
  <2>3. QED
    BY <2>1, <2>2
<1>10. Protocol'
  BY <1>5, <1>6, <1>7, <1>8, <1>9 DEF Protocol
<1>11. QED
  BY <1>1, <1>2, <1>3, <1>4, <1>10

LEMMA LoopStep == ASSUME PoolInv, P!Loop PROVE PoolInv'
<1>1. /\ spc = "loop" /\ spc' \in {"join", "receive"} /\ bound' = bound
      /\ UNCHANGED <<hand, ended, queue, toService, fromService, size, pool_state>>
      /\ UNCHANGED <<flag, starts, current, cpc, sid, mid, attempts, pending, answer>>
      /\ UNCHANGED <<inbox, raw, given, astray, late>>
  BY DEF P!Loop, P!threadVars, P!queueVars, P!poolVars, P!clientVars, P!netVars, P!history
<1>2. PoolTypes /\ ServerState /\ ClientState /\ Protocol /\ Heard /\ Held /\ Quiet /\ Answered /\ Fits
  BY DEF PoolInv
<1>3. P!Texts' = P!Texts
  BY <1>1, Kept
<1>4. PoolTypes'
  BY <1>1, <1>2, <1>3 DEF PoolTypes
<1>5. ServerState'
  BY <1>1, <1>2, <1>3 DEF ServerState, P!Up
<1>6. ClientState' /\ Protocol' /\ Heard' /\ Answered' /\ Fits'
  BY <1>1, <1>2, Kept
<1>7. Held'
  <2>1. \A c \in PoolClients : Holding(c)' => Holding(c)
    BY <1>1, Kept
  <2>2. P!Up' => P!Up
    BY <1>1 DEF P!Up
  <2>3. QED
    BY <1>1, <1>2, <2>1, <2>2, HeldStays
<1>8. Quiet'
  BY <1>1, <1>2 DEF Quiet, P!Up
<1>9. QED
  BY <1>4, <1>5, <1>6, <1>7, <1>8 DEF PoolInv

LEMMA InterruptStep == ASSUME PoolInv, P!Interrupt PROVE PoolInv'
<1>1. /\ P!Up /\ flag' = TRUE /\ bound' = bound /\ spc' = spc
      /\ UNCHANGED <<hand, ended, queue, toService, fromService, size, pool_state>>
      /\ UNCHANGED <<starts, current, cpc, sid, mid, attempts, pending, answer>>
      /\ UNCHANGED <<inbox, raw, given, astray, late>>
  BY DEF P!Interrupt, P!threadVars, P!queueVars, P!poolVars, P!clientVars, P!netVars, P!history
<1>2. PoolTypes /\ ServerState /\ ClientState /\ Protocol /\ Heard /\ Held /\ Quiet /\ Answered /\ Fits
  BY DEF PoolInv
<1>3. P!Texts' = P!Texts
  BY <1>1, Kept
<1>4. PoolTypes'
  BY <1>1, <1>2, <1>3 DEF PoolTypes
<1>5. ServerState'
  BY <1>1, <1>2, <1>3 DEF ServerState, P!Up
<1>6. ClientState' /\ Protocol' /\ Heard' /\ Answered' /\ Fits'
  BY <1>1, <1>2, Kept
<1>7. Held'
  <2>1. \A c \in PoolClients : Holding(c)' => Holding(c)
    BY <1>1, Kept
  <2>2. P!Up' => P!Up
    BY <1>1
  <2>3. spc' = "await" => (astray = {} => pool_state[current'.sid] = "busy")
    BY <1>1, <1>2 DEF Held
  <2>4. QED
    BY <1>1, <1>2, <2>1, <2>2, <2>3, HeldStays
<1>8. Quiet'
  BY <1>1, <1>2 DEF Quiet, P!Up
<1>9. QED
  BY <1>4, <1>5, <1>6, <1>7, <1>8 DEF PoolInv

(* The server refused to start, or started afresh: its queue is empty.      *)
LEMMA StartStep == ASSUME PoolInv, P!Start PROVE PoolInv'
<1>1. /\ ~P!Up /\ starts < bound.starts /\ starts' = starts + 1 /\ flag' = FALSE /\ inbox' = <<>>
      /\ bound' = bound
      /\ UNCHANGED <<toService, fromService, current, raw, cpc, sid, mid, attempts, pending, answer>>
      /\ UNCHANGED <<given, astray, late>>
  BY DEF P!Start, P!clientVars, P!history
<1>2. PoolTypes /\ ServerState /\ ClientState /\ Protocol /\ Heard /\ Held /\ Quiet /\ Answered /\ Fits
  BY DEF PoolInv
<1>3. P!Texts' = P!Texts
  BY <1>1, Kept
<1>4. inbox = <<>>
  BY <1>1, <1>2 DEF ServerState
<1>5. ClientState' /\ Protocol' /\ Heard' /\ Answered' /\ Fits'
  BY <1>1, <1>2, <1>4, Kept
<1>6. starts' \in 0..bound'.starts /\ inbox' \in Seq(Datagram)
  <2>1. bound.starts \in Nat /\ starts \in 0..bound.starts
    BY <1>2, RunBounds DEF PoolTypes
  <2>2. QED
    BY <1>1, <2>1
<1>7. \A c \in PoolClients : Holding(c)' => Holding(c)
  BY <1>1, <1>4, Kept
<1>8. CASE queue
  <2>1. spc' = "refused" /\ UNCHANGED <<queue, size, pool_state, hand, ended>>
    BY <1>8 DEF P!Start, P!poolVars, P!threadVars
  <2>2. ~P!Up'
    BY <2>1 DEF P!Up
  <2>3. PoolTypes'
    BY <1>1, <1>2, <1>3, <1>6, <2>1 DEF PoolTypes
  <2>4. ServerState'
    BY <1>1, <1>8, <2>1, <2>2 DEF ServerState
  <2>5. Held'
    BY <1>1, <1>2, <1>4, <1>7, <2>1, <2>2, HeldStays
  <2>6. Quiet'
    BY <2>2 DEF Quiet
  <2>7. QED
    BY <1>5, <2>3, <2>4, <2>5, <2>6 DEF PoolInv
<1>9. CASE ~queue
  <2>1. /\ spc' = "loop" /\ queue' = TRUE /\ size' = POOL
        /\ pool_state' = [i \in P!ServiceIds |-> IF i < POOL THEN "available" ELSE "none"]
        /\ hand' = [i \in P!ServiceIds |-> Nothing] /\ ended' = {}
    BY <1>9 DEF P!Start
  <2>2. \A i \in P!ServiceIds : toService[i] = <<>> /\ fromService[i] = <<>>
    BY <1>2, <1>9 DEF ServerState
  <2>3. PoolTypes'
    <3>1. pool_state' \in [P!ServiceIds -> {"none", "available", "busy", "error"}]
      BY <2>1
    <3>2. hand' \in [P!ServiceIds -> P!Texts \cup {Nothing}]
      BY <2>1
    <3>3. QED
      BY <1>1, <1>2, <1>3, <1>6, <2>1, <3>1, <3>2 DEF PoolTypes
  <2>4. ServerState'
    BY <1>1, <2>1, <1>6, PoolConstants DEF ServerState, P!Up
  <2>5. Held'
    <3>1. ASSUME astray = {}
          PROVE  /\ \A c \in PoolClients : ~Holding(c)
                 /\ \A c \in PoolClients : sid[c] # NotDefined => sid[c] = given[c]
      BY <1>2, <1>9, <3>1 DEF Held
    <3>2. \A i : i \notin DOMAIN inbox'
      BY <1>1, NothingIn
    <3>3. QED
      BY <1>1, <1>7, <2>1, <3>1, <3>2 DEF Held
  <2>6. Quiet'
    BY <1>1, <2>1, <2>2 DEF Quiet
  <2>7. QED
    BY <1>5, <2>3, <2>4, <2>5, <2>6 DEF PoolInv
<1>10. QED
  BY <1>8, <1>9

(* The server dies.                                                         *)
LEMMA DieStep ==
    ASSUME PoolInv, P!Up, P!Die, bound' = bound, astray' = astray,
           UNCHANGED <<size, pool_state, flag, starts, current>>,
           UNCHANGED <<cpc, sid, mid, attempts, pending, answer, raw, given, late>>
    PROVE  PoolInv'
<1>1. /\ spc' = "crashed" /\ inbox' = <<>>
      /\ UNCHANGED <<queue, toService, fromService, hand, ended>>
  BY DEF P!Die, P!queueVars
<1>2. PoolTypes /\ ServerState /\ ClientState /\ Protocol /\ Heard /\ Held /\ Quiet /\ Answered /\ Fits
  BY DEF PoolInv
<1>3. P!Texts' = P!Texts
  BY Kept
<1>4. ~P!Up' /\ \A i : i \notin DOMAIN inbox'
  BY <1>1, NothingIn DEF P!Up
<1>5. PoolTypes'
  <2>1. inbox' \in Seq(Datagram)
    BY <1>1
  <2>2. QED
    BY <1>1, <1>2, <1>3, <2>1 DEF PoolTypes
<1>6. ServerState'
  <2>1. queue /\ queue' = queue
    BY <1>1, <1>2 DEF ServerState, P!Up
  <2>2. QED
    BY <1>1, <1>4, <2>1 DEF ServerState
<1>7. ClientState' /\ Heard' /\ Answered' /\ Fits'
  BY <1>1, <1>2, Kept
<1>8. Protocol'
  BY <1>4 DEF Protocol
<1>9. Held'
  <2>1. \A c \in PoolClients : Holding(c)' => Holding(c)
    BY <1>4 DEF Holding
  <2>2. \A i \in DOMAIN inbox' : \E k \in DOMAIN inbox : inbox'[i] = inbox[k]
    BY <1>4
  <2>3. P!Up' => P!Up
    BY <1>4
  <2>4. QED
    BY <1>1, <1>2, <2>1, <2>2, <2>3, HeldStays
<1>10. Quiet'
  BY <1>4 DEF Quiet
<1>11. QED
  BY <1>5, <1>6, <1>7, <1>8, <1>9, <1>10 DEF PoolInv

(* The server leaves its loop: it dies, or removes the queue, and the       *)
(* clients it leaves are astray.                                            *)
LEMMA EndStep == ASSUME PoolInv, P!End PROVE PoolInv'
<1>1. /\ spc = "join" /\ bound' = bound
      /\ UNCHANGED <<size, pool_state, flag, starts, current, raw, given, late>>
      /\ UNCHANGED <<cpc, sid, mid, attempts, pending, answer>>
  BY DEF P!End, P!poolVars, P!clientVars
<1>2. PoolTypes /\ ServerState /\ ClientState /\ Protocol /\ Heard /\ Held /\ Quiet /\ Answered /\ Fits
  BY DEF PoolInv
<1>3. CASE size > POOL
  <2>1. P!Die /\ astray' = astray
    BY <1>3 DEF P!End
  <2>2. P!Up
    BY <1>1 DEF P!Up
  <2>3. QED
    BY <1>1, <2>1, <2>2, DieStep
<1>4. CASE ~(size > POOL)
  <2>1. /\ spc' = "closed" /\ queue' = FALSE /\ inbox' = <<>>
        /\ toService' = [i \in P!ServiceIds |-> <<>>] /\ fromService' = [i \in P!ServiceIds |-> <<>>]
        /\ UNCHANGED <<hand, ended>> /\ astray' = astray \cup P!Listening
    BY <1>4 DEF P!End
  <2>2. P!Texts' = P!Texts
    BY <1>1, Kept
  <2>3. ~P!Up' /\ \A i : i \notin DOMAIN inbox'
    BY <2>1, NothingIn DEF P!Up
  <2>4. PoolTypes'
    <3>1. /\ toService' \in [P!ServiceIds -> Seq(P!Texts)] /\ fromService' \in [P!ServiceIds -> Seq(P!Texts)]
          /\ inbox' \in Seq(Datagram)
      BY <2>1
    <3>2. P!Listening \subseteq PoolClients
      BY DEF P!Listening
    <3>3. astray' \subseteq PoolClients
      BY <1>2, <2>1, <3>2 DEF PoolTypes
    <3>4. QED
      BY <1>1, <1>2, <2>1, <2>2, <3>1, <3>3 DEF PoolTypes
  <2>5. ServerState'
    BY <2>1, <2>3 DEF ServerState
  <2>6. ClientState' /\ Heard'
    BY <1>1, <1>2, Kept
  <2>7. Protocol' /\ Quiet'
    BY <2>3 DEF Protocol, Quiet
  <2>8. Answered'
    BY <1>1, <1>2, <2>1 DEF Answered, P!Connected
  <2>9. Held'
    <3>1. ASSUME astray' = {}
          PROVE  astray = {} /\ \A c \in PoolClients : ~Holding(c)'
      <4>1. astray = {} /\ P!Listening = {}
        BY <2>1, <3>1
      <4>2. QED
        BY <1>1, <2>3, <4>1 DEF P!Listening, Holding
    <3>2. astray = {} => \A c \in PoolClients : sid[c] # NotDefined => sid[c] = given[c]
      BY <1>2 DEF Held
    <3>3. QED
      BY <1>1, <2>1, <2>3, <3>1, <3>2 DEF Held
  <2>10. Fits'
    BY <2>1, RoomEmpty, PoolConstants DEF Fits
  <2>11. QED
    BY <2>4, <2>5, <2>6, <2>7, <2>8, <2>9, <2>10 DEF PoolInv
<1>5. QED
  BY <1>3, <1>4

(* A client that connects is given a service nobody holds.                  *)
LEMMA AssignStep ==
    ASSUME PoolInv, P!Received("connect"), NEW d, d = Head(inbox), NEW reply,
           NEW i \in P!ServiceIds, NEW poolSize \in {POOL, 2 * POOL}, i < poolSize, size <= poolSize,
           NEW states \in [P!ServiceIds -> {"none", "available", "busy", "error"}],
           astray = {} => \A c \in PoolClients : Holding(c) =>
                given[c] # i /\ states[given[c]] = "busy",
           size' = poolSize, pool_state' = [states EXCEPT ![i] = "busy"],
           given' = [given EXCEPT ![d.client] = i],
           reply = P!Reply(d, i, d.text), P!Copied(reply, P!Listening),
           spc' = "loop", inbox' = Tail(inbox), bound' = bound,
           UNCHANGED <<queue, toService, fromService, hand, ended, flag, starts, current>>,
           UNCHANGED <<cpc, sid, mid, attempts, pending, answer, astray, late>>
    PROVE  PoolInv'
<1>1. PoolTypes /\ ServerState /\ ClientState /\ Protocol /\ Heard /\ Held /\ Quiet /\ Answered /\ Fits
  BY DEF PoolInv
<1>2. spc = "receive" /\ inbox # <<>> /\ d.type = "connect"
  BY DEF P!Received
<1>3. inbox \in Seq(Datagram)
  BY <1>1 DEF PoolTypes
<1>4. d = inbox[1] /\ 1 \in DOMAIN inbox
  BY <1>2, <1>3, Taken
<1>5. /\ AsSent(d) /\ d \in Datagram /\ d.client \in PoolClients /\ d.mid = 0 /\ d.text = <<d.client, 0>>
      /\ cpc[d.client] # "connect" /\ given[d.client] = NotDefined
  BY <1>1, <1>2, <1>4 DEF Protocol, AsSent, Datagram
<1>6. given \in [PoolClients -> P!ServiceIds \cup {NotDefined}]
  BY <1>1 DEF PoolTypes
<1>7. /\ given' \in [PoolClients -> P!ServiceIds \cup {NotDefined}] /\ given'[d.client] = i
      /\ \A c \in PoolClients : c # d.client => given'[c] = given[c]
  BY <1>5, <1>6
<1>8. \A c \in PoolClients : \/ given'[c] = given[c]
                             \/ Head(inbox).type = "connect" /\ c = Head(inbox).client
  BY <1>2, <1>7
<1>9. /\ inbox' \in Seq(Datagram) /\ Protocol'
      /\ \A k \in DOMAIN inbox' : \E m \in DOMAIN inbox : m # 1 /\ inbox'[k] = inbox[m]
      /\ \A c \in PoolClients : Holding(c)' /\ given'[c] = given[c] => Holding(c)
  BY <1>1, <1>2, <1>8, Receipt
<1>10. /\ reply = [kind |-> "reply", type |-> "connect", sid |-> i, mid |-> 1,
                   client |-> d.client, text |-> <<d.client, 0>>]
       /\ reply \in Datagram
  <2>1. reply = [kind |-> "reply", type |-> "connect", sid |-> i, mid |-> 1,
                   client |-> d.client, text |-> <<d.client, 0>>]
    <3>1. d.mid + 1 = 1
      BY <1>5
    <3>2. QED
      BY <1>2, <1>5, <3>1 DEF P!Reply
  <2>2. QED
    BY <1>5, <2>1 DEF Datagram
<1>11. /\ raw' \in [PoolClients -> Seq(Datagram)]
       /\ \A c \in PoolClients : \A x \in Elems(raw'[c]) : x = reply \/ x \in Elems(raw[c])
  <2>1. PICK receivers : receivers = P!Listening
    OBVIOUS
  <2>2. P!Copied(reply, receivers)
    BY <2>1 DEF P!Copied
  <2>3. QED
    BY <1>1, <1>10, <2>2, RawGrows
<1>12. P!Texts' = P!Texts
  BY Kept
<1>13. /\ pool_state' \in [P!ServiceIds -> {"none", "available", "busy", "error"}]
       /\ pool_state'[i] = "busy" /\ \A k \in P!ServiceIds : k # i => pool_state'[k] = states[k]
  OBVIOUS
<1>14. PoolTypes'
  BY <1>1, <1>7, <1>9, <1>11, <1>12, <1>13 DEF PoolTypes
<1>15. ServerState'
  <2>1. P!Up
    BY <1>2 DEF P!Up
  <2>2. queue /\ (ended # {} => flag)
    BY <1>1, <1>2, <2>1 DEF ServerState
  <2>3. poolSize # 0
    BY PoolConstants
  <2>4. P!Up'
    BY DEF P!Up
  <2>5. QED
    BY <2>2, <2>3, <2>4 DEF ServerState
<1>16. ClientState'
  <2>1. \A c \in PoolClients : cpc[c] = "connect" => given'[c] = given[c]
    BY <1>5, <1>7
  <2>2. QED
    BY <1>1, <2>1 DEF ClientState
<1>17. Heard'
  <2>1. ASSUME NEW c \in PoolClients, NEW x \in Elems(raw'[c])
        PROVE  /\ x.mid > 0 \/ x.kind = "reply" => x.sid \in P!ServiceIds
               /\ x.kind = "reply" /\ x.type = "connect" =>
                    x.sid = given'[x.client] /\ x.text = <<x.client, 0>>
               /\ x.kind = "reply" /\ x.type = "data" /\ late = {} => x.text = <<x.client, x.mid>>
    <3>1. CASE x = reply
      BY <1>7, <1>10, <3>1
    <3>2. CASE x \in Elems(raw[c])
      <4>1. /\ x.mid > 0 \/ x.kind = "reply" => x.sid \in P!ServiceIds
            /\ x.kind = "reply" /\ x.type = "connect" =>
                 x.sid = given[x.client] /\ x.text = <<x.client, 0>>
            /\ x.kind = "reply" /\ x.type = "data" /\ late = {} => x.text = <<x.client, x.mid>>
        BY <1>1, <3>2 DEF Heard
      <4>2. x.client \in PoolClients
        <5>1. raw[c] \in Seq(Datagram)
          BY <1>1 DEF PoolTypes
        <5>2. x \in Datagram
          BY <3>2, <5>1 DEF Elems
        <5>3. QED
          BY <5>2 DEF Datagram
      <4>3. x.kind = "reply" /\ x.type = "connect" => x.client # d.client
        BY <1>5, <4>1, PoolConstants
      <4>4. QED
        BY <1>7, <4>1, <4>2, <4>3
    <3>3. QED
      BY <1>11, <3>1, <3>2
  <2>2. QED
    BY <2>1 DEF Heard
<1>18. Held'
  <2> SUFFICES ASSUME astray = {}
               PROVE  /\ \A c, e \in PoolClients :
                            Holding(c)' /\ Holding(e)' /\ given'[c] = given'[e] => c = e
                      /\ \A c \in PoolClients : Holding(c)' =>
                            pool_state'[given'[c]] = "busy" /\ given'[c] < poolSize
                      /\ queue
                      /\ \A c \in PoolClients : sid[c] # NotDefined => sid[c] = given'[c]
                      /\ \A k \in DOMAIN inbox' : inbox'[k].type # "connect" =>
                            inbox'[k].sid = given'[inbox'[k].client]
    BY DEF Held
  <2>1. P!Up /\ queue
    BY <1>1, <1>2 DEF P!Up, ServerState
  <2>2. /\ \A c, e \in PoolClients : Holding(c) /\ Holding(e) /\ given[c] = given[e] => c = e
        /\ \A c \in PoolClients : Holding(c) => given[c] < size
        /\ \A c \in PoolClients : sid[c] # NotDefined => sid[c] = given[c]
        /\ \A k \in DOMAIN inbox : inbox[k].type # "connect" => inbox[k].sid = given[inbox[k].client]
    BY <1>1, <2>1 DEF Held
  <2>3. \A c \in PoolClients : Holding(c) => given[c] # i /\ states[given[c]] = "busy"
    OBVIOUS
  <2>4. \A c \in PoolClients : Holding(c)' /\ c # d.client => Holding(c) /\ given'[c] = given[c]
    BY <1>7, <1>9
  <2>5. \A c, e \in PoolClients : Holding(c)' /\ Holding(e)' /\ given'[c] = given'[e] => c = e
    BY <1>7, <2>2, <2>3, <2>4
  <2>6. ASSUME NEW c \in PoolClients, Holding(c)'
        PROVE  pool_state'[given'[c]] = "busy" /\ given'[c] < poolSize
    <3>1. CASE c = d.client
      BY <1>7, <1>13, <3>1
    <3>2. CASE c # d.client
      <4>1. Holding(c) /\ given'[c] = given[c]
        BY <2>4, <2>6, <3>2
      <4>2. states[given[c]] = "busy" /\ given[c] # i /\ given[c] < size
        BY <2>2, <2>3, <4>1
      <4>3. given[c] \in P!ServiceIds
        BY <1>6, <4>1 DEF Holding
      <4>4. given[c] \in Nat /\ size \in Nat
        BY <1>1, <4>3, Sizes
      <4>5. QED
        BY <1>13, <4>1, <4>2, <4>3, <4>4, PoolConstants
    <3>3. QED
      BY <3>1, <3>2
  <2>7. ASSUME NEW c \in PoolClients, sid[c] # NotDefined PROVE sid[c] = given'[c]
    BY <1>5, <1>7, <2>2, <2>7
  <2>8. ASSUME NEW k \in DOMAIN inbox', inbox'[k].type # "connect"
        PROVE  inbox'[k].sid = given'[inbox'[k].client]
    <3>1. PICK m \in DOMAIN inbox : inbox'[k] = inbox[m]
      BY <1>9
    <3>2. inbox[m].sid = given[inbox[m].client]
      BY <2>2, <2>8, <3>1
    <3>3. inbox[m].sid \in P!ServiceIds /\ inbox[m].client \in PoolClients
      BY <1>1, <2>8, <3>1 DEF Protocol, AsSent, Datagram
    <3>4. inbox[m].client # d.client
      BY <1>5, <3>2, <3>3, PoolConstants
    <3>5. QED
      BY <1>7, <3>1, <3>2, <3>3, <3>4
  <2>9. QED
    BY <2>1, <2>5, <2>6, <2>7, <2>8
<1>19. Quiet'
  <2>1. P!Up
    BY <1>2 DEF P!Up
  <2>2. QED
    BY <1>1, <1>2, <2>1 DEF Quiet
<1>20. Answered' /\ Fits'
  BY <1>1, Kept
<1>21. QED
  BY <1>9, <1>14, <1>15, <1>16, <1>17, <1>18, <1>19, <1>20 DEF PoolInv

LEMMA ConnectStep == ASSUME PoolInv, P!Connect PROVE PoolInv'
<1>1. /\ P!Received("connect") /\ bound' = bound
      /\ UNCHANGED <<flag, starts, current, cpc, sid, mid, attempts, pending, answer, astray, late>>
  BY DEF P!Connect, P!clientVars
<1>2. PoolTypes /\ ServerState /\ Held
  BY DEF PoolInv
<1>3. P!Up
  BY <1>1 DEF P!Up, P!Received
<1>4. /\ size \in {POOL, 2 * POOL}
      /\ pool_state \in [P!ServiceIds -> {"none", "available", "busy", "error"}]
      /\ given \in [PoolClients -> P!ServiceIds \cup {NotDefined}]
  BY <1>2, <1>3 DEF PoolTypes, ServerState
<1>5. astray = {} => \A c \in PoolClients : Holding(c) =>
          given[c] \in P!ServiceIds /\ pool_state[given[c]] = "busy" /\ given[c] < size
  BY <1>2, <1>3, <1>4 DEF Held, Holding
<1> DEFINE available == {i \in 0..size - 1 : pool_state[i] = "available"}
<1>6. PICK d : d = Head(inbox)
  OBVIOUS
<1>7. CASE available # {}
  <2>1. PICK i : i = CHOOSE n \in available : \A k \in available : n <= k
    OBVIOUS
  <2>2. i \in available
    <3>1. available \in SUBSET Nat
      BY <1>4, PoolConstants
    <3>2. QED
      BY <1>7, <2>1, <3>1, LeastMatch
  <2>3. PICK poolSize, states, reply :
            poolSize = size /\ states = pool_state /\ reply = P!Reply(d, i, d.text)
    OBVIOUS
  <2>4. /\ size' = poolSize /\ pool_state' = [states EXCEPT ![i] = "busy"]
        /\ given' = [given EXCEPT ![d.client] = i] /\ P!Copied(reply, P!Listening)
        /\ spc' = "loop" /\ inbox' = Tail(inbox)
    BY <1>6, <1>7, <2>1, <2>3 DEF P!Connect, P!Assign
  <2>5. UNCHANGED <<queue, toService, fromService, hand, ended>>
    BY <1>7 DEF P!Connect, P!queueVars, P!threadVars
  <2>6. i \in P!ServiceIds /\ i < poolSize /\ size <= poolSize /\ states[i] = "available"
    BY <1>4, <2>2, <2>3, PoolConstants
  <2>7. astray = {} => \A c \in PoolClients : Holding(c) =>
            given[c] # i /\ states[given[c]] = "busy"
    BY <1>5, <2>3, <2>6
  <2>8. QED
    BY <1>1, <1>4, <1>6, <2>3, <2>4, <2>5, <2>6, <2>7, AssignStep
<1>8. CASE available = {} /\ size = POOL
  <2>1. PICK i, poolSize, states, reply :
            /\ i = POOL /\ poolSize = 2 * POOL /\ reply = P!Reply(d, i, d.text)
            /\ states = [k \in P!ServiceIds |-> IF k < POOL THEN pool_state[k] ELSE "available"]
    OBVIOUS
  <2>2. /\ size' = poolSize /\ pool_state' = [states EXCEPT ![i] = "busy"]
        /\ given' = [given EXCEPT ![d.client] = i] /\ P!Copied(reply, P!Listening)
        /\ spc' = "loop" /\ inbox' = Tail(inbox)
    BY <1>6, <1>8, <2>1 DEF P!Connect, P!Assign
  <2>3. UNCHANGED <<queue, toService, fromService, hand, ended>>
    BY <1>8 DEF P!Connect, P!queueVars, P!threadVars
  <2>4. /\ i \in P!ServiceIds /\ i < poolSize /\ size <= poolSize
        /\ states \in [P!ServiceIds -> {"none", "available", "busy", "error"}]
    BY <1>4, <1>8, <2>1, PoolConstants
  <2>5. astray = {} => \A c \in PoolClients : Holding(c) =>
            given[c] # i /\ states[given[c]] = "busy"
    BY <1>5, <1>8, <2>1, PoolConstants
  <2>6. QED
    BY <1>1, <1>6, <2>1, <2>2, <2>3, <2>4, <2>5, AssignStep
<1>9. CASE available = {} /\ size # POOL
  <2>1. P!Die /\ UNCHANGED <<size, pool_state, given, raw>>
    BY <1>9 DEF P!Connect, P!poolVars
  <2>2. QED
    BY <1>1, <1>3, <2>1, DieStep
<1>10. QED
  BY <1>7, <1>8, <1>9

(* A line goes to the service its client names, or is dropped.              *)
LEMMA DataStep == ASSUME PoolInv, P!Data PROVE PoolInv'
<1>1. /\ P!Received("data") /\ inbox' = Tail(inbox) /\ bound' = bound
      /\ UNCHANGED <<hand, ended, queue, fromService, size, pool_state, flag, starts>>
      /\ UNCHANGED <<cpc, sid, mid, attempts, pending, answer, raw, given, astray, late>>
  BY DEF P!Data, P!threadVars, P!poolVars, P!clientVars, P!history
<1>2. PoolTypes /\ ServerState /\ ClientState /\ Protocol /\ Heard /\ Held /\ Quiet /\ Answered /\ Fits
  BY DEF PoolInv
<1>3. spc = "receive" /\ inbox # <<>> /\ Head(inbox).type = "data" /\ P!Up
  BY <1>1 DEF P!Received, P!Up
<1>4. PICK d : d = Head(inbox)
  OBVIOUS
<1>5. /\ d = inbox[1] /\ 1 \in DOMAIN inbox /\ AsSent(d) /\ d.text \in P!Texts /\ d.client \in PoolClients
      /\ inbox' \in Seq(Datagram) /\ Protocol'
      /\ \A k \in DOMAIN inbox' : \E m \in DOMAIN inbox : m # 1 /\ inbox'[k] = inbox[m]
      /\ \A c \in PoolClients : Holding(c)' /\ given'[c] = given[c] => Holding(c)
  BY <1>1, <1>2, <1>3, <1>4, Receipt
<1>6. d.type = "data" /\ d.sid \in P!ServiceIds
  BY <1>3, <1>4, <1>5 DEF AsSent
<1>7. P!Texts' = P!Texts
  BY <1>1, Kept
<1>8. \A c \in PoolClients : Holding(c)' => Holding(c)
  BY <1>1, <1>5
<1>9. ClientState' /\ Heard' /\ Answered'
  BY <1>1, <1>2, Kept
<1>10. CASE P!QueueLength < QueueCapacity
  <2>1. /\ toService' = [toService EXCEPT ![d.sid] = Append(@, d.text)]
        /\ current' = d /\ spc' = "await"
    BY <1>4, <1>10 DEF P!Data
  <2>2. P!Up'
    BY <2>1 DEF P!Up
  <2>3. /\ toService[d.sid] \in Seq(P!Texts) /\ toService \in [P!ServiceIds -> Seq(P!Texts)]
        /\ fromService \in [P!ServiceIds -> Seq(P!Texts)]
    BY <1>2, <1>6 DEF PoolTypes
  <2>4. PICK longer : longer = Append(toService[d.sid], d.text)
    OBVIOUS
  <2>5. longer \in Seq(P!Texts) /\ Len(longer) = Len(toService[d.sid]) + 1
    BY <1>5, <2>3, <2>4
  <2>6. toService' = [toService EXCEPT ![d.sid] = longer]
    BY <2>1, <2>4
  <2>7. toService' \in [P!ServiceIds -> Seq(P!Texts)]
    BY <2>3, <2>5, <2>6
  <2>8. PoolTypes'
    BY <1>1, <1>2, <1>5, <1>7, <2>1, <2>7 DEF PoolTypes
  <2>9. ServerState'
    BY <1>1, <1>2, <1>3, <1>5, <1>6, <1>7, <2>1, <2>2 DEF ServerState
  <2>10. Held'
    <3>1. ASSUME astray = {} PROVE pool_state[d.sid] = "busy"
      <4>1. d.sid = given[d.client]
        BY <1>2, <1>5, <1>6, <3>1 DEF Held
      <4>2. cpc[d.client] \notin {"connect", "connecting", "failed"}
        BY <1>2, <1>5, <1>6 DEF Protocol
      <4>3. CASE cpc[d.client] = "closed"
        <5>1. \E k \in DOMAIN inbox : inbox[k].type = "close" /\ inbox[k].client = d.client
          BY <1>2, <1>5, <1>6, <4>3 DEF Protocol
        <5>2. Holding(d.client)
          BY <1>6, <4>1, <5>1, PoolConstants DEF Holding
        <5>3. QED
          BY <1>2, <1>3, <1>5, <3>1, <4>1, <5>2 DEF Held
      <4>4. CASE cpc[d.client] # "closed"
        <5>1. cpc[d.client] \in {"prompt", "asking", "give up"}
          BY <1>2, <1>5, <4>2, <4>4 DEF PoolTypes
        <5>2. Holding(d.client)
          BY <1>6, <4>1, <5>1, PoolConstants DEF Holding
        <5>3. QED
          BY <1>2, <1>3, <1>5, <3>1, <4>1, <5>2 DEF Held
      <4>5. QED
        BY <4>3, <4>4
    <3>2. \A k \in DOMAIN inbox' : \E m \in DOMAIN inbox : inbox'[k] = inbox[m]
      BY <1>5
    <3>3. QED
      BY <1>1, <1>2, <1>3, <1>8, <2>1, <3>1, <3>2, HeldStays
  <2>11. Quiet'
    <3>1. ASSUME late = {}, NEW i \in P!ServiceIds
          PROVE  \/ hand[i] = Nothing /\ toService'[i] = <<>> /\ fromService[i] = <<>>
                 \/ /\ i = d.sid
                    /\ toService'[i] = <<d.text>> /\ hand[i] = Nothing /\ fromService[i] = <<>>
      <4>1. hand[i] = Nothing /\ toService[i] = <<>> /\ fromService[i] = <<>>
        BY <1>2, <1>3, <3>1 DEF Quiet
      <4>2. CASE i = d.sid
        BY <2>1, <2>3, <4>1, <4>2, OneText
      <4>3. CASE i # d.sid
        BY <2>1, <2>3, <4>1, <4>3
      <4>4. QED
        BY <4>2, <4>3
    <3>2. QED
      BY <1>1, <2>1, <3>1 DEF Quiet
  <2>12. Fits'
    <3>1. /\ Room(toService) \in Nat /\ Room(toService') \in Nat /\ Room(toService') <= Room(toService) + 1
          /\ Room(fromService) \in Nat
      BY <1>6, <2>3, <2>5, <2>6, RoomTaken
    <3>2. Room(toService) + Room(fromService) < QueueCapacity
      BY <1>10, QueueRoom
    <3>3. Room(toService') + Room(fromService) <= QueueCapacity
      BY <3>1, <3>2, PoolConstants
    <3>4. QED
      BY <1>1, <3>3 DEF Fits
  <2>13. QED
    BY <1>5, <1>9, <2>8, <2>9, <2>10, <2>11, <2>12 DEF PoolInv
<1>11. CASE ~(P!QueueLength < QueueCapacity)
  <2>1. spc' = "loop" /\ UNCHANGED <<toService, current>>
    BY <1>11 DEF P!Data
  <2>2. PoolTypes'
    BY <1>1, <1>2, <1>5, <1>7, <2>1 DEF PoolTypes
  <2>3. ServerState'
    BY <1>1, <1>2, <1>3, <2>1 DEF ServerState, P!Up
  <2>4. Held'
    <3>1. \A k \in DOMAIN inbox' : \E m \in DOMAIN inbox : inbox'[k] = inbox[m]
      BY <1>5
    <3>2. QED
      BY <1>1, <1>2, <1>3, <1>8, <2>1, <3>1, HeldStays
  <2>5. Quiet'
    BY <1>1, <1>2, <1>3, <2>1 DEF Quiet
  <2>6. Fits'
    BY <1>1, <1>2, <2>1, Kept
  <2>7. QED
    BY <1>5, <1>9, <2>2, <2>3, <2>4, <2>5, <2>6 DEF PoolInv
<1>12. QED
  BY <1>10, <1>11

(* A second later: the answer goes to the client, or is late.               *)
LEMMA AnswerStep == ASSUME PoolInv, P!Answer PROVE PoolInv'
<1>1. /\ spc = "await" /\ current' = Nothing /\ spc' = "loop" /\ bound' = bound
      /\ UNCHANGED <<hand, ended, queue, toService, size, pool_state, flag, starts>>
      /\ UNCHANGED <<cpc, sid, mid, attempts, pending, answer, inbox, given, astray>>
  BY DEF P!Answer, P!threadVars, P!poolVars, P!clientVars
<1>2. PoolTypes /\ ServerState /\ ClientState /\ Protocol /\ Heard /\ Held /\ Quiet /\ Answered /\ Fits
  BY DEF PoolInv
<1>3. PICK d, i : d = current /\ i = d.sid
  OBVIOUS
<1>4. AsSent(d) /\ d.type = "data" /\ i \in P!ServiceIds /\ d \in Datagram /\ d.text = <<d.client, d.mid + 1>>
  BY <1>1, <1>2, <1>3 DEF ServerState, AsSent
<1>5. P!Texts' = P!Texts /\ P!Up /\ P!Up'
  BY <1>1, Kept DEF P!Up
<1>6. ServerState' \/ fromService' # fromService
  BY <1>1, <1>2, <1>5 DEF ServerState
<1>7. ClientState' /\ Protocol'
  BY <1>1, <1>2, Kept
<1>8. Held'
  <2>1. \A c \in PoolClients : Holding(c)' => Holding(c)
    BY <1>1, Kept
  <2>2. QED
    BY <1>1, <1>2, <1>5, <2>1, HeldStays
<1>9. CASE fromService[i] = <<>>
  <2>1. late' = late \cup {i} /\ UNCHANGED <<fromService, raw>>
    BY <1>3, <1>9 DEF P!Answer
  <2>2. late' # {} /\ late' \subseteq P!ServiceIds
    BY <1>2, <1>4, <2>1 DEF PoolTypes
  <2>3. PoolTypes'
    BY <1>1, <1>2, <1>5, <2>1, <2>2 DEF PoolTypes
  <2>4. ServerState'
    BY <1>6, <2>1
  <2>5. Heard'
    BY <1>1, <1>2, <2>1, <2>2 DEF Heard
  <2>6. Quiet' /\ Answered'
    BY <2>2 DEF Quiet, Answered
  <2>7. Fits'
    BY <1>1, <1>2, <2>1, Kept
  <2>8. QED
    BY <1>7, <1>8, <2>3, <2>4, <2>5, <2>6, <2>7 DEF PoolInv
<1>10. CASE fromService[i] # <<>>
  <2>1. PICK text, rest, reply :
            /\ text = Head(fromService[i]) /\ rest = Tail(fromService[i])
            /\ reply = P!Reply(d, i, text)
    OBVIOUS
  <2>2. /\ P!Copied(reply, P!Listening) /\ fromService' = [fromService EXCEPT ![i] = rest]
        /\ late' = late
    BY <1>3, <1>10, <2>1 DEF P!Answer
  <2>3. /\ fromService \in [P!ServiceIds -> Seq(P!Texts)] /\ toService \in [P!ServiceIds -> Seq(P!Texts)]
        /\ fromService[i] \in Seq(P!Texts)
    BY <1>2, <1>4 DEF PoolTypes
  <2>4. text \in P!Texts /\ rest \in Seq(P!Texts) /\ Len(rest) <= Len(fromService[i])
    BY <1>10, <2>1, <2>3
  <2>5. fromService' \in [P!ServiceIds -> Seq(P!Texts)]
    BY <2>2, <2>3, <2>4
  <2>6. /\ reply = [kind |-> "reply", type |-> "data", sid |-> i, mid |-> d.mid + 1,
                    client |-> d.client, text |-> text]
        /\ reply \in Datagram
    <3>1. reply = [kind |-> "reply", type |-> "data", sid |-> i, mid |-> d.mid + 1,
                    client |-> d.client, text |-> text]
      BY <1>4, <2>1 DEF P!Reply
    <3>2. text \in PoolClients \X Nat
      BY <1>2, <2>4, RunBounds
    <3>3. d.client \in PoolClients /\ d.mid + 1 \in Nat
      BY <1>4 DEF Datagram
    <3>4. QED
      BY <1>4, <3>1, <3>2, <3>3 DEF Datagram
  <2>7. /\ raw' \in [PoolClients -> Seq(Datagram)]
        /\ \A c \in PoolClients : \A x \in Elems(raw'[c]) : x = reply \/ x \in Elems(raw[c])
    <3>1. PICK receivers : receivers = P!Listening
      OBVIOUS
    <3>2. P!Copied(reply, receivers)
      BY <2>2, <3>1 DEF P!Copied
    <3>3. QED
      BY <1>2, <2>6, <3>2, RawGrows
  <2>8. PoolTypes'
    BY <1>1, <1>2, <1>5, <2>2, <2>5, <2>7 DEF PoolTypes
  <2>9. ServerState'
    <3>1. queue
      BY <1>1, <1>2 DEF ServerState
    <3>2. QED
      BY <1>1, <1>2, <1>5, <3>1 DEF ServerState
  <2>10. ASSUME late = {}
         PROVE  /\ toService[i] = <<>> /\ hand[i] = Nothing /\ text = d.text /\ rest = <<>>
                /\ \A k \in P!ServiceIds : k # i =>
                     hand[k] = Nothing /\ toService[k] = <<>> /\ fromService[k] = <<>>
    <3>1. toService[i] = <<>> /\ hand[i] = Nothing /\ fromService[i] = <<d.text>>
      BY <1>2, <1>3, <1>4, <1>5, <1>10, <2>10 DEF Quiet
    <3>2. text = d.text /\ rest = <<>>
      BY <2>1, <3>1, OneText
    <3>3. QED
      BY <1>2, <1>3, <1>5, <2>10, <3>1, <3>2 DEF Quiet
  <2>11. Heard'
    <3>1. late = {} => reply.text = <<reply.client, reply.mid>>
      BY <1>4, <2>6, <2>10
    <3>2. ASSUME NEW c \in PoolClients, NEW x \in Elems(raw'[c])
          PROVE  /\ x.mid > 0 \/ x.kind = "reply" => x.sid \in P!ServiceIds
                 /\ x.kind = "reply" /\ x.type = "connect" =>
                      x.sid = given[x.client] /\ x.text = <<x.client, 0>>
                 /\ x.kind = "reply" /\ x.type = "data" /\ late = {} => x.text = <<x.client, x.mid>>
      <4>1. CASE x = reply
        BY <1>4, <2>6, <3>1, <4>1
      <4>2. CASE x \in Elems(raw[c])
        BY <1>2, <4>2 DEF Heard
      <4>3. QED
        BY <2>7, <3>2, <4>1, <4>2
    <3>3. QED
      BY <1>1, <2>2, <3>2 DEF Heard
  <2>12. Quiet'
    <3>1. ASSUME late = {}, NEW k \in P!ServiceIds
          PROVE  hand[k] = Nothing /\ toService[k] = <<>> /\ fromService'[k] = <<>>
      BY <2>2, <2>3, <2>10, <3>1
    <3>2. QED
      BY <1>1, <2>2, <3>1 DEF Quiet
  <2>13. Answered'
    BY <1>1, <1>2, <2>2, Kept
  <2>14. Fits'
    <3>1. /\ Room(fromService) \in Nat /\ Room(fromService') \in Nat /\ Room(fromService') <= Room(fromService)
          /\ Room(toService) \in Nat
      BY <1>4, <2>2, <2>3, <2>4, RoomTaken
    <3>2. Room(toService) + Room(fromService') <= QueueCapacity
      BY <1>2, <3>1, PoolConstants DEF Fits
    <3>3. QED
      BY <1>1, <3>2 DEF Fits
  <2>15. QED
    BY <1>7, <1>8, <2>8, <2>9, <2>11, <2>12, <2>13, <2>14 DEF PoolInv
<1>11. QED
  BY <1>9, <1>10

(* A client's service is available again; the pool may be made smaller, if  *)
(* a service has ended, which is only after SIGINT.                         *)
LEMMA CloseStep == ASSUME PoolInv, P!Close PROVE PoolInv'
<1>1. /\ P!Received("close") /\ bound' = bound
      /\ UNCHANGED <<flag, starts, current, cpc, sid, mid, attempts, pending, answer>>
      /\ UNCHANGED <<raw, given, astray, late>>
  BY DEF P!Close, P!clientVars, P!history
<1>2. PoolTypes /\ ServerState /\ ClientState /\ Protocol /\ Heard /\ Held /\ Quiet /\ Answered /\ Fits
  BY DEF PoolInv
<1>3. spc = "receive" /\ inbox # <<>> /\ Head(inbox).type = "close" /\ P!Up
  BY <1>1 DEF P!Received, P!Up
<1> DEFINE freely == [pool_state EXCEPT ![Head(inbox).sid] = "available"]
           shrink == size > POOL /\ \A i \in P!LastServices : freely[i] = "available"
<1>4. PICK d, states, last_ones :
          d = Head(inbox) /\ states = freely /\ last_ones = P!LastServices
  OBVIOUS
<1>5. CASE shrink /\ last_ones \cap ended = {}
  <2>1. P!Die /\ UNCHANGED <<size, pool_state>>
    BY <1>4, <1>5 DEF P!Close, P!poolVars
  <2>2. QED
    BY <1>1, <1>3, <2>1, DieStep
<1>6. CASE ~(shrink /\ last_ones \cap ended = {})
  <2>1. /\ pool_state' = IF shrink
                         THEN [i \in P!ServiceIds |-> IF i \in last_ones \cap ended THEN "error"
                                                      ELSE states[i]]
                         ELSE states
        /\ ended' = IF shrink THEN ended \cup last_ones ELSE ended
        /\ spc' = "loop" /\ inbox' = Tail(inbox)
        /\ UNCHANGED <<size, hand, queue, toService, fromService>>
    BY <1>4, <1>6 DEF P!Close, P!queueVars
  <2>2. /\ d = inbox[1] /\ 1 \in DOMAIN inbox /\ AsSent(d) /\ d.client \in PoolClients
        /\ inbox' \in Seq(Datagram) /\ Protocol'
        /\ \A k \in DOMAIN inbox' : \E m \in DOMAIN inbox : m # 1 /\ inbox'[k] = inbox[m]
        /\ \A c \in PoolClients : Holding(c)' /\ given'[c] = given[c] => Holding(c)
    BY <1>1, <1>2, <1>3, <1>4, <2>1, Receipt
  <2>3. d.type = "close" /\ d.sid \in P!ServiceIds
    BY <1>3, <1>4, <2>2 DEF AsSent
  <2>4. /\ pool_state \in [P!ServiceIds -> {"none", "available", "busy", "error"}]
        /\ states = [pool_state EXCEPT ![d.sid] = "available"]
        /\ states \in [P!ServiceIds -> {"none", "available", "busy", "error"}]
        /\ \A i \in P!ServiceIds : i # d.sid => states[i] = pool_state[i]
    BY <1>2, <1>4, <2>3 DEF PoolTypes
  <2>5. pool_state' \in [P!ServiceIds -> {"none", "available", "busy", "error"}]
    BY <2>1, <2>4
  <2>6. ended' \subseteq P!ServiceIds
    <3>1. CASE shrink
      <4>1. size = 2 * POOL
        BY <1>2, <3>1, Sizes
      <4>2. P!LastServices \subseteq P!ServiceIds
        BY <4>1, PoolConstants DEF P!LastServices
      <4>3. QED
        BY <1>2, <1>4, <2>1, <3>1, <4>2 DEF PoolTypes
    <3>2. CASE ~shrink
      BY <1>2, <2>1, <3>2 DEF PoolTypes
    <3>3. QED
      BY <3>1, <3>2
  <2>7. P!Texts' = P!Texts /\ P!Up'
    BY <1>1, <2>1, Kept DEF P!Up
  <2>8. PoolTypes'
    BY <1>1, <1>2, <2>1, <2>2, <2>5, <2>6, <2>7 DEF PoolTypes
  <2>9. ServerState'
    <3>1. queue /\ size # 0 /\ (ended # {} => flag)
      BY <1>2, <1>3 DEF ServerState
    <3>2. ended' # {} => ended # {}
      BY <1>6, <2>1
    <3>3. QED
      BY <1>1, <2>1, <2>7, <3>1, <3>2 DEF ServerState
  <2>10. Held'
    <3> SUFFICES ASSUME astray = {}
                 PROVE  /\ \A c, e \in PoolClients :
                              Holding(c)' /\ Holding(e)' /\ given[c] = given[e] => c = e
                        /\ \A c \in PoolClients : Holding(c)' =>
                              pool_state'[given[c]] = "busy" /\ given[c] < size
                        /\ queue
                        /\ \A c \in PoolClients : sid[c] # NotDefined => sid[c] = given[c]
                        /\ \A k \in DOMAIN inbox' : inbox'[k].type # "connect" =>
                              inbox'[k].sid = given[inbox'[k].client]
      BY <1>1, <2>1 DEF Held
    <3>1. queue
      BY <1>2, <1>3 DEF ServerState
    <3>2. /\ \A c, e \in PoolClients : Holding(c) /\ Holding(e) /\ given[c] = given[e] => c = e
          /\ \A c \in PoolClients : Holding(c) => pool_state[given[c]] = "busy" /\ given[c] < size
          /\ \A c \in PoolClients : sid[c] # NotDefined => sid[c] = given[c]
          /\ \A k \in DOMAIN inbox : inbox[k].type # "connect" => inbox[k].sid = given[inbox[k].client]
      BY <1>2, <1>3 DEF Held
    <3>3. \A c \in PoolClients : Holding(c)' => Holding(c)
      BY <1>1, <2>2
    <3>4. given[d.client] = d.sid /\ Holding(d.client)
      <4>1. given[d.client] = d.sid
        BY <2>2, <2>3, <3>2
      <4>2. QED
        BY <2>2, <2>3, <4>1, PoolConstants DEF Holding
    <3>5. ~Holding(d.client)'
      <4>1. cpc[d.client] = "closed"
        BY <1>2, <2>2, <2>3 DEF Protocol
      <4>2. ASSUME NEW k \in DOMAIN inbox', inbox'[k].type = "close", inbox'[k].client = d.client
            PROVE  FALSE
        <5>1. PICK m \in DOMAIN inbox : m # 1 /\ inbox'[k] = inbox[m]
          BY <2>2
        <5>2. QED
          BY <1>2, <2>2, <2>3, <4>2, <5>1 DEF Protocol
      <4>3. QED
        BY <1>1, <4>1, <4>2 DEF Holding
    <3>6. ASSUME NEW c \in PoolClients, Holding(c)'
          PROVE  pool_state'[given[c]] = "busy" /\ given[c] < size
      <4>1. Holding(c) /\ pool_state[given[c]] = "busy" /\ given[c] < size
        BY <3>2, <3>3, <3>6
      <4>2. given[c] \in P!ServiceIds
        BY <1>2, <4>1 DEF Holding, PoolTypes
      <4>3. given[c] # d.sid
        BY <2>2, <3>2, <3>4, <3>5, <3>6, <4>1
      <4>4. states[given[c]] = "busy"
        BY <2>4, <4>1, <4>2, <4>3
      <4>5. shrink => given[c] \notin last_ones
        BY <1>4, <4>4
      <4>6. QED
        BY <2>1, <4>1, <4>2, <4>4, <4>5
    <3>7. ASSUME NEW k \in DOMAIN inbox', inbox'[k].type # "connect"
          PROVE  inbox'[k].sid = given[inbox'[k].client]
      BY <2>2, <3>2, <3>7
    <3>8. QED
      BY <3>1, <3>2, <3>3, <3>6, <3>7
  <2>11. Quiet'
    BY <1>1, <1>2, <1>3, <2>1 DEF Quiet
  <2>12. ClientState' /\ Heard' /\ Answered' /\ Fits'
    BY <1>1, <1>2, <2>1, Kept
  <2>13. QED
    BY <2>2, <2>8, <2>9, <2>10, <2>11, <2>12 DEF PoolInv
<1>7. QED
  BY <1>5, <1>6

(* A service takes a text, answers, or ends.                                *)
LEMMA ServiceStep ==
    ASSUME PoolInv, NEW i \in P!ServiceIds, P!Running(i), bound' = bound,
           UNCHANGED <<queue, size, pool_state, spc, flag, starts, current>>,
           UNCHANGED <<cpc, sid, mid, attempts, pending, answer>>,
           UNCHANGED <<inbox, raw, given, astray, late>>,
           toService' \in [P!ServiceIds -> Seq(P!Texts)],
           fromService' \in [P!ServiceIds -> Seq(P!Texts)],
           hand' \in [P!ServiceIds -> P!Texts \cup {Nothing}],
           ended' \subseteq P!ServiceIds, ended' # {} => flag \/ ended # {},
           Quiet', Fits'
    PROVE  PoolInv'
<1>1. PoolTypes /\ ServerState /\ ClientState /\ Protocol /\ Heard /\ Held /\ Quiet /\ Answered /\ Fits
  BY DEF PoolInv
<1>2. P!Texts' = P!Texts /\ P!Up
  BY Kept DEF P!Running
<1>3. PoolTypes'
  BY <1>1, <1>2 DEF PoolTypes
<1>4. ServerState'
  <2>1. queue
    BY <1>1, <1>2 DEF ServerState, P!Up
  <2>2. QED
    BY <1>1, <1>2, <2>1 DEF ServerState, P!Up
<1>5. ClientState' /\ Protocol' /\ Heard' /\ Answered'
  BY <1>1, Kept
<1>6. Held'
  <2>1. \A c \in PoolClients : Holding(c)' => Holding(c)
    BY Kept
  <2>2. P!Up' => P!Up
    BY <1>2
  <2>3. spc' = "await" => (astray = {} => pool_state[current'.sid] = "busy")
    BY <1>1 DEF Held
  <2>4. QED
    BY <1>1, <2>1, <2>2, <2>3, HeldStays
<1>7. QED
  BY <1>3, <1>4, <1>5, <1>6 DEF PoolInv

LEMMA TakeStep == ASSUME PoolInv, NEW i \in P!ServiceIds, P!Take(i) PROVE PoolInv'
<1>1. /\ P!Running(i) /\ hand[i] = Nothing /\ toService[i] # <<>> /\ bound' = bound
      /\ hand' = [hand EXCEPT ![i] = Head(toService[i])]
      /\ toService' = [toService EXCEPT ![i] = Tail(@)]
      /\ UNCHANGED <<ended, queue, fromService, size, pool_state, spc, flag, starts, current>>
      /\ UNCHANGED <<cpc, sid, mid, attempts, pending, answer, inbox, raw, given, astray, late>>
  BY DEF P!Take, P!poolVars, P!serverVars, P!clientVars, P!netVars, P!history
<1>2. PoolTypes /\ Quiet /\ Fits
  BY DEF PoolInv
<1>3. /\ toService \in [P!ServiceIds -> Seq(P!Texts)] /\ fromService \in [P!ServiceIds -> Seq(P!Texts)]
      /\ hand \in [P!ServiceIds -> P!Texts \cup {Nothing}] /\ toService[i] \in Seq(P!Texts)
      /\ ended' \subseteq P!ServiceIds
  BY <1>1, <1>2 DEF PoolTypes
<1>4. PICK text, rest : text = Head(toService[i]) /\ rest = Tail(toService[i])
  OBVIOUS
<1>5. text \in P!Texts /\ rest \in Seq(P!Texts) /\ Len(rest) <= Len(toService[i])
  BY <1>1, <1>3, <1>4
<1>6. hand' = [hand EXCEPT ![i] = text] /\ toService' = [toService EXCEPT ![i] = rest]
  BY <1>1, <1>4
<1>7. /\ toService' \in [P!ServiceIds -> Seq(P!Texts)] /\ hand' \in [P!ServiceIds -> P!Texts \cup {Nothing}]
      /\ toService'[i] = rest /\ hand'[i] = text
      /\ \A k \in P!ServiceIds : k # i => toService'[k] = toService[k] /\ hand'[k] = hand[k]
  BY <1>3, <1>5, <1>6
<1>8. Quiet'
  <2>1. ASSUME late = {}
        PROVE  /\ spc = "await" /\ i = current.sid /\ text = current.text /\ rest = <<>>
               /\ fromService[i] = <<>>
    <3>1. /\ spc = "await" /\ i = current.sid /\ toService[i] = <<current.text>>
          /\ fromService[i] = <<>>
      BY <1>1, <1>2, <2>1 DEF Quiet, P!Running
    <3>2. QED
      BY <1>4, <3>1, OneText
  <2>2. QED
    BY <1>1, <1>2, <1>7, <2>1 DEF Quiet, P!Up
<1>9. Fits'
  <2>1. /\ Room(toService) \in Nat /\ Room(toService') \in Nat /\ Room(toService') <= Room(toService)
        /\ Room(fromService) \in Nat
    BY <1>3, <1>5, <1>6, RoomTaken
  <2>2. Room(toService') + Room(fromService) <= QueueCapacity
    BY <1>2, <2>1, PoolConstants DEF Fits
  <2>3. QED
    BY <1>1, <2>2 DEF Fits
<1>10. QED
  BY <1>1, <1>3, <1>7, <1>8, <1>9, ServiceStep

LEMMA PutStep == ASSUME PoolInv, NEW i \in P!ServiceIds, P!Put(i) PROVE PoolInv'
<1>1. /\ P!Running(i) /\ hand[i] # Nothing /\ bound' = bound
      /\ fromService' = IF P!QueueLength < QueueCapacity
                        THEN [fromService EXCEPT ![i] = Append(@, hand[i])] ELSE fromService
      /\ hand' = [hand EXCEPT ![i] = Nothing]
      /\ UNCHANGED <<ended, queue, toService, size, pool_state, spc, flag, starts, current>>
      /\ UNCHANGED <<cpc, sid, mid, attempts, pending, answer, inbox, raw, given, astray, late>>
  BY DEF P!Put, P!poolVars, P!serverVars, P!clientVars, P!netVars, P!history
<1>2. PoolTypes /\ Quiet /\ Fits
  BY DEF PoolInv
<1>3. /\ toService \in [P!ServiceIds -> Seq(P!Texts)] /\ fromService \in [P!ServiceIds -> Seq(P!Texts)]
      /\ hand \in [P!ServiceIds -> P!Texts \cup {Nothing}] /\ fromService[i] \in Seq(P!Texts)
      /\ hand[i] \in P!Texts /\ ended' \subseteq P!ServiceIds
  BY <1>1, <1>2 DEF PoolTypes
<1>4. PICK more : more = Append(fromService[i], hand[i])
  OBVIOUS
<1>5. more \in Seq(P!Texts) /\ Len(more) = Len(fromService[i]) + 1
  BY <1>3, <1>4
<1>6. /\ fromService' \in [P!ServiceIds -> Seq(P!Texts)] /\ hand' \in [P!ServiceIds -> P!Texts \cup {Nothing}]
      /\ fromService'[i] = IF P!QueueLength < QueueCapacity THEN more ELSE fromService[i]
      /\ hand'[i] = Nothing
      /\ \A k \in P!ServiceIds : k # i => fromService'[k] = fromService[k] /\ hand'[k] = hand[k]
  BY <1>1, <1>3, <1>4, <1>5
<1>7. Quiet'
  <2>1. ASSUME late = {}
        PROVE  /\ spc = "await" /\ i = current.sid /\ toService[i] = <<>>
               /\ fromService'[i] \in {<<>>, <<current.text>>}
    <3>1. /\ spc = "await" /\ i = current.sid /\ toService[i] = <<>> /\ hand[i] = current.text
          /\ fromService[i] = <<>>
      BY <1>1, <1>2, <2>1 DEF Quiet, P!Running
    <3>2. more = <<current.text>>
      BY <1>4, <3>1, OneText
    <3>3. QED
      BY <1>6, <3>1, <3>2
  <2>2. QED
    BY <1>1, <1>2, <1>6, <2>1 DEF Quiet, P!Up
<1>8. Fits'
  <2>1. CASE P!QueueLength < QueueCapacity
    <3>1. fromService' = [fromService EXCEPT ![i] = more]
      BY <1>1, <1>4, <2>1
    <3>2. /\ Room(fromService) \in Nat /\ Room(fromService') \in Nat
          /\ Room(fromService') <= Room(fromService) + 1 /\ Room(toService) \in Nat
      BY <1>3, <1>5, <3>1, RoomTaken
    <3>3. Room(toService) + Room(fromService) < QueueCapacity
      BY <2>1, QueueRoom
    <3>4. Room(toService) + Room(fromService') <= QueueCapacity
      BY <3>2, <3>3, PoolConstants
    <3>5. QED
      BY <1>1, <3>4 DEF Fits
  <2>2. CASE ~(P!QueueLength < QueueCapacity)
    BY <1>1, <1>2, <2>2, Kept
  <2>3. QED
    BY <2>1, <2>2
<1>9. QED
  BY <1>1, <1>3, <1>6, <1>7, <1>8, ServiceStep

LEMMA EndServiceStep == ASSUME PoolInv, NEW i \in P!ServiceIds, P!EndService(i) PROVE PoolInv'
<1>1. /\ P!Running(i) /\ flag /\ ended' = ended \cup {i} /\ bound' = bound
      /\ UNCHANGED <<hand, queue, toService, fromService, size, pool_state, spc, flag, starts, current>>
      /\ UNCHANGED <<cpc, sid, mid, attempts, pending, answer, inbox, raw, given, astray, late>>
  BY DEF P!EndService, P!queueVars, P!poolVars, P!serverVars, P!clientVars, P!netVars, P!history
<1>2. PoolTypes /\ Quiet /\ Fits
  BY DEF PoolInv
<1>3. /\ toService' \in [P!ServiceIds -> Seq(P!Texts)] /\ fromService' \in [P!ServiceIds -> Seq(P!Texts)]
      /\ hand' \in [P!ServiceIds -> P!Texts \cup {Nothing}] /\ ended' \subseteq P!ServiceIds
  BY <1>1, <1>2 DEF PoolTypes
<1>4. Quiet'
  BY <1>1, <1>2 DEF Quiet, P!Up
<1>5. Fits'
  BY <1>1, <1>2, Kept
<1>6. QED
  BY <1>1, <1>3, <1>4, <1>5, ServiceStep

(* A datagram put at the end of the server's socket.                        *)
LEMMA Posted ==
    ASSUME NEW d \in Datagram, inbox \in Seq(Datagram), inbox' = Append(inbox, d)
    PROVE  /\ inbox' \in Seq(Datagram)
           /\ \A i \in DOMAIN inbox : i \in DOMAIN inbox' /\ inbox'[i] = inbox[i] /\ i < Len(inbox) + 1
           /\ Len(inbox) + 1 \in DOMAIN inbox' /\ inbox'[Len(inbox) + 1] = d
           /\ \A i \in DOMAIN inbox' : i # Len(inbox) + 1 => i \in DOMAIN inbox
<1>1. PICK before, after : before = inbox /\ after = Append(before, d) /\ before \in Seq(Datagram)
  OBVIOUS
<1>2. /\ after \in Seq(Datagram)
      /\ \A i \in DOMAIN before : i \in DOMAIN after /\ after[i] = before[i] /\ i < Len(before) + 1
      /\ Len(before) + 1 \in DOMAIN after /\ after[Len(before) + 1] = d
      /\ \A i \in DOMAIN after : i # Len(before) + 1 => i \in DOMAIN before
  BY <1>1, Added
<1>3. inbox = before /\ inbox' = after
  BY <1>1
<1>4. QED
  BY <1>2, <1>3

(* A request that has a message number has the id of a service too.         *)
LEMMA SentMid == ASSUME NEW d, AsSent(d) PROVE d.mid > 0 => d.sid \in P!ServiceIds
<1>1. ASSUME d.mid = 0 PROVE ~(d.mid > 0)
  BY <1>1
<1>2. QED
  BY <1>1 DEF AsSent

(* A client sends a request.                                                *)
LEMMA SendStep ==
    ASSUME PoolInv, NEW c \in PoolClients, NEW d, AsSent(d), d.client = c, d.text \in P!Texts,
           d.mid = mid[c],
           NEW next, P!Send(c, d, next), bound' = bound,
           \/ next = "connecting" /\ d.type = "connect" /\ cpc[c] = "connect"
           \/ /\ next = "asking" /\ d.type = "data" /\ d.sid = sid[c] /\ cpc[c] = "prompt"
              /\ mid[c] < bound.lines
           \/ next = "closed" /\ d.type = "close" /\ d.sid = sid[c] /\ cpc[c] \in {"prompt", "give up"},
           UNCHANGED <<hand, ended, queue, toService, fromService, size, pool_state>>,
           UNCHANGED <<spc, flag, starts, current, sid, mid, given, astray, late>>
    PROVE  PoolInv'
<1>1. PoolTypes /\ ServerState /\ ClientState /\ Protocol /\ Heard /\ Held /\ Quiet /\ Answered /\ Fits
  BY DEF PoolInv
<1>2. d \in Datagram /\ d.kind = "request"
  BY DEF AsSent
<1>3. /\ cpc \in [PoolClients -> {"connect", "connecting", "prompt", "asking", "give up",
                                   "failed", "closed"}]
      /\ attempts \in [PoolClients -> 0..ATTEMPTS] /\ inbox \in Seq(Datagram)
      /\ pending \in [PoolClients -> Datagram \cup {Nothing}]
      /\ answer \in [PoolClients -> Datagram \cup {Nothing}]
  BY <1>1 DEF PoolTypes
<1>4. /\ pending' = [pending EXCEPT ![c] = d] /\ answer' = [answer EXCEPT ![c] = Nothing]
      /\ attempts' = [attempts EXCEPT ![c] = ATTEMPTS] /\ cpc' = [cpc EXCEPT ![c] = next]
      /\ inbox' = IF P!Up THEN Append(inbox, d) ELSE inbox
  BY DEF P!Send, P!ToServer
<1>5. next \in {"connecting", "asking", "closed"} /\ ATTEMPTS \in 0..ATTEMPTS /\ ATTEMPTS > 0
  <2>1. next \in {"connecting", "asking", "closed"}
    OBVIOUS
  <2>2. QED
    BY <2>1, AllAttempts
<1>6. /\ pending' \in [PoolClients -> Datagram \cup {Nothing}] /\ pending'[c] = d
      /\ answer' \in [PoolClients -> Datagram \cup {Nothing}] /\ answer'[c] = Nothing
      /\ attempts' \in [PoolClients -> 0..ATTEMPTS] /\ attempts'[c] = ATTEMPTS /\ ATTEMPTS > 0
      /\ cpc' \in [PoolClients -> {"connect", "connecting", "prompt", "asking", "give up",
                                    "failed", "closed"}]
      /\ cpc'[c] = next
      /\ \A e \in PoolClients : e # c =>
            /\ pending'[e] = pending[e] /\ answer'[e] = answer[e] /\ attempts'[e] = attempts[e]
            /\ cpc'[e] = cpc[e]
  <2>1. /\ pending' \in [PoolClients -> Datagram \cup {Nothing}] /\ pending'[c] = d
        /\ \A e \in PoolClients : e # c => pending'[e] = pending[e]
    BY <1>2, <1>3, <1>4
  <2>2. /\ answer' \in [PoolClients -> Datagram \cup {Nothing}] /\ answer'[c] = Nothing
        /\ \A e \in PoolClients : e # c => answer'[e] = answer[e]
    BY <1>3, <1>4
  <2>3. /\ attempts' \in [PoolClients -> 0..ATTEMPTS] /\ attempts'[c] = ATTEMPTS
        /\ \A e \in PoolClients : e # c => attempts'[e] = attempts[e]
    BY <1>3, <1>4, <1>5
  <2>4. /\ cpc' \in [PoolClients -> {"connect", "connecting", "prompt", "asking", "give up",
                                      "failed", "closed"}]
        /\ cpc'[c] = next /\ \A e \in PoolClients : e # c => cpc'[e] = cpc[e]
    BY <1>3, <1>4, <1>5
  <2>5. QED
    BY <1>5, <2>1, <2>2, <2>3, <2>4
<1>7. /\ raw' \in [PoolClients -> Seq(Datagram)]
      /\ \A e \in PoolClients : \A x \in Elems(raw'[e]) : x = d \/ x \in Elems(raw[e])
  <2>1. PICK receivers : P!Copied(d, receivers)
    BY DEF P!Send
  <2>2. QED
    BY <1>1, <1>2, <2>1, RawGrows
<1>8. /\ inbox' \in Seq(Datagram)
      /\ \A i \in DOMAIN inbox : i \in Nat /\ i \in DOMAIN inbox' /\ inbox'[i] = inbox[i]
      /\ \A i \in DOMAIN inbox' : \/ i \in DOMAIN inbox
                                  \/ /\ P!Up /\ i = Len(inbox) + 1 /\ inbox'[i] = d
                                     /\ \A k \in DOMAIN inbox : k < i
      /\ P!Up => Len(inbox) + 1 \in DOMAIN inbox' /\ inbox'[Len(inbox) + 1] = d
      /\ ~P!Up => \A i : i \notin DOMAIN inbox'
      /\ Len(inbox) \in Nat
  <2>1. Len(inbox) \in Nat /\ \A i \in DOMAIN inbox : i \in Nat
    BY <1>1, InboxPlaces
  <2>2. CASE P!Up
    <3>1. inbox' = Append(inbox, d) /\ inbox \in Seq(Datagram) /\ d \in Datagram
      BY <1>2, <1>3, <1>4, <2>2
    <3>2. /\ inbox' \in Seq(Datagram)
          /\ \A i \in DOMAIN inbox : i \in DOMAIN inbox' /\ inbox'[i] = inbox[i] /\ i < Len(inbox) + 1
          /\ Len(inbox) + 1 \in DOMAIN inbox' /\ inbox'[Len(inbox) + 1] = d
          /\ \A i \in DOMAIN inbox' : i # Len(inbox) + 1 => i \in DOMAIN inbox
      BY <3>1, Posted
    <3>3. QED
      BY <2>1, <2>2, <3>2
  <2>3. CASE ~P!Up
    <3>1. inbox' = <<>> /\ inbox = <<>>
      BY <1>1, <1>4, <2>3 DEF ServerState
    <3>2. QED
      BY <1>3, <2>1, <2>3, <3>1, NothingIn
  <2>4. QED
    BY <2>2, <2>3
<1>9. P!Texts' = P!Texts /\ (P!Up' <=> P!Up)
  BY Kept DEF P!Up
<1>10. PoolTypes'
  BY <1>1, <1>6, <1>7, <1>8, <1>9 DEF PoolTypes
<1>11. ServerState'
  BY <1>1, <1>4, <1>9 DEF ServerState
<1>12. ClientState'
  <2>1. ASSUME NEW e \in PoolClients
        PROVE  /\ cpc'[e] \in {"connect", "connecting", "failed"} => sid[e] = NotDefined /\ mid[e] = 0
               /\ cpc'[e] \notin {"connect", "connecting", "failed"} => sid[e] \in P!ServiceIds
               /\ cpc'[e] = "connect" => given[e] = NotDefined
               /\ cpc'[e] \in {"connecting", "asking"} => attempts'[e] > 0 /\ pending'[e].mid = mid[e]
               /\ cpc'[e] = "connecting" => pending'[e].type = "connect" /\ pending'[e].text = <<e, 0>>
               /\ cpc'[e] = "asking" =>
                    /\ pending'[e].type = "data" /\ pending'[e].text = <<e, mid[e] + 1>>
                    /\ mid[e] < bound.lines
    <3>1. CASE e = c
      <4>1. cpc'[e] = next /\ attempts'[e] > 0 /\ pending'[e] = d
        BY <1>6, <3>1
      <4>2. /\ cpc[e] = "connect" => sid[e] = NotDefined /\ mid[e] = 0
            /\ cpc[e] \in {"prompt", "give up"} => sid[e] \in P!ServiceIds
        BY <1>1 DEF ClientState
      <4>3. d.type = "connect" => d.mid = 0 /\ d.text = <<d.client, 0>>
        BY DEF AsSent
      <4>4. d.type = "data" => d.text = <<d.client, d.mid + 1>>
        BY DEF AsSent
      <4>5. CASE next = "connecting"
        BY <3>1, <4>1, <4>2, <4>3, <4>5
      <4>6. CASE next = "asking"
        BY <3>1, <4>1, <4>2, <4>4, <4>6
      <4>7. CASE next = "closed"
        BY <3>1, <4>1, <4>2, <4>7
      <4>8. QED
        BY <1>5, <4>5, <4>6, <4>7
    <3>2. CASE e # c
      <4>1. cpc'[e] = cpc[e] /\ attempts'[e] = attempts[e] /\ pending'[e] = pending[e]
        BY <1>6, <3>2
      <4>2. /\ cpc[e] \in {"connect", "connecting", "failed"} => sid[e] = NotDefined /\ mid[e] = 0
            /\ cpc[e] \notin {"connect", "connecting", "failed"} => sid[e] \in P!ServiceIds
            /\ cpc[e] = "connect" => given[e] = NotDefined
            /\ cpc[e] \in {"connecting", "asking"} => attempts[e] > 0 /\ pending[e].mid = mid[e]
            /\ cpc[e] = "connecting" => pending[e].type = "connect" /\ pending[e].text = <<e, 0>>
            /\ cpc[e] = "asking" =>
                 /\ pending[e].type = "data" /\ pending[e].text = <<e, mid[e] + 1>>
                 /\ mid[e] < bound.lines
        BY <1>1 DEF ClientState
      <4>3. QED
        BY <4>1, <4>2
    <3>3. QED
      BY <3>1, <3>2
  <2>2. QED
    BY <2>1 DEF ClientState
<1>13. \A i \in DOMAIN inbox : inbox[i].client \in PoolClients /\ inbox[i].type \in {"connect", "data", "close"}
  BY <1>1 DEF Protocol, AsSent, Datagram
<1>14. ASSUME NEW i \in DOMAIN inbox, inbox[i].client = c
       PROVE  cpc[c] \in {"prompt", "give up"} /\ next \in {"asking", "closed"} /\ inbox[i].type # "close"
  BY <1>1, <1>14 DEF Protocol
<1>15. Protocol'
  <2>1. ASSUME NEW i \in DOMAIN inbox'
        PROVE  /\ AsSent(inbox'[i]) /\ inbox'[i].text \in P!Texts
               /\ cpc'[inbox'[i].client] # "connect"
               /\ inbox'[i].type # "connect" => cpc'[inbox'[i].client] \notin {"connecting", "failed"}
               /\ inbox'[i].type = "connect" => given[inbox'[i].client] = NotDefined
               /\ inbox'[i].type = "close" => cpc'[inbox'[i].client] = "closed"
               /\ inbox'[i].type = "data" /\ cpc'[inbox'[i].client] = "closed" =>
                    \E k \in DOMAIN inbox' :
                        k > i /\ inbox'[k].type = "close" /\ inbox'[k].client = inbox'[i].client
    <3>1. CASE i \in DOMAIN inbox
      <4>1. PICK e, x : x = inbox[i] /\ e = x.client /\ inbox'[i] = x
        BY <1>8, <3>1
      <4>2. /\ AsSent(x) /\ x.text \in P!Texts /\ e \in PoolClients /\ cpc[e] # "connect"
            /\ x.type # "connect" => cpc[e] \notin {"connecting", "failed"}
            /\ x.type = "connect" => given[e] = NotDefined
            /\ x.type = "close" => cpc[e] = "closed"
            /\ x.type = "data" /\ cpc[e] = "closed" =>
                 \E k \in DOMAIN inbox : k > i /\ inbox[k].type = "close" /\ inbox[k].client = e
        <5>1. /\ AsSent(inbox[i]) /\ inbox[i].text \in P!Texts /\ inbox[i].client \in PoolClients
              /\ cpc[inbox[i].client] # "connect"
              /\ inbox[i].type # "connect" => cpc[inbox[i].client] \notin {"connecting", "failed"}
              /\ inbox[i].type = "connect" => given[inbox[i].client] = NotDefined
              /\ inbox[i].type = "close" => cpc[inbox[i].client] = "closed"
              /\ inbox[i].type = "data" /\ cpc[inbox[i].client] = "closed" =>
                   \E k \in DOMAIN inbox :
                       k > i /\ inbox[k].type = "close" /\ inbox[k].client = inbox[i].client
          BY <1>1, <1>13, <3>1 DEF Protocol
        <5>2. QED
          BY <4>1, <5>1
      <4>3. CASE e = c
        <5>1. next \in {"asking", "closed"} /\ x.type # "close"
          BY <1>14, <3>1, <4>1, <4>3
        <5>2. ASSUME x.type = "data", next = "closed"
              PROVE  \E k \in DOMAIN inbox' : k > i /\ inbox'[k].type = "close" /\ inbox'[k].client = c
          <6>1. P!Up
            BY <1>8
          <6>2. Len(inbox) + 1 \in DOMAIN inbox' /\ inbox'[Len(inbox) + 1] = d
            BY <1>8, <6>1
          <6>3. Len(inbox) + 1 > i
            BY <1>1, <3>1, InboxPlaces
          <6>4. d.type = "close"
            BY <5>2
          <6>5. QED
            BY <6>2, <6>3, <6>4
        <5>3. cpc'[c] = next
          BY <1>6
        <5>4. next \notin {"connect", "connecting", "failed"}
          BY <5>1
        <5>5. QED
          BY <4>1, <4>2, <4>3, <5>1, <5>2, <5>3, <5>4
      <4>4. CASE e # c
        <5>1. cpc'[e] = cpc[e]
          BY <1>6, <4>2, <4>4
        <5>2. x.type = "data" /\ cpc[e] = "closed" =>
                \E k \in DOMAIN inbox' : k > i /\ inbox'[k].type = "close" /\ inbox'[k].client = e
          BY <1>8, <4>2
        <5>3. QED
          BY <4>1, <4>2, <5>1, <5>2
      <4>5. QED
        BY <4>3, <4>4
    <3>2. CASE i \notin DOMAIN inbox
      <4>1. inbox'[i] = d
        BY <1>8, <2>1, <3>2
      <4>2. d.type = "connect" => given[c] = NotDefined
        BY <1>1 DEF ClientState
      <4>3. QED
        BY <1>6, <4>1, <4>2
    <3>3. QED
      BY <3>1, <3>2
  <2>2. ASSUME NEW i \in DOMAIN inbox', NEW k \in DOMAIN inbox,
               inbox'[i].type = inbox[k].type, inbox'[i].client = inbox[k].client,
               i \notin DOMAIN inbox
        PROVE  inbox'[i].type = "data"
    <3>1. inbox'[i] = d
      BY <1>8, <2>2
    <3>2. cpc[c] \in {"prompt", "give up"} /\ next \in {"asking", "closed"} /\ inbox[k].type # "close"
      BY <1>14, <2>2, <3>1
    <3>3. QED
      BY <2>2, <3>1, <3>2
  <2>3. ASSUME NEW i \in DOMAIN inbox', NEW k \in DOMAIN inbox',
               inbox'[i].type = inbox'[k].type, inbox'[i].client = inbox'[k].client
        PROVE  i = k \/ inbox'[i].type = "data"
    <3>1. CASE i \in DOMAIN inbox /\ k \in DOMAIN inbox
      <4>1. inbox[i].type = inbox[k].type /\ inbox[i].client = inbox[k].client
              => i = k \/ inbox[i].type = "data"
        BY <1>1, <3>1 DEF Protocol
      <4>2. inbox'[i] = inbox[i] /\ inbox'[k] = inbox[k]
        BY <1>8, <3>1
      <4>3. QED
        BY <2>3, <4>1, <4>2
    <3>2. CASE i \notin DOMAIN inbox /\ k \in DOMAIN inbox
      BY <1>8, <2>2, <2>3, <3>2
    <3>3. CASE i \in DOMAIN inbox /\ k \notin DOMAIN inbox
      BY <1>8, <2>2, <2>3, <3>3
    <3>4. CASE i \notin DOMAIN inbox /\ k \notin DOMAIN inbox
      BY <1>8, <2>3, <3>4
    <3>5. QED
      BY <3>1, <3>2, <3>3, <3>4
  <2>4. given' = given /\ P!Texts' = P!Texts
    BY <1>9
  <2>5. \A i \in DOMAIN inbox' :
            /\ AsSent(inbox'[i]) /\ inbox'[i].text \in P!Texts'
            /\ cpc'[inbox'[i].client] # "connect"
            /\ inbox'[i].type # "connect" => cpc'[inbox'[i].client] \notin {"connecting", "failed"}
            /\ inbox'[i].type = "connect" => given'[inbox'[i].client] = NotDefined
            /\ inbox'[i].type = "close" => cpc'[inbox'[i].client] = "closed"
            /\ inbox'[i].type = "data" /\ cpc'[inbox'[i].client] = "closed" =>
                 \E k \in DOMAIN inbox' :
                     k > i /\ inbox'[k].type = "close" /\ inbox'[k].client = inbox'[i].client
    BY <2>1, <2>4
  <2>6. \A i, k \in DOMAIN inbox' :
            inbox'[i].type = inbox'[k].type /\ inbox'[i].client = inbox'[k].client
                => i = k \/ inbox'[i].type = "data"
    BY <2>3
  <2>7. QED
    BY <2>5, <2>6 DEF Protocol
<1>16. Heard'
  <2>1. d.mid > 0 => d.sid \in P!ServiceIds
    BY SentMid
  <2>2. ASSUME NEW e \in PoolClients, NEW x \in Elems(raw'[e])
        PROVE  /\ x.mid > 0 \/ x.kind = "reply" => x.sid \in P!ServiceIds
               /\ x.kind = "reply" /\ x.type = "connect" =>
                    x.sid = given[x.client] /\ x.text = <<x.client, 0>>
               /\ x.kind = "reply" /\ x.type = "data" /\ late = {} => x.text = <<x.client, x.mid>>
    <3>1. CASE x = d
      BY <1>2, <2>1, <3>1
    <3>2. CASE x \in Elems(raw[e])
      BY <1>1, <3>2 DEF Heard
    <3>3. QED
      BY <1>7, <2>2, <3>1, <3>2
  <2>3. QED
    BY <2>2 DEF Heard
<1>17. Held'
  <2> SUFFICES ASSUME astray = {}
               PROVE  /\ \A e, f \in PoolClients :
                            Holding(e)' /\ Holding(f)' /\ given[e] = given[f] => e = f
                      /\ P!Up => \A e \in PoolClients : Holding(e)' =>
                            pool_state[given[e]] = "busy" /\ given[e] < size
                      /\ ~queue => \A e \in PoolClients : ~Holding(e)'
                      /\ \A e \in PoolClients : sid[e] # NotDefined => sid[e] = given[e]
                      /\ \A i \in DOMAIN inbox' : inbox'[i].type # "connect" =>
                            inbox'[i].sid = given[inbox'[i].client]
                      /\ spc = "await" => pool_state[current.sid] = "busy"
    BY <1>9 DEF Held
  <2>1. /\ \A e, f \in PoolClients : Holding(e) /\ Holding(f) /\ given[e] = given[f] => e = f
        /\ P!Up => \A e \in PoolClients : Holding(e) =>
              pool_state[given[e]] = "busy" /\ given[e] < size
        /\ ~queue => \A e \in PoolClients : ~Holding(e)
        /\ \A e \in PoolClients : sid[e] # NotDefined => sid[e] = given[e]
        /\ \A i \in DOMAIN inbox : inbox[i].type # "connect" => inbox[i].sid = given[inbox[i].client]
        /\ spc = "await" => pool_state[current.sid] = "busy"
    BY <1>1 DEF Held
  <2>2. ASSUME NEW e \in PoolClients, Holding(e)' PROVE Holding(e)
    <3>1. given[e] # NotDefined
      BY <2>2 DEF Holding
    <3>2. CASE e = c
      <4>1. cpc[c] # "connect"
        BY <1>1, <3>1, <3>2 DEF ClientState
      <4>2. cpc[c] \in {"prompt", "give up"}
        BY <4>1
      <4>3. QED
        BY <3>1, <3>2, <4>2 DEF Holding
    <3>3. CASE e # c
      <4>1. cpc'[e] = cpc[e]
        BY <1>6, <3>3
      <4>2. ASSUME NEW i \in DOMAIN inbox', inbox'[i].type = "close", inbox'[i].client = e
            PROVE  \E k \in DOMAIN inbox : inbox[k].type = "close" /\ inbox[k].client = e
        <5>1. i \in DOMAIN inbox
          BY <1>8, <3>3, <4>2
        <5>2. QED
          BY <1>8, <4>2, <5>1
      <4>3. QED
        BY <2>2, <3>1, <4>1, <4>2 DEF Holding
    <3>4. QED
      BY <3>2, <3>3
  <2>3. ASSUME NEW i \in DOMAIN inbox', inbox'[i].type # "connect"
        PROVE  inbox'[i].sid = given[inbox'[i].client]
    <3>1. CASE i \in DOMAIN inbox
      BY <1>8, <2>1, <2>3, <3>1
    <3>2. CASE i \notin DOMAIN inbox
      <4>1. inbox'[i] = d
        BY <1>8, <2>3, <3>2
      <4>2. d.sid = sid[c] /\ d.sid \in P!ServiceIds
        BY <2>3, <4>1 DEF AsSent
      <4>3. QED
        BY <2>1, <4>1, <4>2, PoolConstants
    <3>3. QED
      BY <3>1, <3>2
  <2>4. QED
    BY <2>1, <2>2, <2>3
<1>18. Quiet'
  BY <1>1, <1>9 DEF Quiet
<1>19. Answered'
  <2>1. ASSUME astray = {}, late = {}, NEW e \in PoolClients,
               cpc'[e] \in {"prompt", "asking", "give up"}, answer'[e] # Nothing
        PROVE  answer'[e].text = pending'[e].text
    <3>1. e # c
      BY <1>6, <2>1
    <3>2. QED
      BY <1>1, <1>6, <2>1, <3>1 DEF Answered, P!Connected
  <2>2. QED
    BY <2>1 DEF Answered, P!Connected
<1>20. Fits'
  BY <1>1, Kept
<1>21. QED
  BY <1>10, <1>11, <1>12, <1>15, <1>16, <1>17, <1>18, <1>19, <1>20 DEF PoolInv

LEMMA HelloStep == ASSUME PoolInv, NEW c \in PoolClients, P!Hello(c) PROVE PoolInv'
<1>1. PICK d : d = P!Request(c, "connect", 0)
  OBVIOUS
<1>2. /\ cpc[c] = "connect" /\ P!Send(c, d, "connecting") /\ bound' = bound
      /\ UNCHANGED <<hand, ended, queue, toService, fromService, size, pool_state>>
      /\ UNCHANGED <<spc, flag, starts, current, sid, mid, given, astray, late>>
  BY <1>1 DEF P!Hello, P!Send, P!threadVars, P!queueVars, P!poolVars, P!serverVars, P!history
<1>3. PoolTypes /\ ClientState
  BY DEF PoolInv
<1>4. sid[c] = NotDefined /\ mid[c] = 0
  BY <1>2, <1>3 DEF ClientState
<1>5. d = [kind |-> "request", type |-> "connect", sid |-> NotDefined, mid |-> 0,
           client |-> c, text |-> <<c, 0>>]
  BY <1>1, <1>4 DEF P!Request
<1>6. AsSent(d) /\ d.client = c /\ d.text \in P!Texts /\ d.mid = mid[c] /\ d.type = "connect"
  BY <1>3, <1>4, <1>5, RunBounds DEF AsSent, Datagram
<1>7. QED
  BY <1>2, <1>6, SendStep

LEMMA TypeStep == ASSUME PoolInv, NEW c \in PoolClients, P!Type(c) PROVE PoolInv'
<1>1. PICK d : d = P!Request(c, "data", mid[c] + 1)
  OBVIOUS
<1>2. /\ cpc[c] = "prompt" /\ mid[c] < bound.lines /\ P!Send(c, d, "asking") /\ bound' = bound
      /\ UNCHANGED <<hand, ended, queue, toService, fromService, size, pool_state>>
      /\ UNCHANGED <<spc, flag, starts, current, sid, mid, given, astray, late>>
  BY <1>1 DEF P!Type, P!Send, P!threadVars, P!queueVars, P!poolVars, P!serverVars, P!history
<1>3. PoolTypes /\ ClientState
  BY DEF PoolInv
<1>4. sid[c] \in P!ServiceIds /\ mid[c] \in 0..bound.lines /\ bound.lines \in Nat
  BY <1>2, <1>3, RunBounds DEF ClientState, PoolTypes
<1>5. d = [kind |-> "request", type |-> "data", sid |-> sid[c], mid |-> mid[c],
           client |-> c, text |-> <<c, mid[c] + 1>>]
  BY <1>1 DEF P!Request
<1>6. mid[c] + 1 \in 0..bound.lines /\ mid[c] \in Nat /\ mid[c] + 1 \in Nat
  BY <1>2, <1>4
<1>7. AsSent(d) /\ d.client = c /\ d.mid = mid[c] /\ d.type = "data" /\ d.sid = sid[c]
  BY <1>4, <1>5, <1>6 DEF AsSent, Datagram
<1>8. d.text \in P!Texts
  BY <1>3, <1>5, <1>6, RunBounds
<1>9. QED
  BY <1>2, <1>7, <1>8, SendStep

LEMMA ByeStep == ASSUME PoolInv, NEW c \in PoolClients, P!Bye(c) PROVE PoolInv'
<1>1. PICK d : d = P!Request(c, "close", 0)
  OBVIOUS
<1>2. /\ cpc[c] \in {"prompt", "give up"} /\ P!Send(c, d, "closed") /\ bound' = bound
      /\ UNCHANGED <<hand, ended, queue, toService, fromService, size, pool_state>>
      /\ UNCHANGED <<spc, flag, starts, current, sid, mid, given, astray, late>>
  BY <1>1 DEF P!Bye, P!Send, P!threadVars, P!queueVars, P!poolVars, P!serverVars, P!history
<1>3. PoolTypes /\ ClientState
  BY DEF PoolInv
<1>4. sid[c] \in P!ServiceIds /\ mid[c] \in 0..bound.lines /\ bound.lines \in Nat
  BY <1>2, <1>3, RunBounds DEF ClientState, PoolTypes
<1>5. d = [kind |-> "request", type |-> "close", sid |-> sid[c], mid |-> mid[c],
           client |-> c, text |-> <<c, 0>>]
  BY <1>1 DEF P!Request
<1>6. AsSent(d) /\ d.client = c /\ d.mid = mid[c] /\ d.type = "close" /\ d.sid = sid[c]
  BY <1>4, <1>5 DEF AsSent, Datagram
<1>7. d.text \in P!Texts
  BY <1>3, <1>4, <1>5, RunBounds
<1>8. QED
  BY <1>2, <1>6, <1>7, SendStep

(* A client reads a datagram: its reply, somebody else's, or neither.       *)
LEMMA ReadStep == ASSUME PoolInv, NEW c \in PoolClients, P!Read(c) PROVE PoolInv'
<1>1. /\ cpc[c] \in {"connecting", "asking"} /\ raw[c] # <<>> /\ bound' = bound
      /\ UNCHANGED <<hand, ended, queue, toService, fromService, size, pool_state>>
      /\ UNCHANGED <<spc, flag, starts, current, inbox, pending, given, late>>
  BY DEF P!Read, P!threadVars, P!queueVars, P!poolVars, P!serverVars
<1>2. PoolTypes /\ ServerState /\ ClientState /\ Protocol /\ Heard /\ Held /\ Quiet /\ Answered /\ Fits
  BY DEF PoolInv
<1>3. /\ cpc \in [PoolClients -> {"connect", "connecting", "prompt", "asking", "give up",
                                   "failed", "closed"}]
      /\ sid \in [PoolClients -> P!ServiceIds \cup {NotDefined}]
      /\ mid \in [PoolClients -> 0..bound.lines] /\ bound.lines \in Nat
      /\ attempts \in [PoolClients -> 0..ATTEMPTS] /\ astray \subseteq PoolClients
      /\ answer \in [PoolClients -> Datagram \cup {Nothing}]
      /\ raw \in [PoolClients -> Seq(Datagram)] /\ raw[c] \in Seq(Datagram)
  BY <1>2, RunBounds DEF PoolTypes
<1>4. PICK d, rest : d = Head(raw[c]) /\ rest = Tail(raw[c])
  OBVIOUS
<1>5. /\ d \in Datagram /\ d \in Elems(raw[c]) /\ rest \in Seq(Datagram)
      /\ Elems(rest) \subseteq Elems(raw[c])
  BY <1>1, <1>3, <1>4, Taken
<1>6. /\ d.mid > 0 \/ d.kind = "reply" => d.sid \in P!ServiceIds
      /\ d.kind = "reply" /\ d.type = "connect" =>
           d.sid = given[d.client] /\ d.text = <<d.client, 0>>
      /\ d.kind = "reply" /\ d.type = "data" /\ late = {} => d.text = <<d.client, d.mid>>
  BY <1>2, <1>5 DEF Heard
<1>7. P!Texts' = P!Texts /\ (P!Up' <=> P!Up)
  BY <1>1, Kept DEF P!Up
<1>8. \A i \in DOMAIN inbox : inbox[i].client \in PoolClients
  BY <1>2 DEF Protocol, AsSent, Datagram
<1>9. /\ cpc[c] = "connecting" =>
           /\ sid[c] = NotDefined /\ mid[c] = 0
           /\ pending[c].type = "connect" /\ pending[c].text = <<c, 0>>
      /\ cpc[c] = "asking" =>
           /\ sid[c] \in P!ServiceIds /\ mid[c] < bound.lines
           /\ pending[c].type = "data" /\ pending[c].text = <<c, mid[c] + 1>>
      /\ attempts[c] > 0
  BY <1>1, <1>2 DEF ClientState
<1>10. ServerState' /\ Quiet'
  BY <1>1, <1>2, <1>7 DEF ServerState, Quiet
<1>11. Fits'
  BY <1>1, <1>2, Kept
<1>12. ASSUME raw' \in [PoolClients -> Seq(Datagram)],
              \A e \in PoolClients : Elems(raw'[e]) \subseteq Elems(raw[e])
       PROVE  Heard'
  BY <1>1, <1>2, <1>12 DEF Heard
<1>13. CASE P!Matches(c, d)
  <2>1. /\ cpc' = [cpc EXCEPT ![c] = "prompt"] /\ sid' = [sid EXCEPT ![c] = d.sid]
        /\ mid' = IF cpc[c] = "connecting" THEN mid ELSE [mid EXCEPT ![c] = @ + 1]
        /\ answer' = [answer EXCEPT ![c] = d]
        /\ astray' = IF d.kind = "reply" /\ d.client = c /\ d.type = pending[c].type
                     THEN astray ELSE astray \cup {c}
        /\ raw' = [raw EXCEPT ![c] = rest] /\ attempts' = attempts
    BY <1>4, <1>13 DEF P!Read
  <2>2. sid[c] \in {NotDefined, d.sid} /\ d.mid = mid[c] + 1
    BY <1>13 DEF P!Matches
  <2>3. d.sid \in P!ServiceIds
    <3>1. mid[c] \in 0..bound.lines
      BY <1>3
    <3>2. d.mid > 0
      BY <1>3, <2>2, <3>1, NextLine
    <3>3. QED
      BY <1>6, <3>2
  <2>4. mid' \in [PoolClients -> 0..bound.lines]
    <3>1. CASE cpc[c] = "connecting"
      BY <1>3, <2>1, <3>1
    <3>2. CASE cpc[c] = "asking"
      <4>1. mid[c] + 1 \in 0..bound.lines
        <5>1. mid[c] \in 0..bound.lines /\ mid[c] < bound.lines
          BY <1>3, <1>9, <3>2
        <5>2. QED
          BY <1>3, <5>1, NextLine
      <4>2. mid' = [mid EXCEPT ![c] = mid[c] + 1]
        BY <2>1, <3>2
      <4>3. QED
        BY <1>3, <4>1, <4>2
    <3>3. QED
      BY <1>1, <3>1, <3>2
  <2>5. \A e \in PoolClients : e # c =>
          /\ cpc'[e] = cpc[e] /\ sid'[e] = sid[e] /\ mid'[e] = mid[e] /\ answer'[e] = answer[e]
          /\ raw'[e] = raw[e]
    BY <1>3, <2>1
  <2>6. cpc'[c] = "prompt" /\ sid'[c] = d.sid /\ answer'[c] = d /\ raw'[c] = rest
    BY <1>3, <2>1
  <2>7. raw' \in [PoolClients -> Seq(Datagram)]
    BY <1>3, <1>5, <2>1
  <2>8. PoolTypes'
    <3>1. /\ cpc' \in [PoolClients -> {"connect", "connecting", "prompt", "asking", "give up",
                                        "failed", "closed"}]
          /\ sid' \in [PoolClients -> P!ServiceIds \cup {NotDefined}]
          /\ answer' \in [PoolClients -> Datagram \cup {Nothing}] /\ astray' \subseteq PoolClients
      BY <1>3, <1>5, <2>1, <2>3
    <3>2. QED
      BY <1>1, <1>2, <1>7, <2>1, <2>4, <2>7, <3>1 DEF PoolTypes
  <2>9. ClientState'
    <3>1. ASSUME NEW e \in PoolClients
          PROVE  /\ cpc'[e] \in {"connect", "connecting", "failed"} => sid'[e] = NotDefined /\ mid'[e] = 0
                 /\ cpc'[e] \notin {"connect", "connecting", "failed"} => sid'[e] \in P!ServiceIds
                 /\ cpc'[e] = "connect" => given[e] = NotDefined
                 /\ cpc'[e] \in {"connecting", "asking"} => attempts[e] > 0 /\ pending[e].mid = mid'[e]
                 /\ cpc'[e] = "connecting" => pending[e].type = "connect" /\ pending[e].text = <<e, 0>>
                 /\ cpc'[e] = "asking" =>
                      /\ pending[e].type = "data" /\ pending[e].text = <<e, mid'[e] + 1>>
                      /\ mid'[e] < bound.lines
      <4>1. CASE e = c
        BY <2>3, <2>6, <4>1
      <4>2. CASE e # c
        BY <1>2, <2>5, <4>2 DEF ClientState
      <4>3. QED
        BY <4>1, <4>2
    <3>2. QED
      BY <1>1, <2>1, <3>1 DEF ClientState
  <2>10. Protocol'
    <3>1. ASSUME NEW i \in DOMAIN inbox
          PROVE  /\ cpc'[inbox[i].client] # "connect"
                 /\ inbox[i].type # "connect" => cpc'[inbox[i].client] \notin {"connecting", "failed"}
                 /\ inbox[i].type = "close" => cpc'[inbox[i].client] = "closed"
                 /\ cpc'[inbox[i].client] = "closed" => cpc[inbox[i].client] = "closed"
      <4>1. CASE inbox[i].client = c
        BY <1>1, <1>2, <2>6, <4>1 DEF Protocol
      <4>2. CASE inbox[i].client # c
        BY <1>2, <1>8, <2>5, <4>2 DEF Protocol
      <4>3. QED
        BY <4>1, <4>2
    <3>2. QED
      BY <1>1, <1>2, <1>7, <3>1 DEF Protocol
  <2>11. Heard'
    <3>1. \A e \in PoolClients : Elems(raw'[e]) \subseteq Elems(raw[e])
      BY <1>5, <2>5, <2>6
    <3>2. QED
      BY <1>12, <2>7, <3>1
  <2>12. ASSUME astray' = {}
         PROVE  astray = {} /\ d.kind = "reply" /\ d.client = c /\ d.type = pending[c].type
    BY <2>1, <2>12
  <2>13. Held'
    <3> SUFFICES ASSUME astray' = {}
                 PROVE  /\ \A e, f \in PoolClients :
                              Holding(e)' /\ Holding(f)' /\ given[e] = given[f] => e = f
                        /\ P!Up => \A e \in PoolClients : Holding(e)' =>
                              pool_state[given[e]] = "busy" /\ given[e] < size
                        /\ ~queue => \A e \in PoolClients : ~Holding(e)'
                        /\ \A e \in PoolClients : sid'[e] # NotDefined => sid'[e] = given[e]
                        /\ \A i \in DOMAIN inbox : inbox[i].type # "connect" =>
                              inbox[i].sid = given[inbox[i].client]
                        /\ spc = "await" => pool_state[current.sid] = "busy"
      BY <1>1, <1>7 DEF Held
    <3>1. /\ \A e, f \in PoolClients : Holding(e) /\ Holding(f) /\ given[e] = given[f] => e = f
          /\ P!Up => \A e \in PoolClients : Holding(e) =>
                pool_state[given[e]] = "busy" /\ given[e] < size
          /\ ~queue => \A e \in PoolClients : ~Holding(e)
          /\ \A e \in PoolClients : sid[e] # NotDefined => sid[e] = given[e]
          /\ \A i \in DOMAIN inbox : inbox[i].type # "connect" =>
                inbox[i].sid = given[inbox[i].client]
          /\ spc = "await" => pool_state[current.sid] = "busy"
      BY <1>2, <2>12 DEF Held
    <3>2. ASSUME NEW e \in PoolClients, Holding(e)' PROVE Holding(e)
      <4>1. CASE e = c
        BY <1>1, <3>2, <4>1 DEF Holding
      <4>2. CASE e # c
        BY <1>1, <2>5, <3>2, <4>2 DEF Holding
      <4>3. QED
        BY <4>1, <4>2
    <3>3. d.sid = given[c]
      <4>1. CASE cpc[c] = "connecting"
        BY <1>6, <1>9, <2>12, <4>1
      <4>2. CASE cpc[c] = "asking"
        BY <1>9, <2>2, <3>1, <4>2, PoolConstants
      <4>3. QED
        BY <1>1, <4>1, <4>2
    <3>4. \A e \in PoolClients : sid'[e] # NotDefined => sid'[e] = given[e]
      BY <2>5, <2>6, <3>1, <3>3
    <3>5. QED
      BY <3>1, <3>2, <3>4
  <2>14. Answered'
    <3>1. ASSUME astray' = {}, late = {}, NEW e \in PoolClients,
                 cpc'[e] \in {"prompt", "asking", "give up"}, answer'[e] # Nothing
          PROVE  answer'[e].text = pending[e].text
      <4>1. CASE e = c
        <5>1. d.kind = "reply" /\ d.client = c /\ d.type = pending[c].type
          BY <2>12, <3>1
        <5>2. CASE cpc[c] = "connecting"
          BY <1>6, <1>9, <2>6, <4>1, <5>1, <5>2
        <5>3. CASE cpc[c] = "asking"
          <6>1. d.text = <<c, d.mid>>
            BY <1>6, <1>9, <3>1, <5>1, <5>3
          <6>2. QED
            BY <1>9, <2>2, <2>6, <4>1, <5>3, <6>1
        <5>4. QED
          BY <1>1, <5>2, <5>3
      <4>2. CASE e # c
        BY <1>2, <2>5, <2>12, <3>1, <4>2 DEF Answered, P!Connected
      <4>3. QED
        BY <4>1, <4>2
    <3>2. QED
      BY <1>1, <3>1 DEF Answered, P!Connected
  <2>15. QED
    BY <1>10, <1>11, <2>8, <2>9, <2>10, <2>11, <2>13, <2>14 DEF PoolInv
<1>14. CASE ~P!Matches(c, d)
  <2>1. PICK next, fewer, left :
            /\ fewer = attempts[c] - 1
            /\ next = IF attempts[c] > 1 THEN cpc[c]
                      ELSE IF cpc[c] = "connecting" THEN "failed" ELSE "give up"
            /\ left = IF cpc[c] = "connecting" /\ attempts[c] <= 1 THEN <<>> ELSE rest
    OBVIOUS
  <2>2. /\ attempts' = [attempts EXCEPT ![c] = fewer] /\ cpc' = [cpc EXCEPT ![c] = next]
        /\ raw' = [raw EXCEPT ![c] = left]
        /\ UNCHANGED <<sid, mid, answer, astray>>
    BY <1>4, <1>14, <2>1 DEF P!Read
  <2>3. /\ fewer \in 0..ATTEMPTS
        /\ next \in {"connecting", "asking"} => next = cpc[c] /\ fewer > 0
        /\ next \in {"connecting", "asking", "failed", "give up"}
        /\ next = "failed" => cpc[c] = "connecting"
        /\ next = "give up" => cpc[c] = "asking"
    <3>1. attempts[c] \in 0..ATTEMPTS
      BY <1>3
    <3>2. PICK m : m = attempts[c]
      OBVIOUS
    <3>3. m \in 0..ATTEMPTS /\ m > 0 /\ ATTEMPTS \in Nat
      BY <1>9, <3>1, <3>2, PoolConstants
    <3>4. m - 1 \in 0..ATTEMPTS /\ (m > 1 => m - 1 > 0)
      BY <3>3, OneFewer
    <3>5. fewer \in 0..ATTEMPTS /\ (attempts[c] > 1 => fewer > 0)
      BY <2>1, <3>2, <3>4
    <3>6. QED
      BY <1>1, <2>1, <3>5
  <2>4. left \in Seq(Datagram) /\ Elems(left) \subseteq Elems(raw[c])
    <3>1. left \in {<<>>, rest}
      BY <2>1
    <3>2. CASE left = <<>>
      <4>1. Elems(left) = {}
        BY <3>2, NothingIn
      <4>2. QED
        BY <3>2, <4>1
    <3>3. CASE left = rest
      BY <1>5, <3>3
    <3>4. QED
      BY <3>1, <3>2, <3>3
  <2>5. /\ cpc'[c] = next /\ attempts'[c] = fewer /\ raw'[c] = left
        /\ \A e \in PoolClients : e # c =>
             cpc'[e] = cpc[e] /\ attempts'[e] = attempts[e] /\ raw'[e] = raw[e]
        /\ raw' \in [PoolClients -> Seq(Datagram)]
        /\ attempts' \in [PoolClients -> 0..ATTEMPTS]
        /\ cpc' \in [PoolClients -> {"connect", "connecting", "prompt", "asking", "give up",
                                      "failed", "closed"}]
    BY <1>3, <2>2, <2>3, <2>4
  <2>6. PoolTypes'
    BY <1>1, <1>2, <1>7, <2>2, <2>5 DEF PoolTypes
  <2>7. ClientState'
    <3>1. ASSUME NEW e \in PoolClients
          PROVE  /\ cpc'[e] \in {"connect", "connecting", "failed"} => sid[e] = NotDefined /\ mid[e] = 0
                 /\ cpc'[e] \notin {"connect", "connecting", "failed"} => sid[e] \in P!ServiceIds
                 /\ cpc'[e] = "connect" => given[e] = NotDefined
                 /\ cpc'[e] \in {"connecting", "asking"} => attempts'[e] > 0 /\ pending[e].mid = mid[e]
                 /\ cpc'[e] = "connecting" => pending[e].type = "connect" /\ pending[e].text = <<e, 0>>
                 /\ cpc'[e] = "asking" =>
                      /\ pending[e].type = "data" /\ pending[e].text = <<e, mid[e] + 1>>
                      /\ mid[e] < bound.lines
      <4>1. CASE e = c
        BY <1>1, <1>2, <2>3, <2>5, <4>1 DEF ClientState
      <4>2. CASE e # c
        BY <1>2, <2>5, <4>2 DEF ClientState
      <4>3. QED
        BY <4>1, <4>2
    <3>2. QED
      BY <1>1, <2>2, <3>1 DEF ClientState
  <2>8. Protocol'
    <3>1. ASSUME NEW i \in DOMAIN inbox
          PROVE  /\ cpc'[inbox[i].client] # "connect"
                 /\ inbox[i].type # "connect" => cpc'[inbox[i].client] \notin {"connecting", "failed"}
                 /\ inbox[i].type = "close" => cpc'[inbox[i].client] = "closed"
                 /\ cpc'[inbox[i].client] = "closed" => cpc[inbox[i].client] = "closed"
      <4>1. CASE inbox[i].client = c
        BY <1>1, <1>2, <2>3, <2>5, <4>1 DEF Protocol
      <4>2. CASE inbox[i].client # c
        BY <1>2, <1>8, <2>5, <4>2 DEF Protocol
      <4>3. QED
        BY <4>1, <4>2
    <3>2. QED
      BY <1>1, <1>2, <1>7, <3>1 DEF Protocol
  <2>9. Heard'
    <3>1. \A e \in PoolClients : Elems(raw'[e]) \subseteq Elems(raw[e])
      BY <2>4, <2>5
    <3>2. QED
      BY <1>12, <2>5, <3>1
  <2>10. Held'
    <3>1. ASSUME NEW e \in PoolClients, Holding(e)' PROVE Holding(e)
      <4>1. CASE e = c
        BY <1>1, <3>1, <4>1 DEF Holding
      <4>2. CASE e # c
        BY <1>1, <2>5, <3>1, <4>2 DEF Holding
      <4>3. QED
        BY <4>1, <4>2
    <3>2. \A i \in DOMAIN inbox' : \E k \in DOMAIN inbox : inbox'[i] = inbox[k]
      BY <1>1
    <3>3. spc' = "await" => (astray = {} => pool_state[current'.sid] = "busy")
      BY <1>1, <1>2 DEF Held
    <3>4. QED
      BY <1>1, <1>2, <1>7, <2>2, <3>1, <3>2, <3>3, HeldStays
  <2>11. Answered'
    <3>1. \A e \in PoolClients : cpc'[e] \in {"prompt", "asking", "give up"} =>
            cpc[e] \in {"prompt", "asking", "give up"}
      BY <2>3, <2>5
    <3>2. QED
      BY <1>1, <1>2, <2>2, <3>1 DEF Answered, P!Connected
  <2>12. QED
    BY <1>10, <1>11, <2>6, <2>7, <2>8, <2>9, <2>10, <2>11 DEF PoolInv
<1>15. QED
  BY <1>13, <1>14

LEMMA PoolStep == ASSUME PoolInv, P!Next \/ UNCHANGED poolVars PROVE PoolInv'
<1>1. CASE UNCHANGED poolVars
  <2>1. /\ bound' = bound
        /\ UNCHANGED <<hand, ended, queue, toService, fromService, size, pool_state>>
        /\ UNCHANGED <<spc, flag, starts, current, cpc, sid, mid, attempts, pending, answer>>
        /\ UNCHANGED <<inbox, raw, given, astray, late>>
    BY <1>1 DEF poolVars
  <2>2. PoolTypes /\ ServerState /\ ClientState /\ Protocol /\ Heard /\ Held /\ Quiet /\ Answered /\ Fits
    BY DEF PoolInv
  <2>3. P!Texts' = P!Texts /\ (P!Up' <=> P!Up) /\ \A c \in PoolClients : Holding(c)' = Holding(c)
    BY <2>1, Kept DEF P!Up
  <2>4. PoolTypes'
    BY <2>1, <2>2, <2>3 DEF PoolTypes
  <2>5. ServerState' /\ Quiet'
    BY <2>1, <2>2, <2>3 DEF ServerState, Quiet
  <2>6. ClientState' /\ Protocol' /\ Heard' /\ Answered' /\ Fits'
    BY <2>1, <2>2, Kept
  <2>7. Held'
    <3>1. spc' = "await" => (astray = {} => pool_state[current'.sid] = "busy")
      BY <2>1, <2>2 DEF Held
    <3>2. QED
      BY <2>1, <2>2, <2>3, <3>1, HeldStays
  <2>8. QED
    BY <2>4, <2>5, <2>6, <2>7 DEF PoolInv
<1>2. CASE P!Next
  <2>1. \/ P!Start \/ P!Loop \/ P!Connect \/ P!Data \/ P!Answer \/ P!Close \/ P!End \/ P!Interrupt
        \/ \E i \in P!ServiceIds : P!Take(i) \/ P!Put(i) \/ P!EndService(i)
        \/ \E c \in PoolClients : P!Hello(c) \/ P!Type(c) \/ P!Bye(c) \/ P!Read(c)
    BY <1>2 DEF P!Next
  <2>2. CASE \E i \in P!ServiceIds : P!Take(i) \/ P!Put(i) \/ P!EndService(i)
    BY <2>2, TakeStep, PutStep, EndServiceStep
  <2>3. CASE \E c \in PoolClients : P!Hello(c) \/ P!Type(c) \/ P!Bye(c) \/ P!Read(c)
    BY <2>3, HelloStep, TypeStep, ByeStep, ReadStep
  <2>4. QED
    BY <2>1, <2>2, <2>3, StartStep, LoopStep, ConnectStep, DataStep, AnswerStep, CloseStep, EndStep,
       InterruptStep
<1>3. QED
  BY <1>1, <1>2

LEMMA PoolInit == ASSUME P!Init PROVE PoolInv
<1>1. /\ bound \in Bounds /\ spc = "off" /\ flag = FALSE /\ starts = 0 /\ current = Nothing
      /\ queue = FALSE /\ toService = [i \in P!ServiceIds |-> <<>>]
      /\ fromService = [i \in P!ServiceIds |-> <<>>] /\ size = 0
      /\ pool_state = [i \in P!ServiceIds |-> "none"] /\ hand = [i \in P!ServiceIds |-> Nothing]
      /\ ended = {} /\ inbox = <<>> /\ raw = [c \in PoolClients |-> <<>>]
      /\ cpc = [c \in PoolClients |-> "connect"] /\ sid = [c \in PoolClients |-> NotDefined]
      /\ mid = [c \in PoolClients |-> 0] /\ attempts = [c \in PoolClients |-> 0]
      /\ pending = [c \in PoolClients |-> Nothing] /\ answer = [c \in PoolClients |-> Nothing]
      /\ given = [c \in PoolClients |-> NotDefined] /\ astray = {} /\ late = {}
  BY DEF P!Init
<1>2. bound.lines \in Nat /\ bound.starts \in Nat
  <2>1. bound \in [clients : SUBSET PoolClients, lines : Nat, starts : Nat]
    BY <1>1, PoolConstants
  <2>2. QED
    BY <2>1
<1>3. ~P!Up /\ \A i : i \notin DOMAIN inbox
  BY <1>1, NothingIn DEF P!Up
<1>4. PoolTypes
  <2>1. /\ starts \in 0..bound.starts /\ size \in {0, POOL, 2 * POOL}
        /\ pool_state \in [P!ServiceIds -> {"none", "available", "busy", "error"}]
        /\ hand \in [P!ServiceIds -> P!Texts \cup {Nothing}]
        /\ toService \in [P!ServiceIds -> Seq(P!Texts)] /\ fromService \in [P!ServiceIds -> Seq(P!Texts)]
    BY <1>1, <1>2
  <2>2. /\ cpc \in [PoolClients -> {"connect", "connecting", "prompt", "asking", "give up",
                                     "failed", "closed"}]
        /\ sid \in [PoolClients -> P!ServiceIds \cup {NotDefined}]
        /\ given \in [PoolClients -> P!ServiceIds \cup {NotDefined}]
        /\ mid \in [PoolClients -> 0..bound.lines] /\ attempts \in [PoolClients -> 0..ATTEMPTS]
        /\ inbox \in Seq(Datagram) /\ raw \in [PoolClients -> Seq(Datagram)]
        /\ pending \in [PoolClients -> Datagram \cup {Nothing}]
        /\ answer \in [PoolClients -> Datagram \cup {Nothing}]
    BY <1>1, <1>2, PoolConstants
  <2>3. QED
    BY <1>1, <2>1, <2>2 DEF PoolTypes
<1>5. ServerState
  BY <1>1, <1>3 DEF ServerState
<1>6. ClientState
  BY <1>1 DEF ClientState
<1>7. Protocol /\ Quiet
  BY <1>3 DEF Protocol, Quiet
<1>8. Heard
  BY <1>1, NothingIn DEF Heard
<1>9. Held
  BY <1>1, <1>3 DEF Held, Holding
<1>10. Answered
  BY <1>1 DEF Answered, P!Connected
<1>11. Fits
  BY <1>1, RoomEmpty, PoolConstants DEF Fits
<1>12. QED
  BY <1>4, <1>5, <1>6, <1>7, <1>8, <1>9, <1>10, <1>11 DEF PoolInv

LEMMA PoolSessions == ASSUME PoolInv PROVE P!Sessions /\ P!TypeOK
<1>1. PoolTypes /\ ServerState /\ ClientState /\ Held /\ Quiet /\ Answered /\ Fits
  BY DEF PoolInv
<1>2. ASSUME astray = {}
      PROVE  /\ \A c, d \in P!Connected : sid[c] = sid[d] => c = d
             /\ \A c \in P!Connected : sid[c] = given[c]
             /\ P!Up => \A c \in P!Connected :
                    pool_state[sid[c]] = "busy" /\ (sid[c] \in ended => flag)
             /\ late = {} =>
                 /\ \A c \in P!Connected : answer[c] # Nothing => answer[c].text = pending[c].text
                 /\ \A i \in P!ServiceIds : P!Up /\ pool_state[i] = "available" =>
                     hand[i] = Nothing /\ toService[i] = <<>> /\ fromService[i] = <<>>
  <2>1. ASSUME NEW c \in P!Connected PROVE c \in PoolClients /\ sid[c] = given[c] /\ Holding(c)
    <3>1. c \in PoolClients /\ cpc[c] \in {"prompt", "asking", "give up"}
      BY <2>1 DEF P!Connected
    <3>2. sid[c] \in P!ServiceIds
      BY <1>1, <3>1 DEF ClientState
    <3>3. sid[c] = given[c] /\ given[c] # NotDefined
      BY <1>1, <1>2, <3>1, <3>2, PoolConstants DEF Held
    <3>4. QED
      BY <3>1, <3>3 DEF Holding
  <2>2. \A c, d \in P!Connected : sid[c] = sid[d] => c = d
    BY <1>1, <1>2, <2>1 DEF Held
  <2>3. P!Up => \A c \in P!Connected :
                    pool_state[sid[c]] = "busy" /\ (sid[c] \in ended => flag)
    <3>1. P!Up => (ended # {} => flag)
      BY <1>1 DEF ServerState
    <3>2. QED
      BY <1>1, <1>2, <2>1, <3>1 DEF Held
  <2>4. late = {} => \A c \in P!Connected : answer[c] # Nothing => answer[c].text = pending[c].text
    BY <1>1, <1>2 DEF Answered
  <2>5. ASSUME late = {}, NEW i \in P!ServiceIds, P!Up, pool_state[i] = "available"
        PROVE  hand[i] = Nothing /\ toService[i] = <<>> /\ fromService[i] = <<>>
    <3>1. spc = "await" => pool_state[current.sid] = "busy"
      BY <1>1, <1>2 DEF Held
    <3>2. QED
      BY <1>1, <2>5, <3>1 DEF Quiet
  <2>6. QED
    BY <2>1, <2>2, <2>3, <2>4, <2>5
<1>3. P!Sessions
  BY <1>2 DEF P!Sessions
<1>4. P!QueueLength <= QueueCapacity
  BY <1>1, QueueRoom DEF Fits
<1>5. P!TypeOK
  BY <1>1, <1>4 DEF PoolTypes, P!TypeOK
<1>6. QED
  BY <1>3, <1>5

-----------------------------------------------------------------------------
(* The types of the phone lists *)

ListCall == [count : 0..MAXSIZE, index : 0..MAXSIZE, find : Numbers \cup {Garbage}]

ListTypes ==
    /\ ptr \in [0..MAXSIZE - 1 -> Numbers \cup {Garbage}]
    /\ mode \in {"menu", "find", "return", "ended"}
    /\ count \in 0..MAXSIZE /\ searched \in BOOLEAN
    /\ stack \in Seq(ListCall) /\ Len(stack) <= MaxDepth

(* One more search than are under way, or the last one changed.             *)
LEMMA OneCallMore ==
    ASSUME NEW calls \in Seq(ListCall), NEW call \in ListCall
    PROVE  Append(calls, call) \in Seq(ListCall) /\ Len(Append(calls, call)) = Len(calls) + 1
           /\ Len(calls) \in Nat
OBVIOUS

LEMMA LastCall ==
    ASSUME NEW calls \in Seq(ListCall), calls # <<>>
    PROVE  /\ calls[Len(calls)] \in ListCall /\ SubSeq(calls, 1, Len(calls) - 1) \in Seq(ListCall)
           /\ Len(SubSeq(calls, 1, Len(calls) - 1)) = Len(calls) - 1
<1>1. PICK n : n = Len(calls) /\ n \in Nat \ {0} /\ \A i \in 1..n : calls[i] \in ListCall
  OBVIOUS
<1>2. n \in 1..n /\ n - 1 \in 0..n
  BY <1>1
<1>3. SubSeq(calls, 1, n - 1) \in Seq(ListCall) /\ Len(SubSeq(calls, 1, n - 1)) = n - 1
  BY <1>1, <1>2
<1>4. QED
  BY <1>1, <1>2, <1>3

LEMMA ListTypesStep == ASSUME ListTypes, L!Next \/ UNCHANGED listVars PROVE ListTypes'
<1>1. MAXSIZE \in Nat /\ MaxDepth \in Nat /\ Len(stack) \in Nat
  BY ExercisesAssumption DEF ExercisesAssumption, L!PhoneListAssumption, ListTypes
<1>2. CASE L!add_element
  <2>1. /\ \E n \in Numbers : ptr' = [ptr EXCEPT ![count] = n]
        /\ count < MAXSIZE /\ count' = count + 1 /\ UNCHANGED <<mode, stack, searched>>
    BY <1>2 DEF L!add_element
  <2>2. ptr' \in [0..MAXSIZE - 1 -> Numbers \cup {Garbage}] /\ count' \in 0..MAXSIZE
    BY <1>1, <2>1 DEF ListTypes
  <2>3. QED
    BY <2>1, <2>2 DEF ListTypes
<1>3. CASE L!find_element
  <2>1. UNCHANGED <<ptr, count>> /\ searched' = TRUE
    BY <1>3 DEF L!find_element
  <2>2. CASE count > 0
    BY <1>3, <2>1, <2>2 DEF L!find_element, ListTypes
  <2>3. CASE ~(count > 0)
    <3>1. PICK call : call = [count |-> 0, index |-> 0, find |-> Garbage]
      OBVIOUS
    <3>2. stack' = Append(stack, call) /\ Len(stack) < MaxDepth /\ mode' = mode
      BY <1>3, <2>3, <3>1 DEF L!find_element
    <3>3. call \in ListCall
      BY <1>1, <3>1 DEF ListCall
    <3>4. stack' \in Seq(ListCall) /\ Len(stack') = Len(stack) + 1
      BY <3>2, <3>3, OneCallMore DEF ListTypes
    <3>5. Len(stack') <= MaxDepth
      BY <1>1, <3>2, <3>4
    <3>6. QED
      BY <2>1, <3>2, <3>4, <3>5 DEF ListTypes
  <2>4. QED
    BY <2>2, <2>3
<1>4. CASE L!Ask
  <2>1. PICK number \in Numbers : L!Search(number, 0, count)
    BY <1>4 DEF L!Ask
  <2>2. Len(stack) < MaxDepth /\ UNCHANGED <<ptr, searched>>
    BY <1>4 DEF L!Ask
  <2>3. count \in 0..MAXSIZE /\ count \in Nat
    BY <1>1 DEF ListTypes
  <2> DEFINE matches == {i \in 0..count - 1 : ptr[i] = number}
  <2>4. CASE matches = {}
    <3>1. PICK call : call = [count |-> 0, index |-> 0, find |-> Garbage]
      OBVIOUS
    <3>2. /\ mode' \in {"menu", "find"} /\ count' = count
          /\ stack' \in {stack, Append(stack, call)}
      BY <2>1, <2>4, <3>1 DEF L!Search
    <3>3. call \in ListCall
      BY <1>1, <3>1 DEF ListCall
    <3>4. /\ Append(stack, call) \in Seq(ListCall)
          /\ Len(Append(stack, call)) = Len(stack) + 1
      BY <3>3, OneCallMore DEF ListTypes
    <3>5. stack' \in Seq(ListCall) /\ Len(stack') <= MaxDepth
      BY <1>1, <2>2, <3>2, <3>4 DEF ListTypes
    <3>6. QED
      BY <2>2, <3>2, <3>5 DEF ListTypes
  <2>5. CASE matches # {}
    <3>1. PICK i : i = CHOOSE k \in matches : \A m \in matches : k <= m
      OBVIOUS
    <3>2. i \in 0..count - 1
      <4>1. matches \in SUBSET Nat
        BY <2>3
      <4>2. i \in matches
        BY <2>5, <3>1, <4>1, LeastMatch, Zenon
      <4>3. QED
        BY <4>2
    <3>3. PICK call : call = [count |-> count, index |-> i, find |-> number]
      OBVIOUS
    <3>4. mode' = "menu" /\ count' = i + 1 /\ stack' = Append(stack, call)
      BY <2>1, <2>5, <3>1, <3>3 DEF L!Search
    <3>5. i \in 0..MAXSIZE /\ i + 1 \in 0..MAXSIZE
      BY <1>1, <2>3, <3>2
    <3>6. call \in ListCall
      BY <2>3, <3>3, <3>5 DEF ListCall
    <3>7. stack' \in Seq(ListCall) /\ Len(stack') = Len(stack) + 1
      BY <3>4, <3>6, OneCallMore DEF ListTypes
    <3>8. Len(stack') <= MaxDepth
      BY <1>1, <2>2, <3>7
    <3>9. QED
      BY <2>2, <3>4, <3>5, <3>7, <3>8 DEF ListTypes
  <2>6. QED
    BY <2>4, <2>5
<1>5. CASE L!delete_element
  <2>1. UNCHANGED <<stack, searched>> /\ mode' \in {"menu", "return"}
    BY <1>5 DEF L!delete_element
  <2>2. PICK number \in 0..MAXSIZE :
            \/ count' = 0 /\ UNCHANGED ptr
            \/ /\ number > 0 /\ number < count /\ count' = count - 1
               /\ ptr' = [i \in DOMAIN ptr |-> IF i = number + 1 THEN ptr[number] ELSE ptr[i]]
            \/ UNCHANGED <<ptr, count>>
    BY <1>5 DEF L!delete_element
  <2>3. count \in 0..MAXSIZE /\ ptr \in [0..MAXSIZE - 1 -> Numbers \cup {Garbage}]
    BY DEF ListTypes
  <2>4. CASE /\ number > 0 /\ number < count /\ count' = count - 1
             /\ ptr' = [i \in DOMAIN ptr |-> IF i = number + 1 THEN ptr[number] ELSE ptr[i]]
    <3>1. number \in 0..MAXSIZE - 1 /\ count - 1 \in 0..MAXSIZE
      BY <1>1, <2>3, <2>4
    <3>2. ptr[number] \in Numbers \cup {Garbage}
      BY <2>3, <3>1
    <3>3. ptr' \in [0..MAXSIZE - 1 -> Numbers \cup {Garbage}]
      BY <2>3, <2>4, <3>2
    <3>4. QED
      BY <2>1, <2>4, <3>1, <3>3 DEF ListTypes
  <2>5. CASE (count' = 0 /\ UNCHANGED ptr) \/ UNCHANGED <<ptr, count>>
    <3>1. count' \in 0..MAXSIZE /\ ptr' = ptr
      BY <1>1, <2>3, <2>5
    <3>2. QED
      BY <2>1, <3>1 DEF ListTypes
  <2>6. QED
    BY <2>2, <2>4, <2>5
<1>6. CASE L!LeaveMenu \/ L!End
  BY <1>6 DEF L!LeaveMenu, L!End, ListTypes
<1>7. CASE L!Return
  <2>1. PICK top, rest : top = stack[Len(stack)] /\ rest = SubSeq(stack, 1, Len(stack) - 1)
    OBVIOUS
  <2>2. stack # <<>> /\ UNCHANGED <<ptr, searched>>
    BY <1>7 DEF L!Return
  <2>3. top \in ListCall /\ rest \in Seq(ListCall) /\ Len(rest) = Len(stack) - 1
    <3>1. stack \in Seq(ListCall)
      BY DEF ListTypes
    <3>2. QED
      BY <2>1, <2>2, <3>1, LastCall
  <2>4. top.index \in 0..MAXSIZE /\ top.count \in 0..MAXSIZE
    BY <2>3 DEF ListCall
  <2> DEFINE matches == {k \in top.index + 1..top.count - 1 : ptr[k] = top.find}
  <2>5. CASE matches = {}
    <3>1. stack' = rest /\ mode' = "find" /\ count' = top.count
      BY <1>7, <2>1, <2>5 DEF L!Return
    <3>2. Len(stack) - 1 <= MaxDepth
      BY <1>1 DEF ListTypes
    <3>3. QED
      BY <2>2, <2>3, <2>4, <3>1, <3>2 DEF ListTypes
  <2>6. CASE matches # {}
    <3>1. PICK i, call : /\ i = CHOOSE k \in matches : \A m \in matches : k <= m
                         /\ call = [top EXCEPT !.index = i]
      OBVIOUS
    <3>2. i \in top.index + 1..top.count - 1
      <4>1. matches \in SUBSET Nat
        BY <1>1, <2>4
      <4>2. i \in matches
        BY <2>6, <3>1, <4>1, LeastMatch, Zenon
      <4>3. QED
        BY <4>2
    <3>3. i \in 0..MAXSIZE /\ i + 1 \in 0..MAXSIZE
      BY <1>1, <2>4, <3>2
    <3>4. stack' = Append(rest, call) /\ mode' = "menu" /\ count' = i + 1
      BY <1>7, <2>1, <2>6, <3>1 DEF L!Return
    <3>5. call \in ListCall
      BY <2>3, <3>1, <3>3 DEF ListCall
    <3>6. stack' \in Seq(ListCall) /\ Len(stack') = Len(rest) + 1
      BY <2>3, <3>4, <3>5, OneCallMore
    <3>7. Len(stack') <= MaxDepth
      BY <1>1, <2>3, <3>6 DEF ListTypes
    <3>8. QED
      BY <2>2, <3>3, <3>4, <3>6, <3>7 DEF ListTypes
  <2>7. QED
    BY <2>5, <2>6
<1>8. CASE UNCHANGED listVars
  BY <1>8 DEF listVars, ListTypes
<1>9. QED
  BY <1>2, <1>3, <1>4, <1>5, <1>6, <1>7, <1>8 DEF L!Next

LEMMA ListTypesInit == ASSUME L!Init PROVE ListTypes
<1>1. MAXSIZE \in Nat /\ MaxDepth \in Nat
  BY ExercisesAssumption DEF ExercisesAssumption, L!PhoneListAssumption
<1>2. stack \in Seq(ListCall) /\ Len(stack) <= MaxDepth
  <2>1. stack = <<>>
    BY DEF L!Init
  <2>2. QED
    BY <1>1, <2>1
<1>3. count \in 0..MAXSIZE /\ ptr \in [0..MAXSIZE - 1 -> Numbers \cup {Garbage}]
  BY <1>1 DEF L!Init
<1>4. QED
  BY <1>2, <1>3 DEF L!Init, ListTypes

LEMMA ListTypeOK == ASSUME ListTypes PROVE L!TypeOK
<1>1. stack \in Seq(ListCall)
  BY DEF ListTypes
<1>2. \A d \in DOMAIN stack : stack[d] \in ListCall
  BY <1>1
<1>3. QED
  BY <1>2 DEF ListTypes, ListCall, L!TypeOK

NodeTypes ==
    /\ first \in Nodes \cup {NULL} /\ entered \in Numbers \cup {NULL}
    /\ first # NULL => entered \in Numbers

LEMMA NodeTypesStep ==
    ASSUME D!OneNode, NodeTypes, D!Next \/ UNCHANGED dynamicVars
    PROVE  NodeTypes'
<1>1. NULL \notin Nodes
  BY ExercisesAssumption DEF ExercisesAssumption, D!PhoneListDynamicAssumption
<1>2. ASSUME NEW number \in Numbers, D!addNode(number) PROVE NodeTypes'
  BY <1>1, <1>2 DEF D!addNode, D!memAlloc, NodeTypes
<1>3. ASSUME NEW rem \in 1..3, D!removeNode(rem) PROVE NodeTypes'
  <2>1. first # NULL /\ D!Node(rem) # NULL /\ entered' = NULL
        /\ first' = IF rem = 1 THEN heap[first].next ELSE first
    BY <1>3 DEF D!removeNode
  <2>2. heap[first].next = NULL
    BY <2>1 DEF D!OneNode
  <2>3. rem = 1
    BY <2>1, <2>2, ListOfOne
  <2>4. QED
    BY <2>1, <2>2, <2>3 DEF NodeTypes
<1>4. CASE UNCHANGED dynamicVars
  BY <1>4 DEF dynamicVars, NodeTypes
<1>5. QED
  BY <1>2, <1>3, <1>4 DEF D!Next

LEMMA NodeTypeOK == ASSUME D!OneNode, NodeTypes PROVE D!TypeOK
<1>1. DOMAIN heap \subseteq Nodes
  BY DEF D!OneNode, NodeTypes
<1>2. ASSUME NEW n \in DOMAIN heap
      PROVE  heap[n] \in [phoneNumb : Numbers, next : Nodes \cup {NULL}]
  <2>1. n = first /\ first # NULL
    BY <1>2 DEF D!OneNode
  <2>2. heap[n] = [phoneNumb |-> entered, next |-> NULL] /\ entered \in Numbers
    BY <2>1 DEF D!OneNode, NodeTypes
  <2>3. QED
    BY <2>2
<1>3. QED
  BY <1>1, <1>2 DEF NodeTypes, D!TypeOK

-----------------------------------------------------------------------------
(* TcpServers *)

(* How many connections accept has taken.                                   *)
TakenOf(some) == Cardinality({c \in TcpClients : some[c] = "taken"})

TcpTypes ==
    /\ kind \in {"multi", "proc", "threads"}
    /\ tcp_pc \in [N!Procs -> {"none", "accept", "add", "recv", "wait", "ended"}]
    /\ entries \in [N!Procs -> Nat]
    /\ freed \subseteq shut /\ shut \subseteq N!Procs
    /\ signals \in [N!Procs -> SUBSET {"INT", "TERM", "CHLD"}]
    /\ mayStop \in BOOLEAN
    /\ conn \in [TcpClients -> {"none", "queued", "taken", "reset"}]
    /\ clt \in [TcpClients -> {"off", "fork", "again", "ended", "spins"}]
    /\ kid \in [TcpClients -> {"none", "send", "ended", "reaped"}]

(* A client that was not started has no connection; who takes connections.  *)
Roles ==
    /\ \A c \in TcpClients : clt[c] = "off" => conn[c] = "none"
    /\ tcp_pc[Parent] = "add" => kind = "multi"
    /\ tcp_pc[Worker] = "accept" => kind = "proc"

(* No list has more entries than connections were taken, and that of multi's*)
(* parent has one for each, or is about to get the last one.                *)
ChildLists ==
    /\ \A p \in N!Procs : entries[p] <= TakenOf(conn)
    /\ kind = "multi" /\ N!Alive(Parent) =>
        entries[Parent] + (IF tcp_pc[Parent] = "add" THEN 1 ELSE 0) = TakenOf(conn)

TcpInv == TcpTypes /\ Roles /\ ChildLists

(* What the processes of each server do.  Only multi handles signals; proc's*)
(* parent ends when it is told to, or after its child.                      *)
Jobs ==
    /\ kind = "multi" =>
        /\ tcp_pc[Parent] \in {"accept", "add", "ended"}
        /\ \A c \in TcpClients : tcp_pc[c] \in {"none", "recv", "ended"}
    /\ kind = "threads" => tcp_pc[Parent] \in {"accept", "ended"}
    /\ kind = "proc" =>
        /\ tcp_pc[Parent] \in {"wait", "ended"} /\ tcp_pc[Worker] \in {"accept", "wait", "ended"}
        /\ ~mayStop => tcp_pc[Parent] = "ended"
        /\ mayStop /\ tcp_pc[Worker] # "ended" => tcp_pc[Parent] = "wait"
    /\ kind # "multi" =>
        /\ \A c \in TcpClients : tcp_pc[c] = "none"
        /\ \A p \in N!Procs : signals[p] = {}
    /\ kind # "proc" => tcp_pc[Worker] = "none"

LEMMA TcpConstants ==
    /\ IsFiniteSet(TcpClients) /\ N!Procs = {Parent, Worker} \cup TcpClients
    /\ Parent \notin TcpClients /\ Worker \notin TcpClients /\ Parent # Worker
<1>1. N!TcpServersAssumption
  BY ExercisesAssumption DEF ExercisesAssumption
<1>2. \A set : N!IsFiniteSet(set) => IsFiniteSet(set)
  BY DEF N!IsFiniteSet, IsFiniteSet
<1>3. QED
  BY <1>1, <1>2 DEF N!TcpServersAssumption, N!Procs

LEMMA TakenCounted ==
    ASSUME NEW some
    PROVE  /\ TakenOf(some) \in Nat /\ Cardinality(TcpClients) \in Nat
           /\ TakenOf(some) <= Cardinality(TcpClients)
<1>1. {c \in TcpClients : some[c] = "taken"} \subseteq TcpClients
  OBVIOUS
<1>2. QED
  BY <1>1, TcpConstants, FS_Subset, FS_CardinalityType DEF TakenOf

(* Another connection is taken, or none is.                                 *)
LEMMA OneTaken ==
    ASSUME NEW some \in [TcpClients -> {"none", "queued", "taken", "reset"}],
           NEW c \in TcpClients, some[c] # "taken"
    PROVE  /\ TakenOf([some EXCEPT ![c] = "taken"]) = TakenOf(some) + 1
           /\ \A x \in {"queued", "reset"} : TakenOf([some EXCEPT ![c] = x]) = TakenOf(some)
<1> DEFINE Ones(f) == {e \in TcpClients : f[e] = "taken"}
<1>1. Ones([some EXCEPT ![c] = "taken"]) = Ones(some) \cup {c} /\ c \notin Ones(some)
  OBVIOUS
<1>2. \A x \in {"queued", "reset"} : Ones([some EXCEPT ![c] = x]) = Ones(some)
  OBVIOUS
<1>3. Ones(some) \subseteq TcpClients
  OBVIOUS
<1>4. IsFiniteSet(Ones(some))
  BY <1>3, TcpConstants, FS_Subset
<1>5. \A f : TakenOf(f) = Cardinality(Ones(f))
  BY DEF TakenOf
<1> HIDE DEF Ones
<1>6. QED
  BY <1>1, <1>2, <1>4, <1>5, FS_AddElement

(* Processes end.                                                           *)
LEMMA EndedPc ==
    ASSUME TcpTypes, NEW gone, N!Ended(gone)
    PROVE  /\ tcp_pc' \in [N!Procs -> {"none", "accept", "add", "recv", "wait", "ended"}]
           /\ \A p \in N!Procs : tcp_pc'[p] \in {tcp_pc[p], "ended"}
           /\ \A p \in N!Procs : p \notin gone => tcp_pc'[p] = tcp_pc[p]
BY DEF N!Ended, TcpTypes

(* A step that takes no connection and adds no entry, after which only less *)
(* processes run.                                                           *)
LEMMA FewerProcesses ==
    ASSUME TcpInv, kind' = kind, entries' = entries,
           tcp_pc' \in [N!Procs -> {"none", "accept", "add", "recv", "wait", "ended"}],
           \A p \in N!Procs : tcp_pc'[p] \in {tcp_pc[p], "ended"},
           TakenOf(conn') >= TakenOf(conn),
           TakenOf(conn') = TakenOf(conn) \/ kind # "multi",
           \A c \in TcpClients : clt'[c] = "off" => conn'[c] = "none"
    PROVE  Roles' /\ ChildLists'
<1>1. Parent \in N!Procs /\ Worker \in N!Procs
  BY TcpConstants
<1>2. Roles'
  BY <1>1 DEF TcpInv, Roles
<1>3. \A p \in N!Procs : entries'[p] <= TakenOf(conn')
  BY TakenCounted DEF TcpInv, TcpTypes, ChildLists
<1>4. ASSUME kind = "multi", tcp_pc'[Parent] \notin {"none", "ended"}
      PROVE  entries[Parent] + (IF tcp_pc'[Parent] = "add" THEN 1 ELSE 0) = TakenOf(conn')
  <2>1. tcp_pc'[Parent] = tcp_pc[Parent] /\ TakenOf(conn') = TakenOf(conn)
    BY <1>1, <1>4
  <2>2. QED
    BY <1>4, <2>1 DEF TcpInv, ChildLists, N!Alive
<1>5. QED
  BY <1>2, <1>3, <1>4 DEF ChildLists, N!Alive

LEMMA TcpStep == ASSUME TcpInv, N!Next \/ UNCHANGED tcpVars PROVE TcpInv'
<1>1. TcpTypes /\ Roles /\ ChildLists
  BY DEF TcpInv
<1>2. /\ Parent \in N!Procs /\ Worker \in N!Procs /\ TcpClients \subseteq N!Procs
      /\ Parent \notin TcpClients /\ Worker \notin TcpClients /\ Parent # Worker
  BY TcpConstants
<1>3. /\ TakenOf(conn) \in Nat /\ conn \in [TcpClients -> {"none", "queued", "taken", "reset"}]
      /\ tcp_pc \in [N!Procs -> {"none", "accept", "add", "recv", "wait", "ended"}]
      /\ entries \in [N!Procs -> Nat]
  BY <1>1, TakenCounted DEF TcpTypes
<1>4. \A p \in N!Procs : tcp_pc[p] \in {tcp_pc[p], "ended"}
  OBVIOUS
<1>5. ASSUME NEW c \in TcpClients, N!Reset(c) PROVE TcpInv'
  <2>1. /\ conn[c] = "queued" /\ conn' = [conn EXCEPT ![c] = "reset"]
        /\ UNCHANGED <<kind, tcp_pc, entries, freed, shut, signals, mayStop, clt, kid>>
    BY <1>5 DEF N!Reset, N!serverVars, N!clientVars
  <2>2. TakenOf(conn') = TakenOf(conn)
    BY <1>3, <2>1, OneTaken
  <2>3. \A e \in TcpClients : clt'[e] = "off" => conn'[e] = "none"
    BY <1>1, <1>3, <2>1 DEF Roles
  <2>4. TcpTypes'
    BY <1>1, <2>1 DEF TcpTypes
  <2>5. Roles' /\ ChildLists'
    BY <1>3, <1>4, <2>1, <2>2, <2>3, FewerProcesses
  <2>6. QED
    BY <2>4, <2>5 DEF TcpInv
<1>6. ASSUME NEW c \in TcpClients, N!MultiFork(c) PROVE TcpInv'
  <2>1. /\ kind = "multi" /\ tcp_pc[Parent] = "accept" /\ conn[c] = "queued"
        /\ conn' = [conn EXCEPT ![c] = "taken"]
        /\ tcp_pc' = [tcp_pc EXCEPT ![Parent] = "add", ![c] = "recv"]
        /\ entries' = [entries EXCEPT ![c] = entries[Parent]]
        /\ UNCHANGED <<kind, freed, shut, signals, mayStop, clt, kid>>
    BY <1>6 DEF N!MultiFork, N!Accept, N!clientVars
  <2>2. TakenOf(conn') = TakenOf(conn) + 1
    BY <1>3, <2>1, OneTaken
  <2>3. entries[Parent] = TakenOf(conn)
    BY <1>1, <1>2, <1>3, <2>1 DEF ChildLists, N!Alive
  <2>4. /\ tcp_pc'[Parent] = "add" /\ tcp_pc'[Worker] = tcp_pc[Worker]
        /\ tcp_pc' \in [N!Procs -> {"none", "accept", "add", "recv", "wait", "ended"}]
    BY <1>2, <1>3, <2>1
  <2>5. /\ entries' \in [N!Procs -> Nat] /\ entries'[Parent] = entries[Parent]
        /\ \A p \in N!Procs : entries'[p] \in {entries[p], entries[Parent]}
    BY <1>2, <1>3, <2>1
  <2>6. conn' \in [TcpClients -> {"none", "queued", "taken", "reset"}]
    BY <1>3, <2>1
  <2>7. TcpTypes'
    BY <1>1, <2>1, <2>4, <2>5, <2>6 DEF TcpTypes
  <2>8. Roles'
    BY <1>1, <1>3, <2>1, <2>4 DEF Roles
  <2>9. ChildLists'
    <3>1. \A p \in N!Procs : entries'[p] <= TakenOf(conn')
      BY <1>1, <1>2, <1>3, <2>2, <2>5 DEF ChildLists
    <3>2. entries'[Parent] + 1 = TakenOf(conn')
      BY <2>2, <2>3, <2>5
    <3>3. QED
      BY <2>4, <3>1, <3>2 DEF ChildLists
  <2>10. QED
    BY <2>7, <2>8, <2>9 DEF TcpInv
<1>7. CASE N!MultiAdd
  <2>1. /\ tcp_pc[Parent] = "add" /\ entries' = [entries EXCEPT ![Parent] = @ + 1]
        /\ tcp_pc' = [tcp_pc EXCEPT ![Parent] = "accept"]
        /\ UNCHANGED <<kind, freed, shut, signals, mayStop, conn, clt, kid>>
    BY <1>7 DEF N!MultiAdd, N!clientVars
  <2>2. kind = "multi" /\ entries[Parent] + 1 = TakenOf(conn)
    BY <1>1, <2>1 DEF Roles, ChildLists, N!Alive
  <2>3. /\ tcp_pc'[Parent] = "accept" /\ tcp_pc'[Worker] = tcp_pc[Worker]
        /\ tcp_pc' \in [N!Procs -> {"none", "accept", "add", "recv", "wait", "ended"}]
    BY <1>2, <1>3, <2>1
  <2>4. /\ entries' \in [N!Procs -> Nat] /\ entries'[Parent] = entries[Parent] + 1
        /\ \A p \in N!Procs : p # Parent => entries'[p] = entries[p]
    BY <1>2, <1>3, <2>1
  <2>5. TcpTypes'
    BY <1>1, <2>1, <2>3, <2>4 DEF TcpTypes
  <2>6. Roles'
    BY <1>1, <2>1, <2>3 DEF Roles
  <2>7. ChildLists'
    <3>1. ASSUME NEW p \in N!Procs PROVE entries'[p] <= TakenOf(conn)
      BY <1>1, <1>2, <1>3, <2>2, <2>4 DEF ChildLists
    <3>2. entries'[Parent] + 0 = TakenOf(conn)
      BY <1>3, <2>2, <2>4
    <3>3. QED
      BY <2>1, <2>3, <3>1, <3>2 DEF ChildLists
  <2>8. QED
    BY <2>5, <2>6, <2>7 DEF TcpInv
<1>8. ASSUME NEW gone, N!Ended(gone), TakenOf(conn') >= TakenOf(conn),
             TakenOf(conn') = TakenOf(conn) \/ kind # "multi",
             \A c \in TcpClients : clt'[c] = "off" => conn'[c] = "none",
             kind' = kind, entries' = entries, mayStop' \in BOOLEAN,
             freed' \subseteq shut', shut' \subseteq N!Procs,
             signals' \in [N!Procs -> SUBSET {"INT", "TERM", "CHLD"}],
             conn' \in [TcpClients -> {"none", "queued", "taken", "reset"}],
             UNCHANGED <<clt, kid>>
      PROVE  TcpInv'
  <2>1. /\ tcp_pc' \in [N!Procs -> {"none", "accept", "add", "recv", "wait", "ended"}]
        /\ \A p \in N!Procs : tcp_pc'[p] \in {tcp_pc[p], "ended"}
    BY <1>1, <1>8, EndedPc
  <2>2. TcpTypes'
    BY <1>1, <1>8, <2>1 DEF TcpTypes
  <2>3. Roles' /\ ChildLists'
    BY <1>8, <2>1, FewerProcesses
  <2>4. QED
    BY <2>2, <2>3 DEF TcpInv
<1>9. /\ \A c \in TcpClients : clt[c] = "off" => conn[c] = "none"
      /\ freed \subseteq shut /\ shut \subseteq N!Procs /\ mayStop \in BOOLEAN
      /\ signals \in [N!Procs -> SUBSET {"INT", "TERM", "CHLD"}]
      /\ TakenOf(conn) >= TakenOf(conn)
  BY <1>1, <1>3 DEF Roles, TcpTypes
<1>10. ASSUME NEW c \in TcpClients, N!MultiExit(c) PROVE TcpInv'
  <2>1. /\ N!Ended({c}) /\ signals' = [signals EXCEPT ![Parent] = @ \cup {"CHLD"}]
        /\ UNCHANGED <<kind, entries, freed, shut, mayStop, conn, clt, kid>>
    BY <1>10 DEF N!MultiExit, N!clientVars
  <2>2. signals' \in [N!Procs -> SUBSET {"INT", "TERM", "CHLD"}]
    BY <1>2, <1>9, <2>1
  <2>3. QED
    BY <1>3, <1>8, <1>9, <2>1, <2>2
<1>11. CASE N!mark_proc_ended
  <2>1. /\ N!Ended({Parent}) /\ signals' = [signals EXCEPT ![Parent] = {}]
        /\ UNCHANGED <<kind, entries, freed, shut, mayStop, conn, clt, kid>>
    BY <1>11 DEF N!mark_proc_ended, N!clientVars
  <2>2. signals' \in [N!Procs -> SUBSET {"INT", "TERM", "CHLD"}]
    BY <1>9, <2>1
  <2>3. QED
    BY <1>3, <1>8, <1>9, <2>1, <2>2
<1>12. ASSUME NEW p \in N!Procs, N!svrmulti_exit(p) PROVE TcpInv'
  <2>1. UNCHANGED <<kind, entries, mayStop, conn, clt, kid>>
    BY <1>12 DEF N!svrmulti_exit, N!clientVars
  <2>2. PICK s \in signals[p] \ {"CHLD"} :
          LET dies == p = Parent \/ entries[p] > 0 \/ p \in freed
              hit == IF p \in freed THEN {} ELSE N!Killed(p)
          IN  /\ IF dies THEN N!Ended({p}) /\ UNCHANGED <<freed, shut>>
                 ELSE /\ shut' = shut \cup {p}
                      /\ freed' = IF s = "TERM" THEN N!svrmulti_rmlist(p) ELSE freed
                      /\ UNCHANGED tcp_pc
              /\ signals' = [q \in N!Procs |->
                      IF q = p THEN IF dies THEN {} ELSE signals[p] \ {s}
                      ELSE (IF q \in hit THEN signals[q] \cup {"TERM"} ELSE signals[q])
                           \cup (IF q = Parent /\ dies THEN {"CHLD"} ELSE {})]
    BY <1>12 DEF N!svrmulti_exit
  <2>3. signals' \in [N!Procs -> SUBSET {"INT", "TERM", "CHLD"}]
    <3>1. \A q \in N!Procs : signals'[q] \subseteq signals[q] \cup signals[p] \cup {"TERM", "CHLD"}
      BY <2>2
    <3>2. \A q \in N!Procs : signals[q] \subseteq {"INT", "TERM", "CHLD"}
      BY <1>9
    <3>3. \A q \in N!Procs : signals'[q] \subseteq {"INT", "TERM", "CHLD"}
      BY <3>1, <3>2
    <3>4. signals' = [q \in N!Procs |-> signals'[q]]
      BY <2>2
    <3>5. QED
      BY <3>3, <3>4
  <2>4. CASE N!Ended({p}) /\ UNCHANGED <<freed, shut>>
    BY <1>3, <1>8, <1>9, <2>1, <2>3, <2>4
  <2>5. CASE /\ shut' = shut \cup {p} /\ freed' \in {freed, N!svrmulti_rmlist(p)}
             /\ UNCHANGED tcp_pc
    <3>1. freed' \subseteq shut' /\ shut' \subseteq N!Procs
      BY <1>9, <2>5 DEF N!svrmulti_rmlist
    <3>2. TcpTypes'
      BY <1>1, <2>1, <2>3, <2>5, <3>1 DEF TcpTypes
    <3>3. Roles' /\ ChildLists'
      BY <1>3, <1>4, <1>9, <2>1, <2>5, FewerProcesses
    <3>4. QED
      BY <3>2, <3>3 DEF TcpInv
  <2>6. QED
    BY <2>2, <2>4, <2>5
<1>13. ASSUME NEW c \in TcpClients, N!ProcTake(c) PROVE TcpInv'
  <2>1. /\ tcp_pc[Worker] = "accept" /\ conn[c] = "queued"
        /\ conn' = [conn EXCEPT ![c] = "taken"] /\ tcp_pc' = [tcp_pc EXCEPT ![Worker] = "wait"]
        /\ UNCHANGED <<kind, entries, freed, shut, signals, mayStop, clt, kid>>
    BY <1>13 DEF N!ProcTake, N!Accept, N!clientVars
  <2>2. kind = "proc" /\ TakenOf(conn') = TakenOf(conn) + 1
    BY <1>1, <1>3, <2>1, OneTaken DEF Roles
  <2>3. /\ tcp_pc' \in [N!Procs -> {"none", "accept", "add", "recv", "wait", "ended"}]
        /\ tcp_pc'[Parent] = tcp_pc[Parent]
    BY <1>2, <1>3, <2>1
  <2>4. conn' \in [TcpClients -> {"none", "queued", "taken", "reset"}]
    BY <1>3, <2>1
  <2>5. TcpTypes'
    BY <1>1, <2>1, <2>3, <2>4 DEF TcpTypes
  <2>6. Roles'
    BY <1>1, <1>3, <2>1, <2>2, <2>3 DEF Roles
  <2>7. ChildLists'
    BY <1>1, <1>3, <2>1, <2>2 DEF ChildLists
  <2>8. QED
    BY <2>5, <2>6, <2>7 DEF TcpInv
<1>14. ASSUME NEW p \in N!Procs, N!ProcWait(p) PROVE TcpInv'
  <2>1. N!Ended({p}) /\ UNCHANGED <<kind, entries, freed, shut, signals, mayStop, conn, clt, kid>>
    BY <1>14 DEF N!ProcWait, N!clientVars
  <2>2. QED
    BY <1>3, <1>8, <1>9, <2>1
<1>15. ASSUME NEW c \in TcpClients, N!ThreadsExit(c) PROVE TcpInv'
  <2>1. /\ kind = "threads" /\ conn[c] = "queued" /\ conn' = [conn EXCEPT ![c] = "taken"]
        /\ N!Ended({Parent}) /\ UNCHANGED <<kind, entries, freed, shut, signals, mayStop, clt, kid>>
    BY <1>15 DEF N!ThreadsExit, N!Accept, N!clientVars
  <2>2. TakenOf(conn') = TakenOf(conn) + 1 /\ TakenOf(conn') >= TakenOf(conn)
    <3>1. TakenOf(conn') = TakenOf(conn) + 1
      BY <1>3, <2>1, OneTaken
    <3>2. QED
      BY <1>3, <3>1
  <2>3. /\ conn' \in [TcpClients -> {"none", "queued", "taken", "reset"}]
        /\ \A e \in TcpClients : clt'[e] = "off" => conn'[e] = "none"
    BY <1>3, <1>9, <2>1
  <2>4. QED
    BY <1>8, <1>9, <2>1, <2>2, <2>3
<1>16. ASSUME NEW s \in {"INT", "TERM"}, N!Stop(s) PROVE TcpInv'
  <2>1. mayStop' = FALSE /\ UNCHANGED <<kind, entries, freed, shut, conn, clt, kid>>
    BY <1>16 DEF N!Stop, N!clientVars
  <2>2. PICK told :
          CASE kind = "multi" ->
                  /\ signals' = [p \in N!Procs |->
                          IF p \in told THEN signals[p] \cup {s} ELSE signals[p]]
                  /\ UNCHANGED tcp_pc
            [] kind = "proc" -> N!Ended(told) /\ UNCHANGED signals
            [] OTHER -> UNCHANGED <<tcp_pc, signals>>
    BY <1>16 DEF N!Stop
  <2>3. \/ /\ signals' = [p \in N!Procs |-> IF p \in told THEN signals[p] \cup {s} ELSE signals[p]]
           /\ UNCHANGED tcp_pc
        \/ N!Ended(told) /\ UNCHANGED signals
        \/ UNCHANGED <<tcp_pc, signals>>
    BY <2>2
  <2>4. CASE N!Ended(told) /\ UNCHANGED signals
    BY <1>3, <1>8, <1>9, <2>1, <2>4
  <2>5. CASE /\ \/ signals' = [p \in N!Procs |-> IF p \in told THEN signals[p] \cup {s} ELSE signals[p]]
                \/ signals' = signals
             /\ UNCHANGED tcp_pc
    <3>1. signals' \in [N!Procs -> SUBSET {"INT", "TERM", "CHLD"}]
      BY <1>9, <2>5
    <3>2. TcpTypes'
      BY <1>1, <2>1, <2>5, <3>1 DEF TcpTypes
    <3>3. Roles' /\ ChildLists'
      BY <1>3, <1>4, <1>9, <2>1, <2>5, FewerProcesses
    <3>4. QED
      BY <3>2, <3>3 DEF TcpInv
  <2>6. QED
    BY <2>3, <2>4, <2>5
<1>17. ASSUME NEW c \in TcpClients,
              N!Connect(c) \/ N!client_exit(c) \/ N!ClientFork(c) \/ N!ConnectAgain(c) \/ N!Say(c)
                  \/ N!client_child(c)
       PROVE  TcpInv'
  <2>1. /\ UNCHANGED <<kind, tcp_pc, entries, freed, shut, signals, mayStop>>
        /\ \/ conn' = conn /\ \/ clt' = clt
                              \/ \E x \in {"fork", "again", "ended", "spins"} : clt' = [clt EXCEPT ![c] = x]
           \/ /\ clt[c] = "off" /\ conn' = [conn EXCEPT ![c] = "queued"]
              /\ clt' = [clt EXCEPT ![c] = "fork"]
        /\ \/ kid' = kid
           \/ \E x \in {"send", "ended", "reaped"} : kid' = [kid EXCEPT ![c] = x]
    BY <1>17 DEF N!Connect, N!client_exit, N!client_rmlist, N!ClientFork, N!ConnectAgain, N!Say,
       N!client_child, N!serverVars
  <2>2. /\ clt \in [TcpClients -> {"off", "fork", "again", "ended", "spins"}]
        /\ kid \in [TcpClients -> {"none", "send", "ended", "reaped"}]
    BY <1>1 DEF TcpTypes
  <2>3. /\ clt' \in [TcpClients -> {"off", "fork", "again", "ended", "spins"}]
        /\ conn' \in [TcpClients -> {"none", "queued", "taken", "reset"}]
        /\ \A e \in TcpClients : clt'[e] = "off" => conn'[e] = "none"
    BY <1>3, <1>9, <2>1, <2>2
  <2>4. kid' \in [TcpClients -> {"none", "send", "ended", "reaped"}]
    BY <2>1, <2>2
  <2>5. TakenOf(conn') = TakenOf(conn)
    <3>1. CASE conn' = conn
      BY <3>1
    <3>2. CASE clt[c] = "off" /\ conn' = [conn EXCEPT ![c] = "queued"]
      BY <1>3, <1>9, <3>2, OneTaken
    <3>3. QED
      BY <2>1, <3>1, <3>2
  <2>6. TcpTypes'
    BY <1>1, <2>1, <2>3, <2>4 DEF TcpTypes
  <2>7. Roles' /\ ChildLists'
    BY <1>3, <1>4, <2>1, <2>3, <2>5, FewerProcesses
  <2>8. QED
    BY <2>6, <2>7 DEF TcpInv
<1>18. CASE UNCHANGED tcpVars
  <2>1. UNCHANGED <<kind, tcp_pc, entries, freed, shut, signals, mayStop, conn, clt, kid>>
    BY <1>18 DEF tcpVars
  <2>2. QED
    BY <1>1, <2>1 DEF TcpInv, TcpTypes, Roles, ChildLists, N!Alive
<1>19. QED
  BY <1>5, <1>6, <1>7, <1>10, <1>11, <1>12, <1>13, <1>14, <1>15, <1>16, <1>17, <1>18
     DEF N!Next, N!Progress

LEMMA TcpInit == ASSUME N!Init PROVE TcpInv
<1>1. /\ Parent \in N!Procs /\ Worker \in N!Procs /\ Parent # Worker
  BY TcpConstants
<1>2. TcpTypes
  BY DEF N!Init, TcpTypes
<1>3. tcp_pc[Parent] \in {"wait", "accept"} /\ (tcp_pc[Worker] = "accept" => kind = "proc")
  BY <1>1 DEF N!Init
<1>4. Roles
  BY <1>3 DEF N!Init, Roles
<1>5. TakenOf(conn) = 0
  <2>1. {c \in TcpClients : conn[c] = "taken"} = {}
    BY DEF N!Init
  <2>2. QED
    BY <2>1, FS_EmptySet DEF TakenOf
<1>6. \A p \in N!Procs : entries[p] = 0
  BY DEF N!Init
<1>7. ChildLists
  BY <1>1, <1>3, <1>5, <1>6 DEF ChildLists
<1>8. QED
  BY <1>2, <1>4, <1>7 DEF TcpInv

LEMMA TcpTypeOK ==
    ASSUME TcpInv
    PROVE  /\ N!TypeOK
           /\ kind = "multi" /\ N!Alive(Parent) =>
                entries[Parent] + (IF tcp_pc[Parent] = "add" THEN 1 ELSE 0)
                    = Cardinality({c \in TcpClients : conn[c] = "taken"})
<1>1. N!Cardinality(TcpClients) = Cardinality(TcpClients)
  BY DEF N!Cardinality, Cardinality
<1>2. entries \in [N!Procs -> 0..Cardinality(TcpClients)]
  <2>1. /\ entries \in [N!Procs -> Nat] /\ \A p \in N!Procs : entries[p] <= TakenOf(conn)
        /\ TakenOf(conn) \in Nat /\ Cardinality(TcpClients) \in Nat
        /\ TakenOf(conn) <= Cardinality(TcpClients)
    BY TakenCounted DEF TcpInv, TcpTypes, ChildLists
  <2>2. \A p \in N!Procs : entries[p] \in 0..Cardinality(TcpClients)
    BY <2>1
  <2>3. QED
    BY <2>1, <2>2
<1>3. N!TypeOK
  BY <1>1, <1>2 DEF TcpInv, TcpTypes, N!TypeOK
<1>4. QED
  BY <1>3 DEF TcpInv, ChildLists, TakenOf

(* A step of one process; the others stay as they are.                      *)
LEMMA OneEnds ==
    ASSUME NEW p \in N!Procs, N!Ended({p})
    PROVE  /\ \A q \in N!Procs : q # p => tcp_pc'[q] = tcp_pc[q]
           /\ tcp_pc'[p] = IF N!Alive(p) THEN "ended" ELSE tcp_pc[p]
BY DEF N!Ended

LEMMA JobsStep == ASSUME TcpInv, Jobs, N!Next \/ UNCHANGED tcpVars PROVE Jobs'
<1>1. /\ Parent \in N!Procs /\ Worker \in N!Procs /\ TcpClients \subseteq N!Procs
      /\ Parent \notin TcpClients /\ Worker \notin TcpClients /\ Parent # Worker
  BY TcpConstants
<1>2. /\ kind \in {"multi", "proc", "threads"} /\ mayStop \in BOOLEAN
      /\ tcp_pc \in [N!Procs -> {"none", "accept", "add", "recv", "wait", "ended"}]
      /\ signals \in [N!Procs -> SUBSET {"INT", "TERM", "CHLD"}]
  BY DEF TcpInv, TcpTypes
<1>3. ASSUME UNCHANGED <<kind, tcp_pc, signals, mayStop>> PROVE Jobs'
  BY <1>3 DEF Jobs
<1>4. ASSUME NEW c \in TcpClients,
             N!Reset(c) \/ N!ClientFork(c) \/ N!ConnectAgain(c) \/ N!Say(c) \/ N!client_child(c)
                 \/ N!Connect(c) \/ N!client_exit(c)
      PROVE  Jobs'
  BY <1>3, <1>4 DEF N!Reset, N!ClientFork, N!ConnectAgain, N!Say, N!client_child, N!Connect,
     N!client_exit, N!serverVars, N!clientVars
<1>5. ASSUME NEW c \in TcpClients, N!MultiFork(c) PROVE Jobs'
  <2>1. /\ kind = "multi" /\ UNCHANGED <<kind, signals, mayStop>>
        /\ tcp_pc' = [tcp_pc EXCEPT ![Parent] = "add", ![c] = "recv"]
    BY <1>5 DEF N!MultiFork
  <2>2. /\ tcp_pc'[Parent] = "add" /\ tcp_pc'[Worker] = tcp_pc[Worker]
        /\ \A e \in TcpClients : tcp_pc'[e] \in {tcp_pc[e], "recv"}
    BY <1>1, <1>2, <2>1
  <2>3. QED
    BY <2>1, <2>2 DEF Jobs
<1>6. CASE N!MultiAdd
  <2>1. /\ tcp_pc[Parent] = "add" /\ UNCHANGED <<kind, signals, mayStop>>
        /\ tcp_pc' = [tcp_pc EXCEPT ![Parent] = "accept"]
    BY <1>6 DEF N!MultiAdd
  <2>2. /\ tcp_pc'[Parent] = "accept" /\ tcp_pc'[Worker] = tcp_pc[Worker]
        /\ \A e \in TcpClients : tcp_pc'[e] = tcp_pc[e]
    BY <1>1, <1>2, <2>1
  <2>3. kind = "multi"
    BY <1>2, <2>1 DEF Jobs
  <2>4. QED
    BY <2>1, <2>2, <2>3 DEF Jobs
\* Of multi's processes some end, and signals are sent.
<1>7. ASSUME kind = "multi", kind' = kind, NEW p \in N!Procs, N!Ended({p}) \/ tcp_pc' = tcp_pc
      PROVE  Jobs'
  <2>1. \A q \in N!Procs :
            tcp_pc'[q] = tcp_pc[q] \/ (tcp_pc[q] \notin {"none", "ended"} /\ tcp_pc'[q] = "ended")
    BY <1>7, OneEnds DEF N!Alive
  <2>2. tcp_pc'[Worker] = "none"
    BY <1>1, <1>7, <2>1 DEF Jobs
  <2>3. tcp_pc'[Parent] \in {"accept", "add", "ended"}
    BY <1>1, <1>7, <2>1 DEF Jobs
  <2>4. \A e \in TcpClients : tcp_pc'[e] \in {"none", "recv", "ended"}
    BY <1>1, <1>7, <2>1 DEF Jobs
  <2>5. QED
    BY <1>7, <2>2, <2>3, <2>4 DEF Jobs
<1>8. ASSUME NEW c \in TcpClients, N!MultiExit(c) PROVE Jobs'
  <2>1. tcp_pc[c] = "recv" /\ N!Ended({c}) /\ kind' = kind
    BY <1>8 DEF N!MultiExit
  <2>2. kind = "multi"
    BY <2>1 DEF Jobs
  <2>3. QED
    BY <1>1, <1>7, <2>1, <2>2
<1>9. CASE N!mark_proc_ended
  <2>1. "CHLD" \in signals[Parent] /\ N!Ended({Parent}) /\ kind' = kind
    BY <1>9 DEF N!mark_proc_ended
  <2>2. kind = "multi"
    BY <1>1, <2>1 DEF Jobs
  <2>3. QED
    BY <1>1, <1>7, <2>1, <2>2
<1>10. ASSUME NEW p \in N!Procs, N!svrmulti_exit(p) PROVE Jobs'
  <2>1. signals[p] # {} /\ kind' = kind /\ (N!Ended({p}) \/ tcp_pc' = tcp_pc)
    BY <1>10 DEF N!svrmulti_exit
  <2>2. kind = "multi"
    BY <2>1 DEF Jobs
  <2>3. QED
    BY <1>7, <2>1, <2>2
<1>11. ASSUME NEW c \in TcpClients, N!ProcTake(c) PROVE Jobs'
  <2>1. /\ tcp_pc[Worker] = "accept" /\ UNCHANGED <<kind, signals, mayStop>>
        /\ tcp_pc' = [tcp_pc EXCEPT ![Worker] = "wait"]
    BY <1>11 DEF N!ProcTake
  <2>2. /\ tcp_pc'[Worker] = "wait" /\ tcp_pc'[Parent] = tcp_pc[Parent]
        /\ \A e \in TcpClients : tcp_pc'[e] = tcp_pc[e]
    BY <1>1, <1>2, <2>1
  <2>3. kind = "proc"
    BY <2>1 DEF Jobs
  <2>4. QED
    BY <2>1, <2>2, <2>3 DEF Jobs
<1>12. ASSUME NEW p \in N!Procs, N!ProcWait(p) PROVE Jobs'
  <2>1. /\ kind = "proc" /\ tcp_pc[p] = "wait" /\ (p = Parent => tcp_pc[Worker] = "ended")
        /\ N!Ended({p}) /\ UNCHANGED <<kind, signals, mayStop>>
    BY <1>12 DEF N!ProcWait
  <2>2. /\ \A q \in N!Procs : q # p => tcp_pc'[q] = tcp_pc[q]
        /\ tcp_pc'[p] = "ended"
    BY <2>1, OneEnds DEF N!Alive
  <2>3. p \in {Parent, Worker}
    BY <2>1, TcpConstants DEF Jobs
  <2>4. \A e \in TcpClients : tcp_pc'[e] = "none"
    BY <1>1, <2>1, <2>2, <2>3 DEF Jobs
  <2>5. CASE p = Parent
    <3>1. tcp_pc'[Parent] = "ended" /\ tcp_pc'[Worker] = "ended"
      BY <1>1, <2>1, <2>2, <2>5
    <3>2. QED
      BY <2>1, <2>4, <3>1 DEF Jobs
  <2>6. CASE p = Worker
    <3>1. tcp_pc'[Worker] = "ended" /\ tcp_pc'[Parent] = tcp_pc[Parent]
      BY <1>1, <2>2, <2>6
    <3>2. QED
      BY <2>1, <2>4, <3>1 DEF Jobs
  <2>7. QED
    BY <2>3, <2>5, <2>6
<1>13. ASSUME NEW c \in TcpClients, N!ThreadsExit(c) PROVE Jobs'
  <2>1. kind = "threads" /\ N!Ended({Parent}) /\ UNCHANGED <<kind, signals, mayStop>>
    BY <1>13 DEF N!ThreadsExit
  <2>2. /\ tcp_pc'[Parent] \in {tcp_pc[Parent], "ended"}
        /\ tcp_pc'[Worker] = tcp_pc[Worker]
        /\ \A e \in TcpClients : tcp_pc'[e] = tcp_pc[e]
    BY <1>1, <2>1, OneEnds
  <2>3. QED
    BY <2>1, <2>2 DEF Jobs
<1>14. ASSUME NEW s \in {"INT", "TERM"}, N!Stop(s) PROVE Jobs'
  <2>1. mayStop /\ mayStop' = FALSE /\ kind' = kind
    BY <1>14 DEF N!Stop
  <2>2. CASE kind = "multi"
    <3>1. tcp_pc' = tcp_pc
      BY <1>14, <2>2 DEF N!Stop
    <3>2. QED
      BY <1>1, <1>7, <2>1, <2>2, <3>1
  <2>3. CASE kind = "proc"
    <3>1. /\ signals' = signals
          /\ N!Ended({p \in N!Procs : N!Alive(p) /\ (s = "INT" \/ p = Parent)})
      BY <1>14, <2>3 DEF N!Stop
    <3>2. \A q \in N!Procs :
            tcp_pc'[q] = IF N!Alive(q) /\ (s = "INT" \/ q = Parent) THEN "ended" ELSE tcp_pc[q]
      BY <3>1 DEF N!Ended
    <3>3. tcp_pc'[Parent] = "ended"
      BY <1>1, <2>3, <3>2 DEF Jobs, N!Alive
    <3>4. tcp_pc'[Worker] \in {"accept", "wait", "ended"}
      BY <1>1, <2>3, <3>2 DEF Jobs
    <3>5. \A e \in TcpClients : tcp_pc'[e] = "none"
      BY <1>1, <2>3, <3>2 DEF Jobs, N!Alive
    <3>6. QED
      BY <2>1, <2>3, <3>1, <3>3, <3>4, <3>5 DEF Jobs
  <2>4. CASE kind = "threads"
    <3>1. UNCHANGED <<tcp_pc, signals>>
      BY <1>14, <2>4 DEF N!Stop
    <3>2. QED
      BY <2>1, <2>4, <3>1 DEF Jobs
  <2>5. QED
    BY <1>2, <2>2, <2>3, <2>4
<1>15. CASE UNCHANGED tcpVars
  BY <1>3, <1>15 DEF tcpVars
<1>16. QED
  BY <1>4, <1>5, <1>6, <1>8, <1>9, <1>10, <1>11, <1>12, <1>13, <1>14, <1>15
     DEF N!Next, N!Progress

LEMMA JobsInit == ASSUME N!Init PROVE Jobs
<1>1. /\ Parent \in N!Procs /\ Worker \in N!Procs /\ TcpClients \subseteq N!Procs
      /\ Parent \notin TcpClients /\ Worker \notin TcpClients /\ Parent # Worker
  BY TcpConstants
<1>2. /\ tcp_pc[Parent] = IF kind = "proc" THEN "wait" ELSE "accept"
      /\ tcp_pc[Worker] = IF kind = "proc" THEN "accept" ELSE "none"
      /\ \A c \in TcpClients : tcp_pc[c] = "none"
  BY <1>1 DEF N!Init
<1>3. mayStop /\ \A p \in N!Procs : signals[p] = {}
  BY DEF N!Init
<1>4. QED
  BY <1>2, <1>3 DEF Jobs

(* When nothing moves, nobody waits for anything that could come.           *)
LEMMA StillAtRest == ASSUME TcpInv, Jobs, N!Still PROVE N!AtRest
<1>1. /\ Parent \in N!Procs /\ Worker \in N!Procs /\ N!Procs = {Parent, Worker} \cup TcpClients
  BY TcpConstants
<1>2. /\ kind \in {"multi", "proc", "threads"}
      /\ clt \in [TcpClients -> {"off", "fork", "again", "ended", "spins"}]
  BY DEF TcpInv, TcpTypes
<1>3. /\ \A c \in TcpClients :
            /\ conn[c] = "queued" =>
                N!Listening /\ tcp_pc[Worker] # "accept" /\ (kind = "proc" \/ tcp_pc[Parent] # "accept")
            /\ tcp_pc[c] # "recv" /\ clt[c] \notin {"fork", "again"} /\ kid[c] # "send"
      /\ tcp_pc[Parent] # "add"
      /\ kind = "proc" => \A p \in N!Procs : tcp_pc[p] = "wait" => p = Parent /\ tcp_pc[Worker] # "ended"
  BY DEF N!Still
<1>4. \A c \in TcpClients : ~N!Alive(c)
  BY <1>2, <1>3 DEF Jobs, N!Alive
<1>5. CASE kind # "proc"
  <2>1. ~N!Alive(Worker) /\ (tcp_pc[Parent] = "accept" \/ ~N!Alive(Parent))
    BY <1>2, <1>3, <1>5 DEF Jobs, N!Alive
  <2>2. ASSUME NEW c \in TcpClients, conn[c] = "queued" PROVE FALSE
    BY <1>1, <1>3, <1>4, <1>5, <2>1, <2>2 DEF N!Listening
  <2>3. QED
    BY <1>1, <1>2, <1>3, <1>4, <2>1, <2>2 DEF N!AtRest
<1>6. CASE kind = "proc"
  <2>1. tcp_pc[Worker] \in {"accept", "ended"}
    BY <1>1, <1>3, <1>6, TcpConstants DEF Jobs
  <2>2. CASE tcp_pc[Worker] = "ended"
    <3>1. ~N!Alive(Worker) /\ ~N!Alive(Parent)
      BY <1>1, <1>3, <1>6, <2>2 DEF Jobs, N!Alive
    <3>2. \A p \in N!Procs : ~N!Alive(p)
      BY <1>1, <1>4, <3>1
    <3>3. \A c \in TcpClients : conn[c] # "queued"
      BY <1>3, <3>2 DEF N!Listening
    <3>4. QED
      BY <1>2, <1>3, <3>2, <3>3 DEF N!AtRest
  <2>3. CASE tcp_pc[Worker] = "accept"
    <3>1. tcp_pc[Parent] = IF mayStop THEN "wait" ELSE "ended"
      BY <1>6, <2>3 DEF Jobs
    <3>2. \A c \in TcpClients : conn[c] # "queued"
      BY <1>3, <2>3
    <3>3. QED
      BY <1>2, <1>3, <1>6, <2>3, <3>1, <3>2 DEF N!AtRest
  <2>4. QED
    BY <2>1, <2>2, <2>3
<1>7. QED
  BY <1>5, <1>6

-----------------------------------------------------------------------------
(* The exercises *)

(* What the proofs of the servers and of the types add to IInv.             *)
ServersInv ==
    /\ program \in Programs
    /\ PoolInv /\ TcpInv /\ Jobs
    /\ ListTypes /\ NodeTypes

LEMMA ServersSteps ==
    ASSUME [Next]_vars
    PROVE  /\ program' = program
           /\ P!Next \/ UNCHANGED poolVars
           /\ N!Next \/ UNCHANGED tcpVars
           /\ L!Next \/ UNCHANGED listVars
           /\ D!Next \/ UNCHANGED dynamicVars
BY DEF Next, vars, shops, counters, tree, list, dynamicList, pool, tcp

(* The exercises keep the invariants of all their programs.                 *)
THEOREM ServersInvariant == Spec => [](IInv /\ ServersInv)
<1>1. Init => ServersInv
  <2>1. D!Init => NodeTypes
    BY DEF D!Init, NodeTypes
  <2>2. QED
    BY <2>1, PoolInit, TcpInit, JobsInit, ListTypesInit DEF Init, ServersInv
<1>2. IInv /\ ServersInv /\ [Next]_vars => ServersInv'
  <2> SUFFICES ASSUME IInv, ServersInv, [Next]_vars PROVE ServersInv'
    OBVIOUS
  <2>1. /\ program' = program
        /\ P!Next \/ UNCHANGED poolVars
        /\ N!Next \/ UNCHANGED tcpVars
        /\ L!Next \/ UNCHANGED listVars
        /\ D!Next \/ UNCHANGED dynamicVars
    BY ServersSteps
  <2>2. PoolInv'
    BY <2>1, PoolStep DEF ServersInv
  <2>3. TcpInv' /\ Jobs'
    BY <2>1, TcpStep, JobsStep DEF ServersInv
  <2>4. ListTypes'
    BY <2>1, ListTypesStep DEF ServersInv
  <2>5. NodeTypes'
    BY <2>1, NodeTypesStep DEF ServersInv, IInv
  <2>6. program' \in Programs
    BY <2>1 DEF ServersInv, Programs
  <2>7. QED
    BY <2>2, <2>3, <2>4, <2>5, <2>6 DEF ServersInv, Programs
<1>3. QED
  BY <1>1, <1>2, InductiveInvariant, PTL DEF Spec

(* As long as no client of the pool takes another's datagram for its own,   *)
(* each connected client has a busy service to itself; and as long as no    *)
(* answer was late, it gets the answer to what it sent, and a service that  *)
(* is available has nothing of an earlier client's left.                    *)
THEOREM OwnSessions == Spec => []Sessions
<1>1. ServersInv => Sessions
  BY PoolSessions DEF ServersInv, Sessions
<1>2. QED
  BY <1>1, ServersInvariant, PTL

(* While the parent of the forking server lives, its list has one entry for *)
(* every process it has forked, but the one it is about to add.             *)
THEOREM ListOfChildren ==
    Spec => [](kind = "multi" /\ N!Alive(Parent) =>
                entries[Parent] + (IF tcp_pc[Parent] = "add" THEN 1 ELSE 0)
                    = Cardinality({c \in TcpClients : conn[c] = "taken"}))
<1>1. ServersInv => (kind = "multi" /\ N!Alive(Parent) =>
                entries[Parent] + (IF tcp_pc[Parent] = "add" THEN 1 ELSE 0)
                    = Cardinality({c \in TcpClients : conn[c] = "taken"}))
  BY TcpTypeOK DEF ServersInv
<1>2. QED
  BY <1>1, ServersInvariant, PTL

(* Still is no weaker than it says: in such a state nothing goes on.        *)
LEMMA NothingGoesOn == ASSUME N!Still PROVE ~N!Progress
<1>1. ASSUME NEW c \in TcpClients PROVE ~(N!Reset(c) \/ N!MultiFork(c) \/ N!ProcTake(c) \/ N!ThreadsExit(c))
  <2>1. N!Reset(c) \/ N!MultiFork(c) \/ N!ProcTake(c) \/ N!ThreadsExit(c) => conn[c] = "queued"
    BY DEF N!Reset, N!MultiFork, N!ProcTake, N!ThreadsExit, N!Accept
  <2>2. conn[c] = "queued" =>
          N!Listening /\ tcp_pc[Worker] # "accept" /\ (kind = "proc" \/ tcp_pc[Parent] # "accept")
    BY DEF N!Still
  <2>3. QED
    BY <2>1, <2>2 DEF N!Reset, N!MultiFork, N!ProcTake, N!ThreadsExit
<1>2. ASSUME NEW c \in TcpClients
      PROVE  ~(N!MultiExit(c) \/ N!ClientFork(c) \/ N!ConnectAgain(c) \/ N!Say(c) \/ N!client_child(c))
  BY DEF N!Still, N!MultiExit, N!ClientFork, N!ConnectAgain, N!Say, N!client_child
<1>3. ~N!MultiAdd /\ ~N!mark_proc_ended
  BY DEF N!Still, N!MultiAdd, N!mark_proc_ended, N!Procs
<1>4. ASSUME NEW p \in N!Procs PROVE ~N!svrmulti_exit(p) /\ ~N!ProcWait(p)
  <2>1. ~N!svrmulti_exit(p)
    <3>1. N!Alive(p) => signals[p] \subseteq {"CHLD"}
      BY DEF N!Still
    <3>2. QED
      BY <3>1 DEF N!svrmulti_exit
  <2>2. ~N!ProcWait(p)
    BY DEF N!Still, N!ProcWait
  <2>3. QED
    BY <2>1, <2>2
<1>5. QED
  BY <1>1, <1>2, <1>3, <1>4 DEF N!Progress

(* Once no process of the TCP servers and their clients can go on by itself,*)
(* no connection waits to be taken and no process for another, but for the  *)
(* child of proc's that was left alone with the port.                       *)
THEOREM NobodyWaits ==
    Spec => [](N!Still => N!AtRest) /\ [][N!Still => ~N!Progress]_vars
<1>1. ServersInv => (N!Still => N!AtRest)
  BY StillAtRest DEF ServersInv
<1>2. N!Still => ~N!Progress
  BY NothingGoesOn
<1>3. QED
  BY <1>1, <1>2, ServersInvariant, PTL

(* Every variable of every program keeps its type: no counter, queue, list  *)
(* or stack of theirs grows past its bound.                                 *)
THEOREM TypeCorrect == Spec => []TypeOK
<1>1. IInv /\ ServersInv => TypeOK
  <2> SUFFICES ASSUME IInv, ServersInv PROVE TypeOK
    OBVIOUS
  <2>1. S!TypeOK /\ C!TypeOK /\ T!TypeOK
    BY ShopsFair, CountersCounted, TreeJobs DEF IInv
  <2>2. L!TypeOK /\ D!TypeOK
    BY ListTypeOK, NodeTypeOK DEF IInv, ServersInv
  <2>3. P!TypeOK /\ N!TypeOK
    BY PoolSessions, TcpTypeOK DEF ServersInv
  <2>4. program \in {"shops", "counters", "tree", "list", "dynamic list", "pool", "tcp"}
    BY DEF ServersInv, Programs
  <2>5. QED
    BY <2>1, <2>2, <2>3, <2>4 DEF TypeOK
<1>2. QED
  BY <1>1, ServersInvariant, PTL
=============================================================================
