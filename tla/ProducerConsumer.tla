-------------------------- MODULE ProducerConsumer --------------------------
(***************************************************************************)
(* src/44_high-load_server/producer_consumer/task4.c: a UDP server puts    *)
(* every request it receives into a message queue, acknowledges it, and    *)
(* sends the client what a pool of service threads returns through a       *)
(* second queue.  Clients send a line, wait for two datagrams whose id is  *)
(* theirs plus one, and then prompt for the next line.                     *)
(*                                                                         *)
(* Every client receives through a raw socket, which is given a copy of    *)
(* every UDP datagram on the host: the requests of all the clients, its    *)
(* own included, and every reply to any of them.                           *)
(*                                                                         *)
(* All of them run on one host (DEFAULT_SERVER_IP is the loopback          *)
(* address), where datagrams keep their order, and a socket whose buffer   *)
(* is full misses one (losses bounds how often).   Of a datagram's text    *)
(* only the request it belongs to is kept; its id is the one field the     *)
(* code compares.                                                          *)
(***************************************************************************)
EXTENDS Integers, Sequences, FiniteSets

CONSTANTS
    Clients,          \* client processes, on the server's host
    Servers,          \* server processes
    Services,         \* service threads (DEFAULT_POOL_SIZE)
    CharMax,          \* the largest char (mid is a char)
    ShortSize,        \* the number of values of an unsigned short (id)
    QueueCapacity,    \* messages that fit into a message queue
    Surroundings,     \* bound: what may happen, one record of which holds: the
                      \* lines each client's user may type, the servers that may
                      \* be started, the processes that may be told to stop
                      \* (^C, and "q" of a client), the copies of datagrams that
                      \* may get lost
    Nothing           \* no request

ASSUME ProducerConsumerAssumption ==
    /\ IsFiniteSet(Clients)
    /\ CharMax \in Nat
    /\ ShortSize \in Nat /\ ShortSize > 2 * (CharMax + 1)
    /\ QueueCapacity \in Nat
    /\ Surroundings \subseteq
        [lines : [Clients -> Nat], starts : SUBSET Servers,
         stops : SUBSET (Servers \cup Clients), losses : Nat]

VARIABLES
    spc,          \* per server: where run_server is
    flag,         \* per server: program_exit_flag
    queues,       \* the message queues that exist
    requests,     \* what is in the request queue
    replies,      \* what is in the reply queue
    service,      \* per service: the request in its hands, or Nothing
    ended,        \* the services that have ended
    current,      \* the request run_server has queued and not acknowledged
    inbox,        \* what waits in the server's socket
    alive,        \* the clients that are running
    mid,          \* per client: mid
    waiting,      \* per client: wait_server_reply_flag
    raw,          \* per client: what waits in its raw socket
    lines,        \* per client: how many lines its user will still type
    pending,      \* per client: its last request
    counted,      \* per client: what it took for the replies to that request
    mixed,        \* the clients that ever took another client's datagram
    starts,       \* the servers that may still be started
    stops,        \* the processes that may still be told to stop
    losses,       \* how many more copies may get lost
    gone,         \* the requests of which a datagram never arrived
    dropped,      \* the requests that a full queue did not take
    acked,        \* the requests acknowledged
    answered      \* the requests whose reply from a service was sent

serverVars == <<spc, flag, queues, requests, replies, service, ended, current,
                dropped>>
environment == <<starts, stops>>
clientVars == <<alive, mid, waiting, lines, pending, counted, mixed>>
netVars == <<inbox, raw, losses, gone>>
history == <<acked, answered>>
vars == <<environment, serverVars, clientVars, netVars, history>>

-----------------------------------------------------------------------------
(* Data *)

\* The conversion to unsigned short.
Short(n) == n % ShortSize

CharMin == -CharMax - 1

\* A mutant of NextMid: mid as wide as an int.
WideMid(m) == m + 1

\* mid++ on a char: it wraps around.
NextMid(m) == IF m = CharMax THEN CharMin ELSE m + 1

\* A mutant of ReplyId: the id as an int, which does not wrap around.
WideReplyId(id) == id + 1

\* The id run_server gives its replies to a request.
ReplyId(id) == Short(id + 1)

\* A mutant of ExpectedId: the request's own id.
OwnId(c) == Short(mid[c])

\* The id run_client waits for.
ExpectedId(c) == Short(mid[c] + 1)

NewRequest(c) == [client |-> c, n |-> lines[c], id |-> Short(mid[c])]

Datagram(kind, r) ==
    [kind |-> kind, request |-> r,
     id |-> IF kind = "request" THEN r.id ELSE ReplyId(r.id)]

AllRequests == [client : Clients, n : Nat \ {0}, id : 0..ShortSize - 1]

ASSUME NothingAssumption == Nothing \notin AllRequests

IsDatagram(d) ==
    /\ d.kind \in {"request", "ack", "reply"} /\ d.request \in AllRequests
    /\ d = Datagram(d.kind, d.request)

Serving(s) == spc[s] \in {"receive", "acknowledge", "poll", "join"}

\* Some server's socket has the port.
Bound == \E s \in Servers : Serving(s) \/ spc[s] = "second"

-----------------------------------------------------------------------------
Init ==
    /\ spc = [s \in Servers |-> "off"]
    /\ flag = [s \in Servers |-> FALSE]
    /\ queues = {}
    /\ requests = <<>> /\ replies = <<>>
    /\ service = [v \in Services |-> Nothing]
    /\ ended = {}
    /\ current = Nothing
    /\ inbox = <<>>
    /\ alive = Clients
    /\ mid = [c \in Clients |-> 0]
    /\ waiting = [c \in Clients |-> 0]
    /\ raw = [c \in Clients |-> <<>>]
    /\ pending = [c \in Clients |-> Nothing]
    /\ counted = [c \in Clients |-> <<>>]
    /\ mixed = {}
    /\ \E e \in Surroundings :
        /\ lines = e.lines /\ losses = e.losses
        /\ starts = e.starts /\ stops = e.stops
    /\ gone = {} /\ dropped = {} /\ acked = {} /\ answered = {}

-----------------------------------------------------------------------------
(* The network.  A copy of d reaches the raw socket of every running        *)
(* client outside missed, and, a request, the server unless "server" is in  *)
(* missed or no server has the port.                                        *)

Transmit(d, missed) ==
    LET arrives == Bound /\ "server" \notin missed IN
    /\ Cardinality(missed) <= losses
    /\ losses' = losses - Cardinality(missed)
    /\ raw' = [c \in Clients |->
                  IF c \in alive \ missed THEN Append(raw[c], d) ELSE raw[c]]
    /\ inbox' = IF d.kind = "request" /\ arrives THEN Append(inbox, d) ELSE inbox
    /\ gone' = IF IF d.kind = "request" THEN ~arrives ELSE d.request.client \in missed
               THEN gone \cup {d.request} ELSE gone

Send(d) ==
    \E missed \in SUBSET (alive \cup (IF d.kind = "request" THEN {"server"} ELSE {})) :
        Transmit(d, missed)

-----------------------------------------------------------------------------
(* run_server *)

\* msgget with IPC_EXCL | IPC_CREAT fails.
Exists(key) == key \in queues

\* socket, bind (whose failure is only reported) and the first msgget.
Start(s) ==
    /\ s \in starts
    /\ starts' = starts \ {s}
    /\ IF Exists("request")
       THEN /\ spc' = [spc EXCEPT ![s] = "refused"]
            /\ UNCHANGED queues
       ELSE /\ spc' = [spc EXCEPT ![s] = "second"]
            /\ queues' = queues \cup {"request"}
    /\ UNCHANGED <<stops, flag, requests, replies, service, ended, current, dropped,
                   clientVars, netVars, history>>

\* The second msgget, and the services are started.
StartServices(s) ==
    /\ spc[s] = "second"
    /\ IF Exists("reply")
       THEN /\ spc' = [spc EXCEPT ![s] = "refused"]
            /\ inbox' = <<>>
            /\ gone' = gone \cup {inbox[i].request : i \in DOMAIN inbox}
            /\ UNCHANGED queues
       ELSE /\ spc' = [spc EXCEPT ![s] = "receive"]
            /\ queues' = queues \cup {"reply"}
            /\ UNCHANGED <<inbox, gone>>
    /\ UNCHANGED <<environment, flag, requests, replies, service, ended, current, dropped,
                   clientVars, raw, losses, history>>

\* receive_message takes a datagram: it is put into the request queue.
Receive(s) ==
    /\ spc[s] = "receive" /\ ~flag[s]
    /\ inbox # <<>>
    /\ inbox' = Tail(inbox)
    /\ LET d == Head(inbox) IN
        IF Len(requests) < QueueCapacity
        THEN /\ requests' = Append(requests, d.request)
             /\ current' = d.request
             /\ spc' = [spc EXCEPT ![s] = "acknowledge"]
             /\ UNCHANGED dropped
        ELSE /\ dropped' = dropped \cup {d.request}
             /\ spc' = [spc EXCEPT ![s] = "poll"]
             /\ UNCHANGED <<requests, current>>
    /\ UNCHANGED <<environment, flag, queues, replies, service, ended, clientVars, raw, losses,
                   gone, history>>

\* receive_message finds nothing.
ReceiveNothing(s) ==
    /\ spc[s] = "receive" /\ ~flag[s]
    /\ inbox = <<>>
    /\ spc' = [spc EXCEPT ![s] = "poll"]
    /\ UNCHANGED <<environment, flag, queues, requests, replies, service, ended, current,
                   dropped, clientVars, netVars, history>>

Acknowledge(s) ==
    /\ spc[s] = "acknowledge"
    /\ Send(Datagram("ack", current))
    /\ acked' = acked \cup {current}
    /\ current' = Nothing
    /\ spc' = [spc EXCEPT ![s] = "poll"]
    /\ UNCHANGED <<environment, flag, queues, requests, replies, service, ended, dropped,
                   clientVars, answered>>

\* One message of the reply queue, if there is one, goes to its client.
Poll(s) ==
    /\ spc[s] = "poll"
    /\ spc' = [spc EXCEPT ![s] = "receive"]
    /\ IF replies = <<>>
       THEN UNCHANGED <<replies, answered, netVars>>
       ELSE /\ Send(Datagram("reply", Head(replies)))
            /\ answered' = answered \cup {Head(replies)}
            /\ replies' = Tail(replies)
    /\ UNCHANGED <<environment, flag, queues, requests, service, ended, current, dropped,
                   clientVars, acked>>

\* Out of the loop: wait for the services.
Leave(s) ==
    /\ spc[s] = "receive" /\ flag[s]
    /\ spc' = [spc EXCEPT ![s] = "join"]
    /\ UNCHANGED <<environment, flag, queues, requests, replies, service, ended, current,
                   dropped, clientVars, netVars, history>>

\* A mutant of Close: both queues are removed.
CloseBoth(s) ==
    /\ spc[s] = "join"
    /\ ended = Services
    /\ spc' = [spc EXCEPT ![s] = "closed"]
    /\ queues' = {} /\ requests' = <<>> /\ replies' = <<>>
    /\ inbox' = <<>>
    /\ UNCHANGED <<environment, flag, service, ended, current, dropped, clientVars, raw,
                   losses, gone, history>>

\* All joined: the request queue is removed (the reply queue is not) and the
\* socket closed.
Close(s) ==
    /\ spc[s] = "join"
    /\ ended = Services
    /\ spc' = [spc EXCEPT ![s] = "closed"]
    /\ queues' = queues \ {"request"}
    /\ requests' = <<>>
    /\ inbox' = <<>>
    /\ UNCHANGED <<environment, flag, replies, service, ended, current, dropped, clientVars,
                   raw, losses, gone, history>>

\* SIGINT
Interrupt(s) ==
    /\ Serving(s) \/ spc[s] = "second"
    /\ s \in stops
    /\ stops' = stops \ {s}
    /\ flag' = [flag EXCEPT ![s] = TRUE]
    /\ UNCHANGED <<spc, starts, queues, requests, replies, service, ended, current,
                   dropped, clientVars, netVars, history>>

-----------------------------------------------------------------------------
(* service_fun *)

Running(v) == v \notin ended /\ \E s \in Servers : Serving(s)

\* A mutant of Take: the message is copied and stays in the queue.
Peek(v) ==
    /\ Running(v) /\ service[v] = Nothing
    /\ requests # <<>>
    /\ service' = [service EXCEPT ![v] = Head(requests)]
    /\ UNCHANGED <<environment, spc, flag, queues, requests, replies, ended, current, dropped,
                   clientVars, netVars, history>>

Take(v) ==
    /\ Running(v) /\ service[v] = Nothing
    /\ requests # <<>>
    /\ service' = [service EXCEPT ![v] = Head(requests)]
    /\ requests' = Tail(requests)
    /\ UNCHANGED <<environment, spc, flag, queues, replies, ended, current, dropped,
                   clientVars, netVars, history>>

\* A full reply queue does not take the message.
Put(v) ==
    /\ Running(v) /\ service[v] # Nothing
    /\ IF Len(replies) < QueueCapacity
       THEN /\ replies' = Append(replies, service[v])
            /\ UNCHANGED dropped
       ELSE /\ dropped' = dropped \cup {service[v]}
            /\ UNCHANGED replies
    /\ service' = [service EXCEPT ![v] = Nothing]
    /\ UNCHANGED <<environment, spc, flag, queues, requests, ended, current, clientVars,
                   netVars, history>>

\* A mutant of EndService: msgrcv without IPC_NOWAIT, which waits for a message.
EndBlocked(v) ==
    /\ Running(v) /\ service[v] = Nothing /\ requests # <<>>
    /\ \E s \in Servers : Serving(s) /\ flag[s]
    /\ ended' = ended \cup {v}
    /\ UNCHANGED <<environment, spc, flag, queues, requests, replies, service, current,
                   dropped, clientVars, netVars, history>>

EndService(v) ==
    /\ Running(v) /\ service[v] = Nothing
    /\ \E s \in Servers : Serving(s) /\ flag[s]
    /\ ended' = ended \cup {v}
    /\ UNCHANGED <<environment, spc, flag, queues, requests, replies, service, current,
                   dropped, clientVars, netVars, history>>

-----------------------------------------------------------------------------
(* run_client *)

\* A line is typed at the prompt and sent.
Type(c) ==
    /\ c \in alive /\ waiting[c] = 0
    /\ lines[c] > 0
    /\ Send(Datagram("request", NewRequest(c)))
    /\ pending' = [pending EXCEPT ![c] = NewRequest(c)]
    /\ counted' = [counted EXCEPT ![c] = <<>>]
    /\ waiting' = [waiting EXCEPT ![c] = 2]
    /\ lines' = [lines EXCEPT ![c] = @ - 1]
    /\ UNCHANGED <<environment, serverVars, alive, mid, mixed, history>>

\* receive_message_reply takes a datagram; it counts if the id is the one
\* expected, whoever it is meant for.
Read(c) ==
    /\ c \in alive /\ waiting[c] > 0
    /\ raw[c] # <<>>
    /\ raw' = [raw EXCEPT ![c] = Tail(@)]
    /\ LET d == Head(raw[c]) IN
        IF d.id = ExpectedId(c)
        THEN /\ waiting' = [waiting EXCEPT ![c] = @ - 1]
             /\ mid' = [mid EXCEPT ![c] = IF waiting[c] = 1 THEN NextMid(@) ELSE @]
             /\ counted' = [counted EXCEPT ![c] = Append(@, d)]
             /\ mixed' = IF d.request.client = c THEN mixed ELSE mixed \cup {c}
        ELSE UNCHANGED <<waiting, mid, counted, mixed>>
    /\ UNCHANGED <<environment, serverVars, alive, lines, pending, inbox, losses, gone,
                   history>>

\* "q" at the prompt, or ^C, which the loop sees before its next step; the
\* socket is closed.
LeaveClient(c) ==
    /\ c \in alive
    /\ c \in stops
    /\ stops' = stops \ {c}
    /\ alive' = alive \ {c}
    /\ raw' = [raw EXCEPT ![c] = <<>>]
    /\ UNCHANGED <<starts, serverVars, mid, waiting, lines, pending, counted,
                   mixed, inbox, losses, gone, history>>

-----------------------------------------------------------------------------
ServerStep(s) ==
    \/ StartServices(s) \/ Receive(s) \/ ReceiveNothing(s) \/ Acknowledge(s)
    \/ Poll(s) \/ Leave(s) \/ Close(s)

ServiceStep(v) == Take(v) \/ Put(v) \/ EndService(v)

Next ==
    \/ \E s \in Servers : Start(s) \/ Interrupt(s) \/ ServerStep(s)
    \/ \E v \in Services : ServiceStep(v)
    \/ \E c \in Clients : Type(c) \/ Read(c) \/ LeaveClient(c)

\* The server's loop and the services poll without blocking, and a waiting
\* client polls its socket: each of them keeps running.  Nobody has to type,
\* start a server or press ^C.
Fairness ==
    /\ \A s \in Servers : WF_vars(ServerStep(s))
    /\ \A v \in Services : WF_vars(ServiceStep(v))
    /\ \A c \in Clients : WF_vars(Read(c))

Spec == Init /\ [][Next]_vars /\ Fairness

-----------------------------------------------------------------------------
(* Properties *)

\* The type of every variable (struct service_message, struct message, the
\* locals of run_server and run_client).
TypeOK ==
    /\ spc \in [Servers -> {"off", "second", "receive", "acknowledge", "poll",
                            "join", "closed", "refused"}]
    /\ flag \in [Servers -> BOOLEAN]
    /\ queues \subseteq {"request", "reply"}
    /\ \A q \in {requests, replies} :
        Len(q) <= QueueCapacity /\ \A i \in DOMAIN q : q[i] \in AllRequests
    /\ service \in [Services -> AllRequests \cup {Nothing}]
    /\ ended \subseteq Services
    /\ current \in AllRequests \cup {Nothing}
    /\ alive \subseteq Clients /\ mixed \subseteq Clients
    /\ mid \in [Clients -> CharMin..CharMax]
    /\ waiting \in [Clients -> 0..2]
    /\ lines \in [Clients -> Nat] /\ losses \in Nat
    /\ starts \subseteq Servers /\ stops \subseteq Servers \cup Clients
    /\ \A q \in {inbox} \cup {raw[c] : c \in Clients} \cup {counted[c] : c \in Clients} :
        \A i \in DOMAIN q : IsDatagram(q[i])
    /\ pending \in [Clients -> AllRequests \cup {Nothing}]
    /\ \A h \in {gone, dropped, acked, answered} : h \subseteq AllRequests

\* However many servers are started, only one ever serves: as long as it runs it
\* has both queues to itself, and since it leaves the reply queue behind when it
\* ends, nobody who comes later gets past msgget (436-447, 553).
OneServerEver ==
    \A s, t \in Servers :
        {spc[s], spc[t]} \cap {"off", "second", "refused"} = {} => s = t

\* Where a request is.
Places(r) ==
    {<<"requests", i>> : i \in {j \in DOMAIN requests : requests[j] = r}}
    \cup {<<"service", v>> : v \in {w \in Services : service[w] = r}}
    \cup {<<"replies", i>> : i \in {j \in DOMAIN replies : replies[j] = r}}
    \cup (IF r \in answered THEN {<<"answered">>} ELSE {})
    \cup (IF r \in dropped THEN {<<"dropped">>} ELSE {})

\* While the server runs, a request it acknowledged is in one place only: in a
\* queue, in one service's hands, answered, or refused by a full queue.  It is
\* neither lost between the threads nor processed twice, and its acknowledgement
\* always goes out before the service's reply (476-530).
Accounted ==
    /\ \A s \in Servers : Serving(s) =>
        \A r \in acked \cup ({current} \ {Nothing}) : Cardinality(Places(r)) = 1
    /\ answered \subseteq acked

\* A client that never took another client's datagram for its own counts, for
\* each request, its acknowledgement and its service's reply in this order, and
\* goes on when it has both, even after its id has wrapped around and is used a
\* second time (receive_message_reply, 633-641).
LockStep ==
    \A c \in Clients \ mixed :
        pending[c] # Nothing =>
            LET both == <<Datagram("ack", pending[c]), Datagram("reply", pending[c])>>
            IN  /\ counted[c] \in {<<>>, <<both[1]>>, <<both[2]>>, both}
                /\ waiting[c] = 0 => counted[c] = both

\* A client waiting for its two replies gets them, whatever its id and whatever
\* the other clients send, unless a datagram was lost, a full queue refused the
\* request, or somebody pressed ^C (485-530, 633-641).
EveryRequestAnswered ==
    \A c \in Clients :
        waiting[c] > 0 ~> \/ waiting[c] = 0 \/ c \notin alive
                         \/ pending[c] \in gone \cup dropped
                         \/ \E s \in Servers : flag[s]

\* A server that is interrupted ends: none of its threads waits in a blocking
\* call, and all of them are joined (532-562).
Shutdown ==
    \A s \in Servers : flag[s] ~> spc[s] \in {"closed", "refused"}

=============================================================================
