---------------------------- MODULE ServicePool -----------------------------
(***************************************************************************)
(* src/44_high-load_server/multyproc_pool/task3.c: a UDP server gives each *)
(* client that connects a service thread of its own from a pool, passes    *)
(* the client's lines to it through a message queue and, a second later,   *)
(* the service's answer back.  The pool grows when every service is busy   *)
(* and shrinks when the last ones are all available.                       *)
(*                                                                         *)
(* Clients receive through raw sockets, which are given every UDP datagram *)
(* of the host, and try ATTEMPTS times to find their reply among them.     *)
(*                                                                         *)
(* The pool's block of memory does not grow with the pool: the next        *)
(* realloc, and the end of a server whose pool has grown, find the heap    *)
(* destroyed and the process dies, leaving its queue behind.               *)
(***************************************************************************)
EXTENDS Naturals, Sequences, FiniteSets

CONSTANTS
    Clients,          \* client processes, on the server's host
    POOL,             \* DEFAULT_POOL_SIZE
    ATTEMPTS,         \* RECEIVE_MESSAGE_MAX_ATTEMPTS
    QueueCapacity,    \* messages that fit into the message queue
    Bounds,           \* bound: one record of it holds, which says what clients are
                      \* started, how many lines may be typed at each, how often
                      \* the server is started
    NotDefined,       \* SERVICE_ID_NOT_DEFINED
    Nothing           \* no datagram

ServicePoolAssumption ==
    /\ POOL \in Nat \ {0} /\ ATTEMPTS \in Nat \ {0} /\ QueueCapacity \in Nat
    /\ Bounds \subseteq [clients : SUBSET Clients, lines : Nat, starts : Nat]
    /\ NotDefined \notin Nat

VARIABLES
    bound,        \* the member of Bounds that holds
    spc,          \* where run_server is
    flag,         \* the server's program_exit_flag
    starts,       \* how often the server has been started
    queue,        \* whether the message queue exists
    size,         \* services_pool_size
    state,        \* per service: services_pool[i].state
    hand,         \* per service: the text it has taken and not yet answered
    ended,        \* the services whose threads have ended
    toService,    \* per service: the messages of type i + 1
    fromService,  \* per service: the messages of type USHRT_MAX / 2 - (i + 1)
    current,      \* the datagram run_server sleeps over
    inbox,        \* what waits in the server's socket
    raw,          \* per client: what waits in its raw socket
    cpc,          \* per client: where run_client is
    sid,          \* per client: sid
    mid,          \* per client: mid
    attempts,     \* per client: attempts left to find the reply
    pending,      \* per client: its last datagram
    answer,       \* per client: what it took for the reply to it
    given,        \* history, per client: the service the server gave it
    astray,       \* history: the clients that took another's datagram for theirs,
                  \* and those whose server has ended
    late          \* history: the services whose answer was ever not there in time

threadVars == <<hand, ended>>
queueVars == <<queue, toService, fromService>>
poolVars == <<size, state>>
serverVars == <<spc, flag, starts, current>>
clientVars == <<cpc, sid, mid, attempts, pending, answer>>
netVars == <<inbox, raw>>
history == <<given, astray, late>>
vars == <<bound, threadVars, queueVars, poolVars, serverVars, clientVars, netVars, history>>

-----------------------------------------------------------------------------
(* The ids a service can have: the pool does not survive growing twice. *)
ServiceIds == 0..2 * POOL - 1

\* The pool's last DEFAULT_POOL_SIZE services.
LastServices == size - POOL..size - 1

Up == spc \in {"loop", "receive", "await", "join"}

\* A request of client c; n tells its lines apart.
Request(c, type, n) ==
    [kind |-> "request", type |-> type, sid |-> sid[c], mid |-> mid[c],
     client |-> c, text |-> <<c, n>>]

\* The reply to request d, with service id i and a text made from the given one.
Reply(d, i, text) ==
    [kind |-> "reply", type |-> d.type, sid |-> i, mid |-> d.mid + 1,
     client |-> d.client, text |-> text]

QueueLength ==
    LET Places == ServiceIds \X (1..QueueCapacity) IN
    Cardinality({place \in Places : place[2] <= Len(toService[place[1]])})
    + Cardinality({place \in Places : place[2] <= Len(fromService[place[1]])})

Init ==
    /\ bound \in Bounds
    /\ spc = "off" /\ flag = FALSE /\ starts = 0 /\ current = Nothing
    /\ queue = FALSE
    /\ toService = [i \in ServiceIds |-> <<>>]
    /\ fromService = [i \in ServiceIds |-> <<>>]
    /\ size = 0
    /\ state = [i \in ServiceIds |-> "none"]
    /\ hand = [i \in ServiceIds |-> Nothing]
    /\ ended = {}
    /\ inbox = <<>>
    /\ raw = [c \in Clients |-> <<>>]
    /\ cpc = [c \in Clients |-> "connect"]
    /\ sid = [c \in Clients |-> NotDefined]
    /\ mid = [c \in Clients |-> 0]
    /\ attempts = [c \in Clients |-> 0]
    /\ pending = [c \in Clients |-> Nothing]
    /\ answer = [c \in Clients |-> Nothing]
    /\ given = [c \in Clients |-> NotDefined]
    /\ astray = {} /\ late = {}

-----------------------------------------------------------------------------
(* The network: d reaches the raw socket of every client that has one, and, a *)
(* request, the server if it is up.                                        *)
Listening == {c \in Clients : cpc[c] \in {"connecting", "prompt", "asking", "give up"}}

Copied(d, receivers) ==
    raw' = [c \in Clients |-> IF c \in receivers THEN Append(raw[c], d) ELSE <<>>]

ToServer(d) == inbox' = IF Up THEN Append(inbox, d) ELSE inbox

-----------------------------------------------------------------------------
(* run_server *)

\* The socket, the queue and the first services; the queue of a server that died
\* is in the way of every other.
Start ==
    /\ ~Up /\ starts < bound.starts
    /\ starts' = starts + 1
    /\ flag' = FALSE
    /\ inbox' = <<>>
    /\ IF queue
       THEN /\ spc' = "refused"
            /\ UNCHANGED <<queue, poolVars, threadVars>>
       ELSE /\ spc' = "loop"
            /\ queue' = TRUE
            /\ size' = POOL
            /\ state' = [i \in ServiceIds |-> IF i < POOL THEN "available" ELSE "none"]
            /\ hand' = [i \in ServiceIds |-> Nothing]
            /\ ended' = {}
    /\ UNCHANGED <<bound, toService, fromService, current, raw, clientVars, history>>

\* The flag is tested before receive_message, which waits for a datagram.
Loop ==
    /\ spc = "loop"
    /\ spc' = IF flag THEN "join" ELSE "receive"
    /\ UNCHANGED <<bound, threadVars, queueVars, poolVars, flag, starts, current, clientVars,
                   netVars, history>>

\* The process dies, its queue stays.
Die ==
    /\ spc' = "crashed"
    /\ inbox' = <<>>
    /\ UNCHANGED <<queueVars, hand, ended>>

Received(type) == spc = "receive" /\ inbox # <<>> /\ Head(inbox).type = type

\* A mutant of Assign: the service is not marked busy.
AssignUnmarked(d, i, poolSize, states) ==
    /\ size' = poolSize
    /\ state' = states
    /\ given' = [given EXCEPT ![d.client] = i]
    /\ Copied(Reply(d, i, d.text), Listening)
    /\ spc' = "loop"
    /\ inbox' = Tail(inbox)

\* Service i is given to the client of request d, who is told.
Assign(d, i, poolSize, states) ==
    /\ size' = poolSize
    /\ state' = [states EXCEPT ![i] = "busy"]
    /\ given' = [given EXCEPT ![d.client] = i]
    /\ Copied(Reply(d, i, d.text), Listening)
    /\ spc' = "loop"
    /\ inbox' = Tail(inbox)

\* MESSAGE_CONNECT: the first available service, or the first one of those the
\* pool is made to grow by.
Connect ==
    /\ Received("connect")
    /\ LET d == Head(inbox)
           available == {i \in 0..size - 1 : state[i] = "available"}
       IN  IF available # {}
           THEN /\ Assign(d, CHOOSE i \in available : \A k \in available : i <= k,
                          size, state)
                /\ UNCHANGED <<queueVars, threadVars>>
           ELSE IF size = POOL
           THEN /\ Assign(d, POOL, 2 * POOL,
                          [i \in ServiceIds |-> IF i < POOL THEN state[i] ELSE "available"])
                /\ UNCHANGED <<queueVars, threadVars>>
           ELSE Die /\ UNCHANGED <<poolVars, given, raw>>
    /\ UNCHANGED <<bound, flag, starts, current, clientVars, astray, late>>

\* MESSAGE_DATA: the text goes to the service the client names; run_server sleeps
\* for a second unless the queue is full.
Data ==
    /\ Received("data")
    /\ inbox' = Tail(inbox)
    /\ LET d == Head(inbox) IN
        IF QueueLength < QueueCapacity
        THEN /\ toService' = [toService EXCEPT ![d.sid] = Append(@, d.text)]
             /\ current' = d
             /\ spc' = "await"
        ELSE spc' = "loop" /\ UNCHANGED <<toService, current>>
    /\ UNCHANGED <<bound, threadVars, queue, fromService, poolVars, flag, starts, clientVars,
                   raw, history>>

\* After that second: the first answer of the service, if there is one, goes to
\* the client as the reply to its last datagram.
Answer ==
    /\ spc = "await"
    /\ LET i == current.sid IN
        IF fromService[i] = <<>>
        THEN /\ late' = late \cup {i}
             /\ UNCHANGED <<fromService, raw>>
        ELSE /\ Copied(Reply(current, i, Head(fromService[i])), Listening)
             /\ fromService' = [fromService EXCEPT ![i] = Tail(@)]
             /\ UNCHANGED late
    /\ current' = Nothing
    /\ spc' = "loop"
    /\ UNCHANGED <<bound, threadVars, queue, toService, poolVars, flag, starts, clientVars,
                   inbox, given, astray>>

\* MESSAGE_CLOSE: the service is available.  If the pool has grown and its last
\* services all are, their threads are cancelled and joined; if none of them had
\* ended by itself, the pool is made smaller.
Close ==
    /\ Received("close")
    /\ LET states == [state EXCEPT ![Head(inbox).sid] = "available"]
           shrink == size > POOL /\ \A i \in LastServices : states[i] = "available"
           exited == LastServices \cap ended
       IN  IF shrink /\ exited = {}
           THEN Die /\ UNCHANGED poolVars
           ELSE /\ state' = IF shrink
                            THEN [i \in ServiceIds |-> IF i \in exited THEN "error"
                                                       ELSE states[i]]
                            ELSE states
                /\ ended' = IF shrink THEN ended \cup LastServices ELSE ended
                /\ spc' = "loop"
                /\ inbox' = Tail(inbox)
                /\ UNCHANGED <<size, hand, queueVars>>
    /\ UNCHANGED <<bound, flag, starts, current, clientVars, raw, history>>

\* Out of the loop: the services are joined and the queue is removed.
End ==
    /\ spc = "join"
    /\ IF size > POOL
       THEN Die
       ELSE /\ 0..size - 1 \subseteq ended
            /\ spc' = "closed"
            /\ queue' = FALSE
            /\ toService' = [i \in ServiceIds |-> <<>>]
            /\ fromService' = [i \in ServiceIds |-> <<>>]
            /\ inbox' = <<>>
            /\ UNCHANGED <<hand, ended>>
    /\ astray' = astray \cup IF size > POOL THEN {} ELSE Listening
    /\ UNCHANGED <<bound, poolVars, flag, starts, current, clientVars, raw, given, late>>

\* SIGINT; it does not wake receive_message.
Interrupt ==
    /\ Up /\ ~flag
    /\ flag' = TRUE
    /\ UNCHANGED <<bound, threadVars, queueVars, poolVars, spc, starts, current, clientVars,
                   netVars, history>>

-----------------------------------------------------------------------------
(* service_fun *)

Running(i) == Up /\ i < size /\ i \notin ended

Take(i) ==
    /\ Running(i) /\ hand[i] = Nothing
    /\ toService[i] # <<>>
    /\ hand' = [hand EXCEPT ![i] = Head(toService[i])]
    /\ toService' = [toService EXCEPT ![i] = Tail(@)]
    /\ UNCHANGED <<bound, ended, queue, fromService, poolVars, serverVars, clientVars, netVars,
                   history>>

\* A full queue does not take the answer.
Put(i) ==
    /\ Running(i) /\ hand[i] # Nothing
    /\ fromService' = IF QueueLength < QueueCapacity
                      THEN [fromService EXCEPT ![i] = Append(@, hand[i])] ELSE fromService
    /\ hand' = [hand EXCEPT ![i] = Nothing]
    /\ UNCHANGED <<bound, ended, queue, toService, poolVars, serverVars, clientVars, netVars,
                   history>>

EndService(i) ==
    /\ Running(i) /\ hand[i] = Nothing /\ flag
    /\ ended' = ended \cup {i}
    /\ UNCHANGED <<bound, hand, queueVars, poolVars, serverVars, clientVars, netVars, history>>

-----------------------------------------------------------------------------
(* run_client *)

\* Client c sends d and goes on at pc.
Send(c, d, pc) ==
    /\ pending' = [pending EXCEPT ![c] = d]
    /\ answer' = [answer EXCEPT ![c] = Nothing]
    /\ attempts' = [attempts EXCEPT ![c] = ATTEMPTS]
    /\ cpc' = [cpc EXCEPT ![c] = pc]
    /\ ToServer(d)
    /\ Copied(d, IF pc = "closed" THEN Listening \ {c} ELSE Listening \cup {c})

Hello(c) ==
    /\ cpc[c] = "connect" /\ c \in bound.clients
    /\ Send(c, Request(c, "connect", 0), "connecting")
    /\ UNCHANGED <<bound, threadVars, queueVars, poolVars, serverVars, sid, mid, history>>

\* A line is typed.
Type(c) ==
    /\ cpc[c] = "prompt" /\ mid[c] < bound.lines
    /\ Send(c, Request(c, "data", mid[c] + 1), "asking")
    /\ UNCHANGED <<bound, threadVars, queueVars, poolVars, serverVars, sid, mid, history>>

\* "q", "quit", or ^C; or the reply was not found.
Bye(c) ==
    /\ cpc[c] \in {"prompt", "give up"}
    /\ Send(c, Request(c, "close", 0), "closed")
    /\ UNCHANGED <<bound, threadVars, queueVars, poolVars, serverVars, sid, mid, history>>

\* receive_message_reply_safe compares the ids only; a client that connects has
\* no sid yet and takes anybody's.
Matches(c, d) == sid[c] \in {NotDefined, d.sid} /\ d.mid = mid[c] + 1

\* One datagram is read: it is the reply, or one attempt is used up.
Read(c) ==
    /\ cpc[c] \in {"connecting", "asking"}
    /\ raw[c] # <<>>
    /\ LET d == Head(raw[c])
           connecting == cpc[c] = "connecting"
           own == d.kind = "reply" /\ d.client = c /\ d.type = pending[c].type
       IN  IF Matches(c, d)
           THEN /\ cpc' = [cpc EXCEPT ![c] = "prompt"]
                /\ sid' = [sid EXCEPT ![c] = d.sid]
                /\ mid' = IF connecting THEN mid ELSE [mid EXCEPT ![c] = @ + 1]
                /\ answer' = [answer EXCEPT ![c] = d]
                /\ astray' = IF own THEN astray ELSE astray \cup {c}
                /\ raw' = [raw EXCEPT ![c] = Tail(@)]
                /\ UNCHANGED attempts
           ELSE /\ attempts' = [attempts EXCEPT ![c] = @ - 1]
                /\ cpc' = [cpc EXCEPT ![c] =
                             IF attempts[c] > 1 THEN @
                             ELSE IF connecting THEN "failed" ELSE "give up"]
                /\ raw' = [raw EXCEPT ![c] = IF connecting /\ attempts[c] <= 1
                                             THEN <<>> ELSE Tail(@)]
                /\ UNCHANGED <<sid, mid, answer, astray>>
    /\ UNCHANGED <<bound, threadVars, queueVars, poolVars, serverVars, inbox, pending,
                   given, late>>

-----------------------------------------------------------------------------
Next ==
    \/ Start \/ Loop \/ Connect \/ Data \/ Answer \/ Close \/ End \/ Interrupt
    \/ \E i \in ServiceIds : Take(i) \/ Put(i) \/ EndService(i)
    \/ \E c \in Clients : Hello(c) \/ Type(c) \/ Bye(c) \/ Read(c)

Spec == Init /\ [][Next]_vars

-----------------------------------------------------------------------------
(* Properties *)

Texts == Clients \X (0..bound.lines)

\* The type of every variable (struct service, struct service_message, struct
\* message, the locals of run_server and run_client).
TypeOK ==
    /\ bound \in Bounds
    /\ spc \in {"off", "loop", "receive", "await", "join", "closed", "crashed", "refused"}
    /\ flag \in BOOLEAN /\ starts \in 0..bound.starts /\ queue \in BOOLEAN
    /\ size \in {0, POOL, 2 * POOL}
    /\ state \in [ServiceIds -> {"none", "available", "busy", "error"}]
    /\ hand \in [ServiceIds -> Texts \cup {Nothing}]
    /\ ended \subseteq ServiceIds /\ late \subseteq ServiceIds
    /\ QueueLength <= QueueCapacity
    /\ cpc \in [Clients -> {"connect", "connecting", "prompt", "asking", "give up",
                             "failed", "closed"}]
    /\ sid \in [Clients -> ServiceIds \cup {NotDefined}]
    /\ given \in [Clients -> ServiceIds \cup {NotDefined}]
    /\ mid \in [Clients -> 0..bound.lines]
    /\ attempts \in [Clients -> 0..ATTEMPTS]
    /\ astray \subseteq Clients

Connected == {c \in Clients : cpc[c] \in {"prompt", "asking", "give up"}}

\* As long as no client has taken another's datagram for its own, and whatever
\* clients come, give up, or leave without a word: two connected clients never
\* have the same service, nor one whose thread has been cancelled; their services
\* are busy; and as long as no service was late, the answer a client takes is the one
\* to the line it has sent, and nothing is left in the queue for the next client of
\* a service (291-305, 396-454, 497-502, 526-555).
Sessions ==
    astray = {} =>
        /\ \A c, d \in Connected : sid[c] = sid[d] => c = d
        /\ \A c \in Connected : sid[c] = given[c]
        /\ Up => \A c \in Connected :
                    state[sid[c]] = "busy" /\ (sid[c] \in ended => flag)
        /\ late = {} =>
            /\ \A c \in Connected : answer[c] # Nothing => answer[c].text = pending[c].text
            /\ \A i \in ServiceIds : Up /\ state[i] = "available" =>
                hand[i] = Nothing /\ toService[i] = <<>> /\ fromService[i] = <<>>

=============================================================================
