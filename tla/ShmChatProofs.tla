---------------------------- MODULE ShmChatProofs ----------------------------
(***************************************************************************)
(* What ShmChat guarantees for any clients, ids, texts, signals and size   *)
(* of the buffer, the buffer's overflow included, and clients killed inside*)
(* a mailbox call.  The invariant has three layers: the types, the shape of*)
(* the messages and what the server has in hand; who owns an id; and how   *)
(* far each text has got.  The last two hold until the server has removed  *)
(* the semaphore: then two clients may read one message, and what is left  *)
(* of the third is that each client prints a text once.                    *)
(***************************************************************************)
EXTENDS ShmChat, FiniteSetTheorems, SequenceTheorems, WellFoundedInduction, TLAPS

(* What each kind of message looks like.                                    *)
Shaped(m) ==
    /\ m.type = MESSAGE_CLIENT_ID_REQUEST => m.writer_name \in Clients
    /\ m.type = MESSAGE_CLIENT_ID_SET => m.text \in Ids
    /\ m.type = MESSAGE_POST_REQUEST =>
          /\ m.kind = "MESSAGE" /\ m.text \in Posts
          /\ m.writer_name \in Clients /\ m.writer_id = client_id[m.writer_name]
          /\ m.writer_id # NoId
    /\ m.type \in {set_addressee(i) : i \in Ids} /\ m.kind = "MESSAGE" => m.text \in Posts

(* What the server has in hand where it is. *)
InHand ==
    /\ handled # Nothing => Shaped(handled)
    /\ server \in {"grant", "announce"} =>
          handled # Nothing /\ handled.type = MESSAGE_CLIENT_ID_REQUEST
    /\ server = "forward" => handled # Nothing /\ handled.type = MESSAGE_POST_REQUEST
    /\ server = "farewell" => handled # Nothing /\ handled.type = MESSAGE_OUT_CHAT
    /\ server \in Notifying => todo # {}

(* Nobody reads or types for the chat without an id, or copies a message    *)
(* without the semaphore while there is one.                                *)
Registered ==
    \A c \in Clients : /\ client[c] \in {"receive", "input", "gets"} => client_id[c] # NoId
                       /\ message_ptr[c] # Nothing => server = "done"

Order == TypeOK /\ (\A m \in BagToSet(mail) : Shaped(m)) /\ InHand /\ Registered

(* The messages that carry an id.                                           *)
Carries(m, i) ==
    \/ m.type = MESSAGE_CLIENT_ID_SET /\ m.text = i
    \/ m.type = MESSAGE_OUT_CHAT /\ m.writer_id = i
Carriers(i) == {m \in BagToSet(mail) : Carries(m, i)}

Unowned(i) == Holders(i) = {} /\ Carriers(i) = {}
OwnedOnce(i) ==
    /\ \A c, d \in Holders(i) : c = d
    /\ \A m, n \in Carriers(i) : m = n /\ mail[m] = 1
    /\ Holders(i) = {} \/ Carriers(i) = {}

(* No id has two owners, and a free one has none.                           *)
Ownership ==
    \A i \in Ids : IF client_id_pool[i] = "TAKED" THEN OwnedOnce(i) ELSE Unowned(i)

(* Unless a full buffer has swallowed a message, no id is lost either.      *)
NoneLost == \A i \in Ids : client_id_pool[i] = "TAKED" => ~Unowned(i)

(* A text under way: the post, and the notices to those with an id i.       *)
PostOf(p) == {m \in BagToSet(mail) : m.type = MESSAGE_POST_REQUEST /\ m.text = p}
NoticeOf(i, p) ==
    {m \in BagToSet(mail) : m.type = set_addressee(i) /\ m.kind = "MESSAGE" /\ m.text = p}
Forwarding(p) == server = "forward" /\ handled.text = p
Seen(c, p) == \E k \in 1..Len(seen[c]) : seen[c][k] = p
SeenUnder(i, p) == \E c \in Clients : client_id[c] = i /\ Seen(c, p)
(* Nothing addressed to i on p is under way, and nobody with that id has    *)
(* printed p.                                                               *)
Untold(i, p) == NoticeOf(i, p) = {} /\ ~SeenUnder(i, p)

(* A text is posted once, then forwarded once to each id but its author's,  *)
(* and read at most once.                                                   *)
TextStage(p) ==
    /\ author[p] = Nothing =>
          PostOf(p) = {} /\ ~Forwarding(p) /\ \A i \in Ids : Untold(i, p)
    /\ \A m \in PostOf(p) :
          /\ m.writer_name = author[p]
          /\ mail[m] = 1 /\ PostOf(p) = {m}
          /\ ~Forwarding(p) /\ \A i \in Ids : Untold(i, p)
    /\ Forwarding(p) => /\ handled.writer_name = author[p]
                        /\ \A i \in todo : Untold(i, p) /\ i # client_id[author[p]]
    /\ \A i \in Ids :
          /\ \A m, n \in NoticeOf(i, p) : m = n /\ mail[m] = 1
          /\ NoticeOf(i, p) # {} => ~SeenUnder(i, p)
          /\ author[p] # Nothing /\ i = client_id[author[p]] => Untold(i, p)

(* Nothing is posted or printed without an id, or printed twice.            *)
Histories ==
    /\ \A c \in Clients : client_id[c] = NoId => seen[c] = <<>>
    /\ \A p \in Posts : author[p] # Nothing => client_id[author[p]] # NoId
    /\ \A c \in Clients : \A k \in 1..Len(seen[c]) :
          \A j \in 1..(k - 1) : seen[c][k] # seen[c][j]

Texts == Histories /\ \A p \in Posts : TextStage(p)

(* What is left of it without the semaphore: a client that has printed a    *)
(* text or written it has no notice of it but the one it has in hand.       *)
Printing ==
    /\ Histories
    /\ \A i \in Ids : \A p \in Posts : \A m, n \in NoticeOf(i, p) : m = n /\ mail[m] = 1
    /\ \A c \in Clients : \A p \in Posts :
          /\ Seen(c, p) => author[p] # c
          /\ Seen(c, p) \/ author[p] = c => NoticeOf(client_id[c], p) \subseteq {message_ptr[c]}

-----------------------------------------------------------------------------
(* The mailbox. *)

(* Nothing is added.                                                        *)
Less ==
    /\ IsABag(mail')
    /\ \A n \in BagToSet(mail') : n \in BagToSet(mail) /\ mail'[n] <= mail[n]

(* A copy of m is added, and perhaps another message is lost.               *)
Gains(m) ==
    /\ IsABag(mail')
    /\ m \in BagToSet(mail')
    /\ \A n \in BagToSet(mail') \ {m} : n \in BagToSet(mail) /\ mail'[n] <= mail[n]
    /\ m \notin BagToSet(mail) => mail'[m] = 1

LEMMA PutGains == ASSUME IsABag(mail), NEW m, Box!Put(m) PROVE Gains(m)
<1> USE DEF IsABag, BagToSet
<1>1. ASSUME NEW B, IsABag(B), mail' = Box!(+)(B, Box!One(m)),
             \A n \in DOMAIN B : n \in DOMAIN mail /\ B[n] <= mail[n]
      PROVE  Gains(m)
  <2>1. /\ DOMAIN mail' = DOMAIN B \cup {m}
        /\ \A n \in DOMAIN mail' :
              mail'[n] = (IF n \in DOMAIN B THEN B[n] ELSE 0) + (IF n = m THEN 1 ELSE 0)
        /\ mail' = [n \in DOMAIN mail' |-> mail'[n]]
    BY <1>1 DEF Box!(+), Box!One, Box!SetToBag
  <2>2. \A n \in DOMAIN B : B[n] \in Nat /\ B[n] > 0
    BY <1>1
  <2>3. \A n \in DOMAIN mail' : mail'[n] \in Nat /\ mail'[n] > 0
    BY <2>1, <2>2
  <2>4. IsABag(mail')
    BY <2>1, <2>3
  <2>5. QED
    BY <1>1, <2>1, <2>2, <2>4 DEF Gains
<1>2. ASSUME NEW old \in BagToSet(mail), NEW B, B = Box!(-)(mail, Box!One(old))
      PROVE  IsABag(B) /\ \A n \in DOMAIN B : n \in DOMAIN mail /\ B[n] <= mail[n]
  <2>1. /\ B = [n \in DOMAIN B |-> B[n]]
        /\ \A n \in DOMAIN B : /\ n \in DOMAIN mail
                               /\ B[n] = IF n = old THEN mail[n] - 1 ELSE mail[n]
                               /\ B[n] > 0
    BY <1>2 DEF Box!(-), Box!One, Box!SetToBag
  <2>2. \A n \in DOMAIN B : B[n] \in Nat
    BY <2>1
  <2>3. QED
    BY <2>1, <2>2
<1>3. CASE Box!Full
  <2>1. PICK old \in BagToSet(mail) : mail' = Box!(+)(Box!(-)(mail, Box!One(old)), Box!One(m))
    BY <1>3 DEF Box!Put, Box!BagToSet
  <2>2. QED
    BY <1>1, <1>2, <2>1
<1>4. CASE ~Box!Full
  BY <1>1, <1>4 DEF Box!Put
<1>5. QED
  BY <1>3, <1>4

LEMMA PutKeeps ==
    ASSUME IsABag(mail), NEW m, Box!Put(m), ~Box!Full
    PROVE  BagToSet(mail) \subseteq BagToSet(mail')
BY DEF Box!Put, Box!One, Box!SetToBag, Box!(+), BagToSet, Box!BagToSet

LEMMA TakeLess ==
    ASSUME IsABag(mail), NEW t, NEW m \in Box!Returned(t), Nothing \notin BagToSet(mail),
           Box!Take(m)
    PROVE  /\ Less
           /\ m = Nothing => mail' = mail
           /\ m # Nothing => /\ m \in BagToSet(mail) /\ m.type = t
                             /\ BagToSet(mail) \ {m} \subseteq BagToSet(mail')
                             /\ mail[m] = 1 => m \notin BagToSet(mail')
<1> USE DEF IsABag, BagToSet
<1>1. CASE m = Nothing
  BY <1>1 DEF Box!Take, Less
<1>2. CASE m # Nothing
  <2>1. m \in BagToSet(mail) /\ m.type = t
    BY <1>2 DEF Box!Returned, Box!BagToSet
  <2>2. /\ mail' = [n \in DOMAIN mail' |-> mail'[n]]
        /\ DOMAIN mail' = {n \in DOMAIN mail : (IF n = m THEN mail[n] - 1 ELSE mail[n]) > 0}
        /\ \A n \in DOMAIN mail' : mail'[n] = IF n = m THEN mail[n] - 1 ELSE mail[n]
    BY <1>2 DEF Box!Take, Box!One, Box!SetToBag, Box!(-)
  <2>3. \A n \in DOMAIN mail' : /\ n \in DOMAIN mail /\ mail'[n] \in Nat /\ mail'[n] > 0
                                /\ mail'[n] <= mail[n]
    BY <2>2
  <2>4. Less
    BY <2>2, <2>3 DEF Less
  <2>5. QED
    BY <1>2, <2>1, <2>2, <2>4
<1>3. QED
  BY <1>1, <1>2

(* The same of a message that may be gone already.                          *)
LEMMA TakeAny ==
    ASSUME IsABag(mail), NEW m, m # Nothing, Box!Take(m)
    PROVE  Less /\ (m \in BagToSet(mail) /\ mail[m] = 1 => m \notin BagToSet(mail'))
<1> USE DEF IsABag, BagToSet
<1>1. /\ mail' = [n \in DOMAIN mail' |-> mail'[n]]
      /\ DOMAIN mail' = {n \in DOMAIN mail : (IF n = m THEN mail[n] - 1 ELSE mail[n]) > 0}
      /\ \A n \in DOMAIN mail' : mail'[n] = IF n = m THEN mail[n] - 1 ELSE mail[n]
  BY DEF Box!Take, Box!One, Box!SetToBag, Box!(-)
<1>2. \A n \in DOMAIN mail' : /\ n \in DOMAIN mail /\ mail'[n] \in Nat /\ mail'[n] > 0
                              /\ mail'[n] <= mail[n]
  BY <1>1
<1>3. Less
  BY <1>1, <1>2 DEF Less
<1>4. QED
  BY <1>1, <1>3

LEMMA SameLess == ASSUME IsABag(mail), UNCHANGED mail PROVE Less
BY DEF Less, IsABag, BagToSet

(* The least of a set of ids. *)
LEMMA LeastIn == ASSUME NEW S \in SUBSET Ids, S # {} PROVE Least(S) \in S
<1> DEFINE R == {p \in Nat \X Nat : p[1] < p[2]}
<1>1. IsWellFoundedOn(R, Nat)
  <2>1. R = OpToRel(<, Nat)
    BY DEF OpToRel
  <2>2. QED
    BY <2>1, NatLessThanWellFounded
<1>2. S \subseteq Nat
  BY ChatAssumption DEF Ids
<1>3. \E i \in S : \A j \in S : <<j, i>> \notin R
  <2> HIDE DEF R
  <2>1. QED
    BY <1>1, <1>2, WFMin, Zenon
<1>4. PICK i \in S : \A j \in S : ~(j < i)
  BY <1>2, <1>3
<1>5. \A j \in S : i <= j
  BY <1>2, <1>4
<1>6. QED
  BY <1>5 DEF Least

-----------------------------------------------------------------------------
(* The first layer. *)

(* The types of the notices differ, and are none of the four others. *)
LEMMA Addressees ==
    /\ \A i \in Ids : set_addressee(i) \in Nat /\ set_addressee(i) > 4
    /\ \A i, j \in Ids : set_addressee(i) = set_addressee(j) => i = j
BY ChatAssumption DEF set_addressee, MESSAGE_MAGIC_NUMBER, Ids

(* A read, in a state of the invariant. *)
LEMMA Taking ==
    ASSUME Order, NEW t, NEW m \in Box!Returned(t), Box!Take(m)
    PROVE  /\ Less /\ BagToSet(mail') \subseteq BagToSet(mail)
           /\ m \in Message \cup {Nothing}
           /\ m = Nothing => mail' = mail
           /\ m # Nothing => /\ m \in BagToSet(mail) /\ m.type = t /\ Shaped(m)
                             /\ BagToSet(mail) \ {m} \subseteq BagToSet(mail')
                             /\ mail[m] = 1 => m \notin BagToSet(mail')
<1>1. IsABag(mail) /\ Nothing \notin BagToSet(mail)
  BY ChatAssumption DEF Order, TypeOK
<1>2. /\ Less
      /\ m = Nothing => mail' = mail
      /\ m # Nothing => /\ m \in BagToSet(mail) /\ m.type = t
                        /\ BagToSet(mail) \ {m} \subseteq BagToSet(mail')
                        /\ mail[m] = 1 => m \notin BagToSet(mail')
  BY <1>1, TakeLess
<1>3. QED
  BY <1>2 DEF Less, Order, TypeOK

(* A client's read: before the semaphore is removed it is the mailbox's,    *)
(* and then it leaves the mailbox as it is.                                 *)
LEMMA Reading ==
    ASSUME Order, NEW c \in Clients, NEW t, NEW m \in Box!Returned(t), ClientRead(c, m),
           message_ptr[c] = Nothing
    PROVE  /\ Less /\ BagToSet(mail') \subseteq BagToSet(mail)
           /\ m = Nothing => UNCHANGED <<mail, message_ptr>>
           /\ m # Nothing => m \in BagToSet(mail) /\ m.type = t /\ Shaped(m)
           /\ message_ptr' \in [Clients -> Message \cup {Nothing}]
           /\ \A d \in Clients : message_ptr'[d] # Nothing => server = "done"
<1>1. /\ IsABag(mail) /\ BagToSet(mail) \subseteq Message
      /\ message_ptr \in [Clients -> Message \cup {Nothing}]
      /\ \A d \in Clients : message_ptr[d] # Nothing => server = "done"
  BY DEF Order, TypeOK, Registered
<1>2. m # Nothing => m \in BagToSet(mail) /\ m.type = t /\ Shaped(m)
  BY DEF Box!Returned, Box!BagToSet, BagToSet, Order
<1>3. CASE server = "done"
  <2>1. mail' = mail /\ message_ptr' = [message_ptr EXCEPT ![c] = m]
    BY <1>3 DEF ClientRead
  <2>2. m = Nothing => message_ptr' = message_ptr
    BY <1>1, <2>1
  <2>3. Less
    BY <1>1, <2>1, SameLess
  <2>4. QED
    BY <1>1, <1>2, <1>3, <2>1, <2>2, <2>3
<1>4. CASE server # "done"
  <2>1. Box!Take(m) /\ UNCHANGED message_ptr
    BY <1>4 DEF ClientRead
  <2>2. QED
    BY <1>1, <1>2, <2>1, Taking
<1>5. QED
  BY <1>3, <1>4

(* While there is a semaphore.                                              *)
LEMMA WithSemaphore ==
    ASSUME Order, server # "done", NEW c \in Clients
    PROVE  ~FreeSlot(c) /\ \A m : ClientRead(c, m) => Box!Take(m)
BY DEF FreeSlot, ClientRead, Order, Registered

(* A write. *)
LEMMA Putting ==
    ASSUME Order, NEW m, Box!Put(m)
    PROVE  Gains(m) /\ BagToSet(mail') \subseteq BagToSet(mail) \cup {m}
<1>1. Gains(m)
  BY PutGains DEF Order, TypeOK
<1>2. QED
  BY <1>1 DEF Gains

(* Where a for loop that notifies leaves the server. *)
LEMMA Notifies ==
    ASSUME Order, NEW from, NEW loop \in Notifying, NEW message \in Message \cup {Nothing},
           NEW ids \in SUBSET Ids, ServerNotifies(from, loop, message, ids),
           message # Nothing => Shaped(message),
           loop = "announce" => message # Nothing /\ message.type = MESSAGE_CLIENT_ID_REQUEST,
           loop = "forward" => message # Nothing /\ message.type = MESSAGE_POST_REQUEST,
           loop = "farewell" => message # Nothing /\ message.type = MESSAGE_OUT_CHAT
    PROVE  /\ server' \in ServerStates /\ todo' \subseteq Ids /\ handled' \in Message \cup {Nothing}
           /\ InHand'
<1>1. /\ server' = IF ids = {} THEN AfterNotifying[loop] ELSE loop
      /\ todo' = ids
      /\ handled' = IF ids = {} THEN Nothing ELSE message
      /\ UNCHANGED client_id
  BY DEF ServerNotifies, ServerGo, users
<1>2. AfterNotifying[loop] \in {"posts", "outs", "loop", "remove"}
  BY DEF AfterNotifying, Notifying
<1>3. handled' # Nothing => Shaped(handled)'
  BY <1>1 DEF Shaped
<1>4. QED
  BY <1>1, <1>2, <1>3 DEF InHand, ServerStates, Notifying

(* Whatever is new in the mail is a message of the right shape. *)
MoreShaped ==
    \A m \in BagToSet(mail') : m \in BagToSet(mail) \/ (m \in Message /\ Shaped(m))

(* The server and the messages when neither they nor the ids change. *)
LEMMA SameShapes ==
    ASSUME Order, UNCHANGED client_id, MoreShaped
    PROVE  BagToSet(mail') \subseteq Message /\ \A m \in BagToSet(mail') : Shaped(m)'
BY DEF Order, TypeOK, Shaped, MoreShaped

LEMMA SameHand ==
    ASSUME Order, UNCHANGED <<server, todo, handled, client_id>>
    PROVE  /\ server' \in ServerStates /\ todo' \subseteq Ids /\ handled' \in Message \cup {Nothing}
           /\ InHand'
BY DEF Order, TypeOK, InHand, Shaped

(* The variables of the clients and the histories, typed. *)
ClientTypes ==
    /\ mutex_sem \in {0, 1} /\ message_ptr \in [Clients -> Message \cup {Nothing}]
    /\ client \in [Clients -> ClientStates]
    /\ client_id \in [Clients -> Ids \cup {NoId}]
    /\ wait_client_id_flag \in [Clients -> BOOLEAN]
    /\ audience \in [Posts -> SUBSET Clients]
    /\ author \in [Posts -> Clients \cup {Nothing}]
    /\ seen \in [Clients -> Seq(Posts)]

(* What the server does leaves the clients as they are, and it does nothing *)
(* when it has ended.                                                       *)
LEMMA ServerActs ==
    ASSUME ServerStep \/ ServerTypesLine \/ ServerQuits
    PROVE  /\ server # "done"
           /\ UNCHANGED <<mutex_sem, message_ptr, users, program_exit_flag, signals, history>>
<1>1. ASSUME NEW from \in {"loop", "input", "gets"}, StartEndJob(from)
      PROVE  \E to : ServerGo(from, to)
  BY <1>1 DEF StartEndJob, ServerNotifies
<1>2. \E from \in ServerStates \ {"done"} : \E to : ServerGo(from, to)
  BY <1>1 DEF ServerStep, ServerLoop, ServerNotifies, ServerInput, ReadRequest,
     GrantId, DropRequest, ReadPost, ReadOut, Notify, Notifying, RemoveIPC, ServerTypesLine,
     ServerQuits, ServerStates
<1>3. QED
  BY <1>2 DEF ServerGo

LEMMA DoneStays == ASSUME [Next]_vars, server = "done" PROVE server' = "done"
<1>1. ASSUME NEW c \in Clients, ClientStep(c) \/ User(c) \/ InterruptClient(c) \/ KillClient(c)
      PROVE  server' = server
  BY <1>1 DEF ClientStep, User, InterruptClient, KillClient, LoopExit, RequestId, AwaitId, LoopAgain,
     Receive, ReceiveExit, NoInput, SayOut, Attach, TypeNothing, TypeQuit, TypePost, FreeSlot,
     ClientWrite, ClientGo
<1>2. QED
  BY <1>1, ServerActs DEF Next, InterruptServer, vars

(* What remains to be shown of a step of it.                                *)
LEMMA ServerOrder ==
    ASSUME Order, server # "done",
           UNCHANGED <<mutex_sem, message_ptr, users, program_exit_flag, signals, history>>,
           IsABag(mail'), MoreShaped,
           server' \in ServerStates, todo' \subseteq Ids, handled' \in Message \cup {Nothing},
           client_id_pool' \in [Ids -> {"FREE", "TAKED"}], InHand'
    PROVE  Order'
<1>1. BagToSet(mail') \subseteq Message /\ \A m \in BagToSet(mail') : Shaped(m)'
  BY SameShapes DEF users
<1>2. TypeOK'
  BY <1>1 DEF Order, TypeOK, users, history
<1>3. Registered'
  BY DEF Order, Registered, users
<1>4. QED
  BY <1>1, <1>2, <1>3 DEF Order

LEMMA ClientOrder ==
    ASSUME Order, UNCHANGED <<server, client_id_pool, todo, handled, client_id>>,
           IsABag(mail'), MoreShaped,
           ClientTypes', program_exit_flag' \subseteq Procs, signals' \in 0..MaxSignals, Registered'
    PROVE  Order'
<1>1. BagToSet(mail') \subseteq Message /\ \A m \in BagToSet(mail') : Shaped(m)'
  BY SameShapes
<1>2. /\ server' \in ServerStates /\ todo' \subseteq Ids /\ handled' \in Message \cup {Nothing}
      /\ InHand'
  BY SameHand
<1>3. TypeOK'
  BY <1>1, <1>2 DEF Order, TypeOK, ClientTypes
<1>4. QED
  BY <1>1, <1>2, <1>3 DEF Order

(* The ids that GrantId, ReadPost and Notify work with. *)
LEMMA FreeTaked ==
    ASSUME Order
    PROVE  /\ Taked(client_id_pool) \subseteq Ids
           /\ Ids \ Taked(client_id_pool) # {} =>
                 Least(Ids \ Taked(client_id_pool)) \in Ids \ Taked(client_id_pool)
           /\ todo # {} => Least(todo) \in todo /\ Least(todo) \in Ids
           /\ \A id : FreeId(id) \in [Ids -> {"FREE", "TAKED"}]
<1>1. Taked(client_id_pool) \subseteq Ids /\ todo \subseteq Ids
  BY DEF Taked, Order, TypeOK
<1>2. \A id : FreeId(id) \in [Ids -> {"FREE", "TAKED"}]
  BY DEF FreeId, Order, TypeOK
<1>3. QED
  BY <1>1, <1>2, LeastIn

(* A notice is a message. *)
LEMMA Notices ==
    ASSUME Order, server \in Notifying, NEW i \in Ids
    PROVE  /\ Notice(i) \in Message /\ Shaped(Notice(i))
           /\ Notice(i).type = set_addressee(i)
           /\ Notice(i).kind = "MESSAGE" <=> server = "forward"
           /\ server = "forward" => Notice(i).text = handled.text
<1>1. set_addressee(i) \in Nat /\ set_addressee(i) > 4
  BY Addressees
<1>2. handled \in Message \cup {Nothing} /\ (server # "endjob" => handled # Nothing)
  BY DEF Order, TypeOK, InHand, Notifying
<1>3. server # "endjob" =>
        /\ handled.writer_name \in Procs \cup {Nothing}
        /\ handled.text \in Clients \cup Posts \cup Ids \cup {Nothing}
  BY <1>2 DEF Message
<1>4. /\ server = "announce" => handled.writer_name \in Clients
      /\ server = "forward" => handled.text \in Posts
  BY <1>2, <1>3 DEF Order, InHand, Shaped
<1>5. Notice(i) \in Message
  BY <1>1, <1>3, <1>4 DEF Notice, Notifying, Msg, Message, Procs
<1>6. /\ Notice(i).type = set_addressee(i)
      /\ Notice(i).kind = "MESSAGE" <=> server = "forward"
      /\ server = "forward" => Notice(i).text = handled.text
  BY DEF Notice, Notifying, Msg
<1>7. Shaped(Notice(i))
  BY <1>1, <1>4, <1>6 DEF Shaped, MESSAGE_CLIENT_ID_REQUEST, MESSAGE_CLIENT_ID_SET,
     MESSAGE_POST_REQUEST
<1>8. QED
  BY <1>5, <1>6, <1>7

(* The first layer is preserved by what the server does. *)
LEMMA OrderServer ==
    ASSUME Order, ServerStep \/ ServerTypesLine \/ ServerQuits
    PROVE  Order'
<1> DEFINE Pools == [Ids -> {"FREE", "TAKED"}]
<1>a. client_id_pool \in Pools /\ IsABag(mail) /\ todo \subseteq Ids
      /\ handled \in Message \cup {Nothing}
  BY DEF Order, TypeOK
<1>b. /\ server # "done"
      /\ UNCHANGED <<mutex_sem, message_ptr, users, program_exit_flag, signals, history>>
  BY ServerActs
<1>1. ASSUME NEW from, StartEndJob(from) PROVE Order'
  <2>1. ServerNotifies(from, "endjob", Nothing, Taked(client_id_pool))
    BY <1>1 DEF StartEndJob
  <2>2. /\ server' \in ServerStates /\ todo' \subseteq Ids /\ handled' \in Message \cup {Nothing}
        /\ InHand'
    BY <2>1, FreeTaked, Notifies DEF Notifying
  <2>3. QED
    BY <1>1, <1>a, <1>b, <2>1, <2>2, ServerOrder DEF StartEndJob, ServerNotifies, ServerGo, MoreShaped
<1>2. ASSUME NEW from, NEW to \in {"input", "register", "done"}, ServerGo(from, to),
             UNCHANGED <<mail, client_id_pool, todo, handled>>
      PROVE  Order'
  <2>1. server' \in ServerStates
    BY <1>2 DEF ServerGo, ServerStates
  <2>2. InHand'
    BY <1>2 DEF ServerGo, Order, InHand, Shaped, Notifying, users
  <2>3. QED
    BY <1>2, <1>a, <1>b, <2>1, <2>2, ServerOrder DEF ServerGo, MoreShaped
<1>3. CASE ServerLoop
  BY <1>3, <1>1, <1>2 DEF ServerLoop
<1>4. CASE ServerInput \/ ServerTypesLine \/ RemoveIPC
  BY <1>4, <1>2 DEF ServerInput, ServerTypesLine, RemoveIPC
<1>5. CASE ServerQuits
  BY <1>5, <1>1 DEF ServerQuits
<1>6. CASE ReadRequest
  <2>1. PICK m \in Box!Returned(MESSAGE_CLIENT_ID_REQUEST) :
           /\ Box!Take(m)
           /\ ServerGo("register", IF m = Nothing THEN "posts" ELSE "grant")
           /\ handled' = m /\ UNCHANGED <<client_id_pool, todo>>
    BY <1>6 DEF ReadRequest
  <2>2. /\ Less /\ BagToSet(mail') \subseteq BagToSet(mail)
        /\ m \in Message \cup {Nothing}
        /\ m # Nothing => m.type = MESSAGE_CLIENT_ID_REQUEST /\ Shaped(m)
    BY <2>1, Taking
  <2>3. server' \in ServerStates
    BY <2>1 DEF ServerGo, ServerStates
  <2>4. InHand'
    BY <2>1, <2>2 DEF ServerGo, InHand, Shaped, Notifying, users
  <2>5. QED
    BY <1>a, <1>b, <2>1, <2>2, <2>3, <2>4, ServerOrder DEF ServerGo, Less, MoreShaped
<1>7. CASE GrantId
  <2> DEFINE id == Least(Ids \ Taked(client_id_pool))
             m == Msg(MESSAGE_CLIENT_ID_SET, "MESSAGE", Server, SERVER_ID, id)
  <2>1. /\ ServerNotifies("grant", "announce", handled, Taked(client_id_pool))
        /\ server = "grant"
        /\ client_id_pool' = [client_id_pool EXCEPT ![id] = "TAKED"]
        /\ Box!Put(m)
        /\ id \in Ids
    BY <1>7, FreeTaked DEF GrantId, ServerNotifies, ServerGo
  <2>2. m \in Message /\ Shaped(m)
    BY <2>1, Addressees DEF Msg, Message, Procs, Shaped, MESSAGE_CLIENT_ID_REQUEST,
       MESSAGE_CLIENT_ID_SET, MESSAGE_POST_REQUEST
  <2>3. handled # Nothing /\ handled.type = MESSAGE_CLIENT_ID_REQUEST /\ Shaped(handled)
    BY <2>1 DEF Order, InHand
  <2>4. /\ server' \in ServerStates /\ todo' \subseteq Ids /\ handled' \in Message \cup {Nothing}
        /\ InHand'
    BY <1>a, <2>1, <2>3, FreeTaked, Notifies DEF Notifying
  <2>5. Gains(m) /\ BagToSet(mail') \subseteq BagToSet(mail) \cup {m}
    BY <2>1, Putting
  <2>6. client_id_pool' \in Pools
    BY <1>a, <2>1
  <2> HIDE DEF m
  <2>7. QED
    BY <1>b, <2>2, <2>4, <2>5, <2>6, ServerOrder DEF Gains, MoreShaped
<1>8. CASE DropRequest
  <2>1. InHand' /\ server' \in ServerStates
    BY <1>8 DEF DropRequest, ServerGo, InHand, Notifying, ServerStates
  <2>2. QED
    BY <1>8, <1>a, <1>b, <2>1, ServerOrder DEF DropRequest, ServerGo, MoreShaped
<1>9. CASE ReadPost
  <2>1. PICK m \in Box!Returned(MESSAGE_POST_REQUEST) :
           /\ Box!Take(m)
           /\ IF m = Nothing
                THEN ServerGo("posts", "outs") /\ UNCHANGED <<todo, handled>>
                ELSE ServerNotifies("posts", "forward", m, Readers(m))
           /\ UNCHANGED client_id_pool
    BY <1>9 DEF ReadPost
  <2>2. /\ Less /\ BagToSet(mail') \subseteq BagToSet(mail)
        /\ m \in Message \cup {Nothing}
        /\ m # Nothing => m.type = MESSAGE_POST_REQUEST /\ Shaped(m)
    BY <2>1, Taking
  <2>3. /\ server # "done"
        /\ UNCHANGED <<mutex_sem, message_ptr, users, program_exit_flag, signals, history>>
    BY <1>b
  <2>4. CASE m = Nothing
    <3>1. InHand' /\ server' \in ServerStates
      BY <2>1, <2>4 DEF ServerGo, Order, InHand, Shaped, Notifying, ServerStates, users
    <3>2. QED
      BY <1>a, <2>1, <2>2, <2>3, <2>4, <3>1, ServerOrder DEF Less, MoreShaped
  <2>5. CASE m # Nothing
    <3>1. /\ server' \in ServerStates /\ todo' \subseteq Ids
          /\ handled' \in Message \cup {Nothing} /\ InHand'
      BY <2>1, <2>2, <2>5, FreeTaked, Notifies DEF Notifying, Readers
    <3>2. QED
      BY <1>a, <2>1, <2>2, <2>3, <3>1, ServerOrder DEF Less, MoreShaped
  <2>6. QED
    BY <2>4, <2>5
<1>10. CASE ReadOut
  <2>1. PICK m \in Box!Returned(MESSAGE_OUT_CHAT) :
          /\ Box!Take(m)
          /\ \/ /\ m = Nothing
                /\ ServerGo("outs", "loop")
                /\ UNCHANGED <<client_id_pool, todo, handled>>
             \/ /\ m # Nothing
                /\ client_id_pool' = FreeId(m.writer_id)
                /\ \/ ServerNotifies("outs", "farewell", m, Taked(client_id_pool'))
                   \/ /\ m.writer_id = NoId
                      /\ ServerGo("outs", "crashed") /\ UNCHANGED <<todo, handled>>
    BY <1>10 DEF ReadOut
  <2>2. /\ Less /\ BagToSet(mail') \subseteq BagToSet(mail)
        /\ m \in Message \cup {Nothing}
        /\ m # Nothing => m.type = MESSAGE_OUT_CHAT /\ Shaped(m)
    BY <2>1, Taking
  <2>3. /\ server # "done"
        /\ UNCHANGED <<mutex_sem, message_ptr, users, program_exit_flag, signals, history>>
    BY <1>b
  <2>4. client_id_pool' \in Pools
    BY <1>a, <2>1, FreeTaked
  <2>5. CASE (ServerGo("outs", "loop") \/ ServerGo("outs", "crashed"))
             /\ UNCHANGED <<todo, handled>>
    <3>1. InHand' /\ server' \in ServerStates
      BY <2>5 DEF ServerGo, Order, InHand, Shaped, Notifying, ServerStates, users
    <3>2. QED
      BY <1>a, <2>2, <2>3, <2>4, <2>5, <3>1, ServerOrder DEF Less, MoreShaped
  <2>6. CASE m # Nothing /\ ServerNotifies("outs", "farewell", m, Taked(client_id_pool'))
    <3>1. Taked(client_id_pool') \subseteq Ids
      BY DEF Taked
    <3>2. /\ server' \in ServerStates /\ todo' \subseteq Ids
          /\ handled' \in Message \cup {Nothing} /\ InHand'
      BY <2>2, <2>6, <3>1, Notifies DEF Notifying
    <3>3. QED
      BY <2>2, <2>3, <2>4, <3>2, ServerOrder DEF Less, MoreShaped
  <2>7. QED
    BY <2>1, <2>5, <2>6
<1>11. CASE Notify
  <2> DEFINE i == Least(todo)
  <2>1. /\ server \in Notifying /\ Box!Put(Notice(i))
        /\ ServerNotifies(server, server, handled, todo \ {i})
        /\ UNCHANGED client_id_pool
    BY <1>11 DEF Notify
  <2>2. i \in Ids
    BY <2>1, FreeTaked DEF Order, InHand
  <2>3. Notice(i) \in Message /\ Shaped(Notice(i))
    BY <2>1, <2>2, Notices
  <2>4. /\ server' \in ServerStates /\ todo' \subseteq Ids /\ handled' \in Message \cup {Nothing}
        /\ InHand'
    <3>1. /\ handled # Nothing => Shaped(handled)
          /\ server = "announce" => handled # Nothing /\ handled.type = MESSAGE_CLIENT_ID_REQUEST
          /\ server = "forward" => handled # Nothing /\ handled.type = MESSAGE_POST_REQUEST
          /\ server = "farewell" => handled # Nothing /\ handled.type = MESSAGE_OUT_CHAT
      BY DEF Order, InHand
    <3>2. todo \ {i} \in SUBSET Ids
      BY <1>a
    <3>3. QED
      BY <1>a, <2>1, <3>1, <3>2, Notifies
  <2>5. Gains(Notice(i)) /\ BagToSet(mail') \subseteq BagToSet(mail) \cup {Notice(i)}
    BY <2>1, Putting
  <2>6. /\ server # "done"
        /\ UNCHANGED <<mutex_sem, message_ptr, users, program_exit_flag, signals, history>>
    BY <1>b
  <2>7. QED
    BY <1>a, <2>1, <2>3, <2>4, <2>5, <2>6, ServerOrder DEF Gains, MoreShaped
<1>12. QED
  BY <1>3, <1>4, <1>5, <1>6, <1>7, <1>8, <1>9, <1>10, <1>11 DEF ServerStep

(* A step of a client that changes neither the mail nor its id.             *)
LEMMA ClientMoves ==
    ASSUME Order, NEW c \in Clients, NEW from, NEW to \in ClientStates, ClientGo(c, from, to),
           UNCHANGED <<mail, message_ptr, client_id, wait_client_id_flag, history>>,
           to \in {"receive", "input", "gets"} => client_id[c] # NoId
    PROVE  Order'
<1>1. ClientTypes' /\ Registered'
  BY DEF ClientGo, Order, TypeOK, ClientTypes, Registered, history
<1>2. QED
  BY <1>1, ClientOrder DEF ClientGo, MoreShaped, Order, TypeOK

(* A client's write, whatever became of the semaphore.                      *)
LEMMA ClientWrites ==
    ASSUME Order, NEW c \in Clients, NEW from, NEW m, NEW to \in {"loop", "gone"},
           ClientWrite(c, from, m, to), m \in Message /\ Shaped(m)
    PROVE  /\ IsABag(mail') /\ MoreShaped
           /\ client' \in [Clients -> ClientStates]
           /\ UNCHANGED <<mutex_sem, message_ptr, server, client_id_pool, todo, handled,
                          program_exit_flag, signals>>
           /\ client_id' = client_id => Registered'
<1>1. PICK next \in {to, "failed"} : ClientGo(c, from, next) /\ UNCHANGED message_ptr
  BY DEF ClientWrite
<1>2. IsABag(mail') /\ MoreShaped
  <2>1. CASE UNCHANGED mail
    BY <2>1 DEF MoreShaped, Order, TypeOK
  <2>2. CASE Box!Put(m)
    BY <2>2, Putting DEF Gains, MoreShaped
  <2>3. QED
    BY <2>1, <2>2 DEF ClientWrite
<1>3. QED
  BY <1>1, <1>2 DEF ClientGo, Order, TypeOK, ClientStates, Gone, Registered

(* The first layer is preserved by what a client and its user do.           *)
LEMMA OrderClient ==
    ASSUME Order, NEW c \in Clients, ClientStep(c) \/ User(c)
    PROVE  Order'
<1>a. /\ ClientTypes /\ IsABag(mail) /\ BagToSet(mail) \subseteq Message
      /\ program_exit_flag \subseteq Procs /\ signals \in 0..MaxSignals
  BY DEF Order, TypeOK, ClientTypes
<1>b. client[c] \in {"receive", "input", "gets"} => client_id[c] # NoId
  BY DEF Order, Registered
<1>1. CASE LoopExit(c) \/ Attach(c) \/ TypeNothing(c) \/ TypeQuit(c) \/ NoInput(c)
  BY <1>1, ClientMoves
     DEF LoopExit, Attach, TypeNothing, TypeQuit, NoInput, ClientStates, Gone, Typing
<1>2. CASE LoopAgain(c) \/ ReceiveExit(c)
  <2>1. client_id[c] # NoId
    BY <1>2, <1>b DEF LoopAgain, ReceiveExit, ClientGo
  <2>2. QED
    BY <1>2, <2>1, ClientMoves DEF LoopAgain, ReceiveExit, ClientStates, Gone
<1>3. CASE RequestId(c)
  <2> DEFINE m == Msg(MESSAGE_CLIENT_ID_REQUEST, "IN", c, NoId, c)
  <2>1. m \in Message /\ Shaped(m)
    BY Addressees DEF Msg, Message, Procs, Shaped, MESSAGE_CLIENT_ID_REQUEST,
       MESSAGE_CLIENT_ID_SET, MESSAGE_POST_REQUEST
  <2>2. ClientWrite(c, "loop", m, "loop") /\ UNCHANGED <<client_id, history>>
        /\ wait_client_id_flag' = [wait_client_id_flag EXCEPT ![c] = TRUE]
    BY <1>3 DEF RequestId
  <2> HIDE DEF m
  <2>3. ClientTypes'
    BY <1>a, <2>1, <2>2, ClientWrites DEF ClientTypes, history
  <2>4. QED
    BY <1>a, <2>1, <2>2, <2>3, ClientWrites, ClientOrder
<1>4. CASE AwaitId(c)
  <2>1. PICK m \in Box!Returned(MESSAGE_CLIENT_ID_SET) :
          /\ ClientRead(c, m) /\ message_ptr[c] = Nothing
          /\ IF m = Nothing
               THEN ClientGo(c, "loop", "loop") /\ UNCHANGED client_id
               ELSE /\ ClientGo(c, "loop", "receive")
                    /\ client_id' = [client_id EXCEPT ![c] = m.text]
          /\ UNCHANGED <<wait_client_id_flag, history>>
    BY <1>4 DEF AwaitId, ClientGo
  <2>2. /\ IsABag(mail') /\ BagToSet(mail') \subseteq BagToSet(mail)
        /\ m = Nothing => UNCHANGED <<mail, message_ptr>>
        /\ m # Nothing => m.type = MESSAGE_CLIENT_ID_SET /\ Shaped(m)
        /\ message_ptr' \in [Clients -> Message \cup {Nothing}]
        /\ \A d \in Clients : message_ptr'[d] # Nothing => server = "done"
    BY <2>1, Reading DEF Less
  <2>3. CASE m = Nothing
    BY <2>1, <2>2, <2>3, ClientMoves DEF ClientStates
  <2>4. CASE m # Nothing
    <3>1. m.text \in Ids
      <4>1. m.type = MESSAGE_CLIENT_ID_SET /\ Shaped(m)
        BY <2>2, <2>4
      <4>2. QED
        BY <4>1, Zenon DEF Shaped
    <3>2. ClientTypes' /\ Registered'
      <4>1. /\ client' = [client EXCEPT ![c] = "receive"]
            /\ client_id' = [client_id EXCEPT ![c] = m.text]
            /\ UNCHANGED <<mutex_sem, server, wait_client_id_flag, audience, author, seen>>
        BY <2>1, <2>4 DEF ClientGo, history
      <4>2. ClientTypes'
        BY <1>a, <2>2, <3>1, <4>1 DEF ClientTypes, ClientStates
      <4>3. m.text # NoId
        BY <3>1, ChatAssumption DEF Ids, NoId
      <4>4. Registered'
        BY <1>a, <2>2, <4>1, <4>3 DEF Order, Registered, ClientTypes
      <4>5. QED
        BY <4>2, <4>4
    <3>3. /\ UNCHANGED <<server, client_id_pool, todo, handled, program_exit_flag, signals>>
          /\ client_id[c] = NoId
          /\ \A d \in Clients : client_id'[d] = IF d = c THEN m.text ELSE client_id[d]
      BY <1>a, <1>4, <2>1, <2>4 DEF ClientGo, ClientTypes, AwaitId
    <3>4. \A n : Shaped(n) => Shaped(n)'
      BY <3>3 DEF Shaped
    <3>5. (\A n \in BagToSet(mail') : Shaped(n)') /\ InHand'
      BY <2>2, <3>3, <3>4 DEF Order, InHand
    <3>6. TypeOK'
      BY <1>a, <2>2, <3>2, <3>3 DEF Order, TypeOK, ClientTypes
    <3>7. QED
      BY <3>2, <3>5, <3>6 DEF Order
  <2>5. QED
    BY <2>3, <2>4
<1>5. CASE Receive(c)
  <2>1. PICK m \in Box!Returned(set_addressee(client_id[c])) :
          /\ ClientRead(c, m) /\ message_ptr[c] = Nothing
          /\ \/ m = Nothing /\ ClientGo(c, "receive", "input") /\ UNCHANGED seen
             \/ /\ m # Nothing /\ m.kind = "MESSAGE"
                /\ ClientGo(c, "receive", "receive")
                /\ seen' = [seen EXCEPT ![c] = Append(seen[c], m.text)]
             \/ /\ m # Nothing
                /\ ClientGo(c, "receive", "receive") \/ ClientGo(c, "receive", "ended")
                /\ UNCHANGED seen
          /\ UNCHANGED <<client_id, wait_client_id_flag, audience, author>>
    BY <1>5 DEF Receive, ClientGo
  <2>2. client[c] = "receive" /\ client_id[c] \in Ids
    BY <1>a, <1>b, <2>1 DEF ClientGo, ClientTypes
  <2>3. /\ IsABag(mail') /\ BagToSet(mail') \subseteq BagToSet(mail)
        /\ m # Nothing => m.type = set_addressee(client_id[c]) /\ Shaped(m)
        /\ message_ptr' \in [Clients -> Message \cup {Nothing}]
        /\ \A d \in Clients : message_ptr'[d] # Nothing => server = "done"
    BY <2>1, Reading DEF Less
  <2>4. m # Nothing /\ m.kind = "MESSAGE" => m.text \in Posts
    BY <2>2, <2>3 DEF Shaped
  <2>5. seen' \in [Clients -> Seq(Posts)]
    <3>1. seen[c] \in Seq(Posts)
      BY <1>a DEF ClientTypes
    <3>2. m # Nothing /\ m.kind = "MESSAGE" => Append(seen[c], m.text) \in Seq(Posts)
      BY <2>4, <3>1, AppendProperties
    <3>3. QED
      BY <1>a, <2>1, <3>2 DEF ClientTypes
  <2>6. PICK to \in {"receive", "input", "ended"} : ClientGo(c, "receive", to)
    BY <2>1
  <2>7. ClientTypes' /\ Registered'
    BY <1>a, <1>b, <2>1, <2>3, <2>5, <2>6
       DEF ClientGo, ClientTypes, ClientStates, Gone, Order, Registered
  <2>8. QED
    BY <1>a, <2>1, <2>3, <2>6, <2>7, ClientOrder DEF ClientGo, MoreShaped
<1>6. CASE SayOut(c)
  <2> DEFINE m == Msg(MESSAGE_OUT_CHAT, "OUT", c, client_id[c], c)
  <2>1. m \in Message /\ Shaped(m)
    BY <1>a, Addressees DEF Msg, Message, Procs, Shaped, MESSAGE_CLIENT_ID_REQUEST,
       MESSAGE_CLIENT_ID_SET, MESSAGE_POST_REQUEST, MESSAGE_OUT_CHAT, ClientTypes
  <2>2. ClientWrite(c, "leave", m, "gone")
        /\ UNCHANGED <<client_id, wait_client_id_flag, history>>
    BY <1>6 DEF SayOut
  <2> HIDE DEF m
  <2>3. ClientTypes'
    BY <1>a, <2>1, <2>2, ClientWrites DEF ClientTypes, history
  <2>4. QED
    BY <1>a, <2>1, <2>2, <2>3, ClientWrites, ClientOrder
<1>7. ASSUME NEW p \in Posts, TypePost(c, p) PROVE Order'
  <2> DEFINE m == Msg(MESSAGE_POST_REQUEST, "MESSAGE", c, client_id[c], p)
  <2>1. PICK from \in Typing : ClientWrite(c, from, m, "loop")
    BY <1>7 DEF TypePost
  <2>2. client_id[c] \in Ids
    BY <1>a, <1>b, <2>1 DEF ClientWrite, ClientGo, Typing, ClientTypes
  <2>3. m \in Message /\ Shaped(m)
    BY <2>2, Addressees DEF Msg, Message, Procs, Shaped, MESSAGE_CLIENT_ID_REQUEST,
       MESSAGE_CLIENT_ID_SET, MESSAGE_POST_REQUEST, Ids, NoId
  <2>4. /\ UNCHANGED <<client_id, wait_client_id_flag, seen>>
        /\ author' \in [Posts -> Clients \cup {Nothing}]
        /\ audience' \in [Posts -> SUBSET Clients]
    <3>1. {d \in Clients \ {c} : InChat(d)} \in SUBSET Clients
      OBVIOUS
    <3>2. QED
      BY <1>a, <1>7, <3>1 DEF TypePost, ClientTypes
  <2> HIDE DEF m
  <2>5. ClientTypes'
    BY <1>a, <2>1, <2>3, <2>4, ClientWrites DEF ClientTypes
  <2>6. QED
    BY <1>a, <2>1, <2>3, <2>4, <2>5, ClientWrites, ClientOrder
<1>8. CASE FreeSlot(c)
  <2>1. /\ Less /\ message_ptr' = [message_ptr EXCEPT ![c] = Nothing]
        /\ UNCHANGED <<mutex_sem, server, client_id_pool, todo, handled, users,
                       program_exit_flag, signals, history>>
    BY <1>8, <1>a, TakeAny DEF FreeSlot
  <2>2. ClientTypes' /\ Registered'
    BY <1>a, <2>1 DEF ClientTypes, Order, Registered, users, history
  <2>3. QED
    BY <1>a, <2>1, <2>2, ClientOrder DEF Less, MoreShaped, users
<1>9. QED
  BY <1>1, <1>2, <1>3, <1>4, <1>5, <1>6, <1>7, <1>8 DEF ClientStep, User

(* The first layer is preserved.                                            *)
LEMMA OrderStep == ASSUME Order, [Next]_vars PROVE Order'
<1>1. CASE ServerStep \/ ServerTypesLine \/ ServerQuits
  BY <1>1, OrderServer
<1>2. ASSUME NEW c \in Clients, ClientStep(c) \/ User(c) PROVE Order'
  BY <1>2, OrderClient
<1>a. Signal => signals' \in 0..MaxSignals
  BY ChatAssumption DEF Signal, Order, TypeOK
<1>3. CASE InterruptServer
  <2>1. /\ server' \in ServerStates /\ todo' \subseteq Ids
        /\ handled' \in Message \cup {Nothing} /\ InHand'
    BY <1>3 DEF InterruptServer, AfterInterrupt, Order, TypeOK, InHand, Shaped, ServerStates,
       Notifying, users
  <2>2. (\A m \in BagToSet(mail') : Shaped(m)') /\ Registered'
    BY <1>3 DEF InterruptServer, Order, Shaped, Registered, users
  <2>3. TypeOK'
    BY <1>3, <1>a, <2>1 DEF InterruptServer, Order, TypeOK, users, history, Procs
  <2>4. QED
    BY <2>1, <2>2, <2>3 DEF Order
<1>4. ASSUME NEW c \in Clients, InterruptClient(c) \/ KillClient(c) PROVE Order'
  <2>1. /\ ClientTypes' /\ Registered' /\ program_exit_flag' \subseteq Procs
        /\ UNCHANGED <<mail, server, client_id_pool, todo, handled, client_id>>
    BY <1>4 DEF InterruptClient, KillClient, Order, TypeOK, ClientTypes, ClientStates, Gone,
       Registered, history, Procs
  <2>2. signals' \in 0..MaxSignals
    BY <1>4, <1>a DEF InterruptClient, KillClient
  <2>3. QED
    BY <2>1, <2>2, ClientOrder DEF MoreShaped, Order, TypeOK
<1>5. CASE UNCHANGED vars
  BY <1>5 DEF vars, users, history, Order, TypeOK, Shaped, InHand, Registered
<1>6. QED
  BY <1>1, <1>2, <1>3, <1>4, <1>5 DEF Next

-----------------------------------------------------------------------------
(* The second layer: how a step of the chat moves an id.                    *)

SameId(i) == client_id_pool'[i] = client_id_pool[i]
FewerReplies(i) ==
    Carriers(i)' \subseteq Carriers(i) /\ \A m \in Carriers(i)' : mail'[m] <= mail[m]
OneLess(i, m) == FewerReplies(i) /\ m \in Carriers(i) /\ (mail[m] = 1 => m \notin Carriers(i)')
OneMore(i, m) ==
    /\ m \in Carriers(i)'
    /\ \A n \in Carriers(i)' \ {m} : n \in Carriers(i) /\ mail'[n] <= mail[n]
    /\ m \notin Carriers(i) => mail'[m] = 1

(* Nothing, unless a full buffer loses a message that carries the id.       *)
Stays(i) ==
    /\ SameId(i) /\ Holders(i)' = Holders(i) /\ FewerReplies(i)
    /\ ~Box!Full => Carriers(i) \subseteq Carriers(i)'
Granted(i) ==
    /\ client_id_pool[i] = "FREE" /\ client_id_pool'[i] = "TAKED"
    /\ Holders(i)' = Holders(i) /\ \E m : m.type = MESSAGE_CLIENT_ID_SET /\ OneMore(i, m)
Claimed(i) ==
    /\ SameId(i) /\ \E m : m.type = MESSAGE_CLIENT_ID_SET /\ OneLess(i, m)
    /\ \E c \in Clients : /\ Holders(i)' = Holders(i) \cup {c}
                          /\ \A j \in Ids : c \notin Holders(j)
SignedOff(i) ==
    /\ SameId(i) /\ \E m : m.type = MESSAGE_OUT_CHAT /\ OneMore(i, m)
    /\ \E c \in Holders(i) : Holders(i)' = Holders(i) \ {c}
Freed(i) ==
    /\ client_id_pool'[i] = "FREE"
    /\ Holders(i)' = Holders(i) /\ \E m : m.type = MESSAGE_OUT_CHAT /\ OneLess(i, m)

(* The other ids stay; one of them may be lost.                             *)
OthersStay(one, loser) ==
    \A i \in Ids \ {one} : Stays(i) /\ (i # loser => Carriers(i) \subseteq Carriers(i)')

(* One id moves at most, and only a write loses one.                        *)
Moves ==
    \/ \E loser : OthersStay(NoId, loser)
    \/ \E one \in Ids : \E loser : (Granted(one) \/ SignedOff(one)) /\ OthersStay(one, loser)
    \/ \E one \in Ids : (Claimed(one) \/ Freed(one)) /\ OthersStay(one, NoId)

LEMMA EachMoves ==
    ASSUME Moves, NEW i \in Ids
    PROVE  Stays(i) \/ Granted(i) \/ Claimed(i) \/ SignedOff(i) \/ Freed(i)
<1>1. NoId \notin Ids
  BY DEF NoId, Ids
<1>2. QED
  BY <1>1, Zenon DEF Moves, OthersStay

(* Each of the moves keeps an id with one owner at most.                    *)
LEMMA MovesKeepOwnership ==
    ASSUME Order, Order', Ownership, Moves PROVE Ownership'
<1> SUFFICES ASSUME NEW i \in Ids
             PROVE  IF client_id_pool'[i] = "TAKED" THEN OwnedOnce(i)' ELSE Unowned(i)'
  BY DEF Ownership
<1>1. /\ client_id_pool \in [Ids -> {"FREE", "TAKED"}]
      /\ \A m \in Carriers(i) : mail[m] \in Nat /\ mail[m] > 0
      /\ \A m \in Carriers(i)' : mail'[m] \in Nat /\ mail'[m] > 0
  BY DEF Order, TypeOK, IsABag, BagToSet, Carriers
<1>2. IF client_id_pool[i] = "TAKED" THEN OwnedOnce(i) ELSE Unowned(i)
  BY DEF Ownership
<1>3. CASE Stays(i)
  BY <1>1, <1>2, <1>3 DEF Stays, SameId, FewerReplies, OwnedOnce, Unowned
<1>4. CASE Granted(i)
  BY <1>1, <1>2, <1>4 DEF Granted, OneMore, OwnedOnce, Unowned
<1>5. CASE Claimed(i)
  <2>1. PICK m : OneLess(i, m)
    BY <1>5 DEF Claimed
  <2>2. client_id_pool[i] = "TAKED" /\ OwnedOnce(i)
    BY <1>1, <1>2, <2>1 DEF Unowned, OneLess
  <2>3. Carriers(i)' = {} /\ Holders(i) = {}
    BY <2>1, <2>2 DEF OneLess, FewerReplies, OwnedOnce
  <2>4. QED
    BY <1>5, <2>2, <2>3 DEF Claimed, SameId, OwnedOnce
<1>6. CASE SignedOff(i)
  <2>1. PICK c \in Holders(i) : Holders(i)' = Holders(i) \ {c}
    BY <1>6 DEF SignedOff
  <2>2. client_id_pool[i] = "TAKED" /\ OwnedOnce(i)
    BY <1>1, <1>2, <2>1 DEF Unowned
  <2>3. Carriers(i) = {} /\ Holders(i)' = {}
    BY <2>1, <2>2 DEF OwnedOnce
  <2>4. QED
    BY <1>6, <2>2, <2>3 DEF SignedOff, OneMore, SameId, OwnedOnce
<1>7. CASE Freed(i)
  <2>1. PICK m : OneLess(i, m)
    BY <1>7 DEF Freed
  <2>2. OwnedOnce(i)
    BY <1>2, <2>1 DEF Unowned, OneLess
  <2>3. QED
    BY <1>7, <2>1, <2>2 DEF Freed, OneLess, FewerReplies, OwnedOnce, Unowned
<1>8. QED
  BY <1>3, <1>4, <1>5, <1>6, <1>7, EachMoves

(* And none loses an id while the buffer has room.                          *)
LEMMA MovesKeepIds ==
    ASSUME Order, Order', Ownership, NoneLost, ~Box!Full, Moves PROVE NoneLost'
<1> SUFFICES ASSUME NEW i \in Ids, client_id_pool'[i] = "TAKED"
             PROVE  ~Unowned(i)'
  BY DEF NoneLost
<1>1. CASE Stays(i)
  BY <1>1 DEF Stays, SameId, NoneLost, Unowned
<1>2. CASE Granted(i) \/ SignedOff(i)
  BY <1>2 DEF Granted, SignedOff, OneMore, Unowned
<1>3. CASE Claimed(i)
  BY <1>3 DEF Claimed, Unowned
<1>4. CASE Freed(i)
  BY <1>4 DEF Freed
<1>5. QED
  BY <1>1, <1>2, <1>3, <1>4, EachMoves

(* What the mailbox's operations do to the messages that carry an id.       *)
LEMMA TakeCarriers ==
    ASSUME Order, NEW t, NEW m \in Box!Returned(t), Box!Take(m), NEW i \in Ids
    PROVE  /\ FewerReplies(i)
           /\ m = Nothing \/ ~Carries(m, i) => Carriers(i) \subseteq Carriers(i)'
           /\ m # Nothing /\ Carries(m, i) => OneLess(i, m)
<1>1. /\ Less
      /\ m = Nothing => mail' = mail
      /\ m # Nothing => /\ m \in BagToSet(mail)
                        /\ BagToSet(mail) \ {m} \subseteq BagToSet(mail')
                        /\ mail[m] = 1 => m \notin BagToSet(mail')
  BY Taking
<1>2. FewerReplies(i)
  BY <1>1 DEF Less, FewerReplies, Carriers
<1>3. QED
  BY <1>1, <1>2 DEF OneLess, Carriers

LEMMA PutCarriers ==
    ASSUME Order, NEW m, Box!Put(m), NEW i \in Ids
    PROVE  /\ ~Carries(m, i) => FewerReplies(i)
           /\ ~Box!Full => Carriers(i) \subseteq Carriers(i)'
           /\ Carries(m, i) => OneMore(i, m)
<1>1. Gains(m) /\ (~Box!Full => BagToSet(mail) \subseteq BagToSet(mail'))
  BY Putting, PutKeeps DEF Order, TypeOK
<1>2. QED
  BY <1>1 DEF Gains, FewerReplies, OneMore, Carriers

(* A write into a full buffer loses one message at most, and with it one id.*)
LEMMA PutLosesOne ==
    ASSUME IsABag(mail), NEW m, Box!Put(m)
    PROVE  \E old : \A n \in BagToSet(mail) : n # old => n \in BagToSet(mail')
<1> USE DEF IsABag, BagToSet
<1>1. CASE Box!Full
  <2>1. PICK old : mail' = Box!(+)(Box!(-)(mail, Box!One(old)), Box!One(m))
    BY <1>1 DEF Box!Put
  <2>2. PICK B : B = Box!(-)(mail, Box!One(old))
    OBVIOUS
  <2>3. \A n \in DOMAIN mail : n # old => n \in DOMAIN B
    BY <2>2 DEF Box!(-), Box!One, Box!SetToBag
  <2>4. DOMAIN mail' = DOMAIN B \cup {m}
    BY <2>1, <2>2 DEF Box!(+), Box!One, Box!SetToBag
  <2>5. QED
    BY <2>3, <2>4
<1>2. CASE ~Box!Full
  BY <1>2, PutKeeps
<1>3. QED
  BY <1>1, <1>2

LEMMA PutSpares ==
    ASSUME Order, NEW m, Box!Put(m)
    PROVE  \E loser : \A i \in Ids : i # loser => Carriers(i) \subseteq Carriers(i)'
<1>1. PICK old : \A n \in BagToSet(mail) : n # old => n \in BagToSet(mail')
  BY PutLosesOne DEF Order, TypeOK
<1>2. \E loser : \A i \in Ids : Carries(old, i) => i = loser
  BY DEF Carries, MESSAGE_CLIENT_ID_SET, MESSAGE_OUT_CHAT
<1>3. QED
  BY <1>1, <1>2 DEF Carriers

(* A step that has to do with no other id.                                  *)
LEMMA TakeStays ==
    ASSUME Order, NEW t, NEW m \in Box!Returned(t), Box!Take(m), NEW one,
           \A i \in Ids \ {one} :
              (m = Nothing \/ ~Carries(m, i)) /\ SameId(i) /\ Holders(i)' = Holders(i)
    PROVE  OthersStay(one, NoId)
BY TakeCarriers DEF OthersStay, Stays

LEMMA PutStays ==
    ASSUME Order, NEW m, Box!Put(m), NEW one,
           \A i \in Ids \ {one} : ~Carries(m, i) /\ SameId(i) /\ Holders(i)' = Holders(i)
    PROVE  \E loser : OthersStay(one, loser)
<1>1. PICK loser : \A i \in Ids : i # loser => Carriers(i) \subseteq Carriers(i)'
  BY PutSpares
<1>2. OthersStay(one, loser)
  BY <1>1, PutCarriers DEF OthersStay, Stays
<1>3. QED
  BY <1>2

LEMMA SameStays ==
    ASSUME Order, UNCHANGED <<mail, client_id_pool>>, \A i \in Ids : Holders(i)' = Holders(i)
    PROVE  OthersStay(NoId, NoId)
BY DEF OthersStay, Stays, SameId, FewerReplies, Carriers, Order, TypeOK, IsABag, BagToSet

LEMMA MovesServer ==
    ASSUME Order, ServerStep \/ ServerTypesLine \/ ServerQuits
    PROVE  Moves
<1> USE DEF SameId
<1>a. UNCHANGED users
  BY DEF ServerStep, ServerTypesLine, ServerQuits, ServerLoop, StartEndJob, ServerInput, ReadRequest,
     GrantId, DropRequest, ReadPost, ReadOut, Notify, RemoveIPC, ServerNotifies, ServerGo
<1>b. \A i \in Ids : Holders(i)' = Holders(i)
  BY <1>a DEF Holders, users
<1>c. client_id_pool \in [Ids -> {"FREE", "TAKED"}]
  BY DEF Order, TypeOK
<1>1. CASE ServerLoop \/ ServerInput \/ ServerTypesLine \/ RemoveIPC \/ ServerQuits \/ DropRequest
  <2>1. UNCHANGED <<mail, client_id_pool>>
    BY <1>1 DEF ServerLoop, ServerInput, ServerTypesLine, RemoveIPC, ServerQuits, DropRequest,
       StartEndJob
  <2>2. QED
    BY <1>b, <2>1, SameStays DEF Moves
<1>2. CASE ReadRequest \/ ReadPost
  <2>1. PICK t \in {MESSAGE_CLIENT_ID_REQUEST, MESSAGE_POST_REQUEST} :
          /\ UNCHANGED client_id_pool
          /\ \E m \in Box!Returned(t) : Box!Take(m)
    BY <1>2 DEF ReadRequest, ReadPost
  <2>2. PICK m \in Box!Returned(t) : Box!Take(m)
    BY <2>1
  <2>3. \A i \in Ids : m = Nothing \/ ~Carries(m, i)
    BY <2>2, Taking DEF Carries, MESSAGE_CLIENT_ID_REQUEST, MESSAGE_POST_REQUEST,
       MESSAGE_CLIENT_ID_SET, MESSAGE_OUT_CHAT
  <2>4. OthersStay(NoId, NoId)
    BY <1>b, <2>1, <2>2, <2>3, TakeStays
  <2>5. QED
    BY <2>4 DEF Moves
<1>3. CASE GrantId
  <2>1. PICK id, m : /\ id = Least(Ids \ Taked(client_id_pool))
                     /\ m = Msg(MESSAGE_CLIENT_ID_SET, "MESSAGE", Server, SERVER_ID, id)
    OBVIOUS
  <2>2. /\ client_id_pool' = [client_id_pool EXCEPT ![id] = "TAKED"]
        /\ Box!Put(m) /\ id \in Ids \ Taked(client_id_pool)
    BY <1>3, <2>1, FreeTaked DEF GrantId
  <2>3. m.type = MESSAGE_CLIENT_ID_SET /\ \A i \in Ids : Carries(m, i) <=> i = id
    BY <2>1 DEF Carries, Msg, MESSAGE_CLIENT_ID_SET, MESSAGE_OUT_CHAT
  <2>4. OneMore(id, m)
    BY <2>2, <2>3, PutCarriers
  <2>5. Granted(id)
    BY <1>b, <1>c, <2>2, <2>3, <2>4 DEF Granted, Taked
  <2>6. \E loser : OthersStay(id, loser)
    BY <1>b, <1>c, <2>2, <2>3, PutStays
  <2>7. QED
    BY <2>2, <2>5, <2>6 DEF Moves
<1>4. CASE ReadOut
  <2>1. PICK m \in Box!Returned(MESSAGE_OUT_CHAT) :
          /\ Box!Take(m)
          /\ m = Nothing => UNCHANGED client_id_pool
          /\ m # Nothing => client_id_pool' = FreeId(m.writer_id)
    BY <1>4 DEF ReadOut
  <2>2. m # Nothing => m.type = MESSAGE_OUT_CHAT
    BY <2>1, Taking
  <2>3. m # Nothing => \A i \in Ids : Carries(m, i) <=> m.writer_id = i
    BY <2>2 DEF Carries, MESSAGE_CLIENT_ID_SET, MESSAGE_OUT_CHAT
  <2>4. CASE m # Nothing /\ m.writer_id \in Ids
    <3>1. PICK id \in Ids : id = m.writer_id
      BY <2>4
    <3>2. OneLess(id, m)
      BY <2>1, <2>3, <2>4, <3>1, TakeCarriers
    <3>3. Freed(id)
      BY <1>b, <1>c, <2>1, <2>2, <2>4, <3>1, <3>2 DEF Freed, FreeId
    <3>4. OthersStay(id, NoId)
      BY <1>b, <1>c, <2>1, <2>3, <2>4, <3>1, TakeStays DEF FreeId
    <3>5. QED
      BY <3>3, <3>4 DEF Moves
  <2>5. CASE m = Nothing \/ m.writer_id \notin Ids
    <3>1. OthersStay(NoId, NoId)
      BY <1>b, <1>c, <2>1, <2>3, <2>5, TakeStays DEF FreeId
    <3>2. QED
      BY <3>1 DEF Moves
  <2>6. QED
    BY <2>4, <2>5
<1>5. CASE Notify
  <2>1. PICK m : m = Notice(Least(todo))
    OBVIOUS
  <2>2. server \in Notifying /\ Box!Put(m) /\ UNCHANGED client_id_pool /\ Least(todo) \in Ids
    BY <1>5, <2>1, FreeTaked DEF Notify, Order, InHand
  <2>3. m.type = set_addressee(Least(todo)) /\ m.type > 4
    BY <2>1, <2>2, Notices, Addressees
  <2>4. \A i \in Ids : ~Carries(m, i)
    BY <2>3 DEF Carries, MESSAGE_CLIENT_ID_SET, MESSAGE_OUT_CHAT
  <2>5. QED
    BY <1>b, <2>2, <2>4, PutStays DEF Moves
<1>6. QED
  BY <1>1, <1>2, <1>3, <1>4, <1>5 DEF ServerStep

LEMMA MovesClient ==
    ASSUME Order, server # "done", NEW c \in Clients,
           ClientStep(c) \/ User(c) \/ InterruptClient(c) \/ KillClient(c)
    PROVE  Moves
<1> USE DEF SameId
<1>a. client \in [Clients -> ClientStates] /\ client_id \in [Clients -> Ids \cup {NoId}]
  BY DEF Order, TypeOK
<1>b. NoId \notin Ids
  BY DEF NoId, Ids
<1>c. ASSUME NEW from, NEW to, from # "gone", to # "gone", ClientGo(c, from, to), UNCHANGED client_id
      PROVE  UNCHANGED client_id_pool /\ \A i \in Ids : Holders(i)' = Holders(i)
  BY <1>a, <1>c DEF ClientGo, Holders
<1>1. CASE LoopExit(c) \/ LoopAgain(c) \/ ReceiveExit(c) \/ NoInput(c) \/ Attach(c) \/ TypeNothing(c)
           \/ TypeQuit(c)
  <2>1. PICK from \in ClientStates \ {"gone"}, to \in ClientStates \ {"gone"} :
           ClientGo(c, from, to) /\ UNCHANGED <<mail, client_id>>
    BY <1>1 DEF LoopExit, LoopAgain, ReceiveExit, NoInput, Attach, TypeNothing, TypeQuit,
       ClientStates, Gone, Typing
  <2>2. QED
    BY <1>c, <2>1, SameStays DEF Moves
<1>2. CASE InterruptClient(c) \/ KillClient(c)
  <2>1. UNCHANGED <<mail, client_id_pool>> /\ \A i \in Ids : Holders(i)' = Holders(i)
    BY <1>2, <1>a DEF InterruptClient, KillClient, Holders, Gone
  <2>2. QED
    BY <2>1, SameStays DEF Moves
<1>3. ASSUME NEW from \in ClientStates \ {"gone"}, NEW m, ClientWrite(c, from, m, "loop"),
             UNCHANGED client_id, \A i \in Ids : ~Carries(m, i)
      PROVE  Moves
  <2>1. /\ UNCHANGED client_id_pool /\ \A i \in Ids : Holders(i)' = Holders(i)
        /\ UNCHANGED mail \/ Box!Put(m)
    BY <1>3, <1>c DEF ClientWrite
  <2>2. QED
    BY <1>3, <2>1, SameStays, PutStays DEF Moves
<1>4. CASE RequestId(c)
  <2>1. PICK m : m = Msg(MESSAGE_CLIENT_ID_REQUEST, "IN", c, NoId, c)
    OBVIOUS
  <2>2. ClientWrite(c, "loop", m, "loop") /\ UNCHANGED client_id
    BY <1>4, <2>1 DEF RequestId
  <2>3. \A i \in Ids : ~Carries(m, i)
    BY <2>1 DEF Carries, Msg, MESSAGE_CLIENT_ID_REQUEST, MESSAGE_CLIENT_ID_SET, MESSAGE_OUT_CHAT
  <2>4. QED
    BY <1>3, <2>2, <2>3 DEF ClientStates
<1>5. ASSUME NEW p \in Posts, TypePost(c, p) PROVE Moves
  <2>1. PICK m : m = Msg(MESSAGE_POST_REQUEST, "MESSAGE", c, client_id[c], p)
    OBVIOUS
  <2>2. PICK from \in Typing : ClientWrite(c, from, m, "loop") /\ UNCHANGED client_id
    BY <1>5, <2>1 DEF TypePost
  <2>3. \A i \in Ids : ~Carries(m, i)
    BY <2>1 DEF Carries, Msg, MESSAGE_POST_REQUEST, MESSAGE_CLIENT_ID_SET, MESSAGE_OUT_CHAT
  <2>4. QED
    BY <1>3, <2>2, <2>3 DEF ClientStates, Typing
<1>6. CASE AwaitId(c)
  <2>1. PICK m \in Box!Returned(MESSAGE_CLIENT_ID_SET) :
          /\ Box!Take(m) /\ client[c] = "loop" /\ client_id[c] = NoId
          /\ IF m = Nothing
               THEN ClientGo(c, "loop", "loop") /\ UNCHANGED client_id
               ELSE /\ ClientGo(c, "loop", "receive")
                    /\ client_id' = [client_id EXCEPT ![c] = m.text]
    BY <1>6, WithSemaphore DEF AwaitId, ClientGo
  <2>2. CASE m = Nothing
    <3>1. UNCHANGED client_id_pool /\ \A i \in Ids : Holders(i)' = Holders(i)
      BY <1>c, <2>1, <2>2
    <3>2. OthersStay(NoId, NoId)
      BY <2>1, <2>2, <3>1, TakeStays
    <3>3. QED
      BY <3>2 DEF Moves
  <2>3. CASE m # Nothing
    <3>1. m.type = MESSAGE_CLIENT_ID_SET /\ m.text \in Ids
      BY <2>1, <2>3, Taking DEF Shaped
    <3>2. \A i \in Ids : Carries(m, i) <=> m.text = i
      BY <3>1 DEF Carries, MESSAGE_CLIENT_ID_SET, MESSAGE_OUT_CHAT
    <3>3. /\ UNCHANGED client_id_pool
          /\ \A i \in Ids : Holders(i)' = IF m.text = i THEN Holders(i) \cup {c} ELSE Holders(i)
          /\ \A i \in Ids : c \notin Holders(i)
      BY <1>a, <1>b, <2>1, <2>3 DEF ClientGo, Holders
    <3>4. PICK id \in Ids : id = m.text
      BY <3>1
    <3>5. OneLess(id, m)
      BY <2>1, <2>3, <3>2, <3>4, TakeCarriers
    <3>6. Claimed(id)
      BY <3>1, <3>3, <3>4, <3>5 DEF Claimed
    <3>7. OthersStay(id, NoId)
      BY <2>1, <3>2, <3>3, <3>4, TakeStays
    <3>8. QED
      BY <3>6, <3>7 DEF Moves
  <2>4. QED
    BY <2>2, <2>3
<1>7. CASE Receive(c)
  <2>1. PICK m \in Box!Returned(set_addressee(client_id[c])), to \in {"receive", "input", "ended"} :
           Box!Take(m) /\ ClientGo(c, "receive", to) /\ UNCHANGED client_id
    BY <1>7, WithSemaphore DEF Receive
  <2>2. client_id[c] \in Ids
    BY <1>a, <2>1 DEF ClientGo, Order, Registered
  <2>3. \A i \in Ids : m = Nothing \/ ~Carries(m, i)
    BY <2>1, <2>2, Taking, Addressees DEF Carries, MESSAGE_CLIENT_ID_SET, MESSAGE_OUT_CHAT
  <2>4. UNCHANGED client_id_pool /\ \A i \in Ids : Holders(i)' = Holders(i)
    BY <1>c, <2>1
  <2>5. OthersStay(NoId, NoId)
    BY <2>1, <2>3, <2>4, TakeStays
  <2>6. QED
    BY <2>5 DEF Moves
<1>8. CASE SayOut(c)
  <2>1. PICK m : m = Msg(MESSAGE_OUT_CHAT, "OUT", c, client_id[c], c)
    OBVIOUS
  <2>2. ClientWrite(c, "leave", m, "gone") /\ UNCHANGED client_id
    BY <1>8, <2>1 DEF SayOut
  <2>3. m.type = MESSAGE_OUT_CHAT /\ \A i \in Ids : Carries(m, i) <=> client_id[c] = i
    BY <2>1 DEF Carries, Msg, MESSAGE_CLIENT_ID_SET, MESSAGE_OUT_CHAT
  <2>4. Box!Put(m) /\ ClientGo(c, "leave", "gone")
    BY <2>2 DEF ClientWrite
  <2>5. /\ UNCHANGED client_id_pool
        /\ \A i \in Ids :
              /\ Holders(i)' = IF client_id[c] = i THEN Holders(i) \ {c} ELSE Holders(i)
              /\ client_id[c] = i => c \in Holders(i)
    BY <1>a, <2>2, <2>4 DEF ClientGo, Holders
  <2>6. CASE client_id[c] \in Ids
    <3>1. PICK id \in Ids : id = client_id[c]
      BY <2>6
    <3>2. OneMore(id, m)
      BY <2>3, <2>4, <3>1, PutCarriers
    <3>3. SignedOff(id)
      BY <2>3, <2>5, <3>1, <3>2 DEF SignedOff
    <3>4. \E loser : OthersStay(id, loser)
      BY <2>3, <2>4, <2>5, <3>1, PutStays
    <3>5. QED
      BY <3>3, <3>4 DEF Moves
  <2>7. CASE client_id[c] \notin Ids
    <3>1. \E loser : OthersStay(NoId, loser)
      BY <2>3, <2>4, <2>5, <2>7, PutStays
    <3>2. QED
      BY <3>1 DEF Moves
  <2>8. QED
    BY <2>6, <2>7
<1>9. QED
  BY <1>1, <1>2, <1>4, <1>5, <1>6, <1>7, <1>8, WithSemaphore DEF ClientStep, User

(* Every step until then moves one id along its way, or none.               *)
LEMMA EveryStepMoves == ASSUME Order, server # "done", [Next]_vars PROVE Moves
<1>1. ASSUME UNCHANGED <<mail, client_id_pool, client_id>>, UNCHANGED client PROVE Moves
  BY <1>1, SameStays DEF Moves, SameId, Holders
<1>2. CASE InterruptServer \/ UNCHANGED vars
  BY <1>1, <1>2 DEF InterruptServer, vars, users
<1>3. QED
  BY <1>2, MovesServer, MovesClient DEF Next

-----------------------------------------------------------------------------
(* The third layer: how a step of the chat moves a text.                    *)

FewerPosts(p) ==
    PostOf(p)' \subseteq PostOf(p) /\ \A m \in PostOf(p)' : mail'[m] <= mail[m]
FewerNotices(i, p) ==
    NoticeOf(i, p)' \subseteq NoticeOf(i, p) /\ \A m \in NoticeOf(i, p)' : mail'[m] <= mail[m]
NoNewReader(i, p) == SeenUnder(i, p)' => SeenUnder(i, p)
SameAuthor(p) ==
    /\ author'[p] = author[p]
    /\ author[p] # Nothing => client_id'[author[p]] = client_id[author[p]]
SameForward(p) == Forwarding(p)' => Forwarding(p) /\ handled' = handled /\ todo' = todo

(* Nothing, unless a full buffer loses it.                                  *)
Still(p) ==
    /\ FewerPosts(p) /\ SameAuthor(p) /\ SameForward(p)
    /\ \A i \in Ids : FewerNotices(i, p) /\ NoNewReader(i, p)
Posted(p) ==
    /\ author[p] = Nothing /\ UNCHANGED client_id /\ SameForward(p)
    /\ \E m : /\ author'[p] = m.writer_name
              /\ PostOf(p)' \subseteq PostOf(p) \cup {m}
              /\ m \notin PostOf(p) => mail'[m] = 1
    /\ \A i \in Ids : FewerNotices(i, p) /\ NoNewReader(i, p)
TakenUp(p) ==
    /\ FewerPosts(p) /\ SameAuthor(p) /\ UNCHANGED client_id
    /\ \E m \in PostOf(p) :
          /\ mail[m] = 1 => m \notin PostOf(p)'
          /\ Forwarding(p)' => /\ handled'.writer_name = m.writer_name
                               /\ client_id[m.writer_name] \notin todo'
    /\ \A i \in Ids : FewerNotices(i, p) /\ NoNewReader(i, p)
Told(p) ==
    /\ FewerPosts(p) /\ SameAuthor(p) /\ Forwarding(p)
    /\ \E i \in todo :
          /\ Forwarding(p)' => handled' = handled /\ todo' = todo \ {i}
          /\ \E n : /\ NoticeOf(i, p)' \subseteq NoticeOf(i, p) \cup {n}
                    /\ n \notin NoticeOf(i, p) => mail'[n] = 1
          /\ \A j \in Ids \ {i} : FewerNotices(j, p)
    /\ \A i \in Ids : NoNewReader(i, p)
Printed(p) ==
    /\ FewerPosts(p) /\ SameAuthor(p) /\ SameForward(p)
    /\ \E i \in Ids :
          /\ \E m \in NoticeOf(i, p) : mail[m] = 1 => m \notin NoticeOf(i, p)'
          /\ \A j \in Ids \ {i} : NoNewReader(j, p)
    /\ \A i \in Ids : FewerNotices(i, p)

(* Each of the moves keeps a text on its way.                               *)
LEMMA MovesKeepStage ==
    ASSUME Order, Order', NEW p \in Posts, TextStage(p),
           author[p] # Nothing => client_id[author[p]] # NoId,
           Still(p) \/ Posted(p) \/ TakenUp(p) \/ Told(p) \/ Printed(p)
    PROVE  TextStage(p)'
<1>a. /\ \A m \in PostOf(p)' : mail'[m] \in Nat /\ mail'[m] > 0
      /\ \A i : \A m \in NoticeOf(i, p)' : mail'[m] \in Nat /\ mail'[m] > 0
      /\ todo \subseteq Ids /\ todo' \subseteq Ids
  BY DEF Order, TypeOK, IsABag, BagToSet, PostOf, NoticeOf
<1>b. /\ author \in [Posts -> Clients \cup {Nothing}] /\ Nothing \notin Clients
      /\ client_id \in [Clients -> Ids \cup {NoId}]
  BY ChatAssumption DEF Order, TypeOK, Procs
<1>1. CASE Still(p)
  <2>1. ASSUME author'[p] = Nothing
        PROVE  PostOf(p)' = {} /\ ~Forwarding(p)' /\ \A i \in Ids : Untold(i, p)'
    BY <1>1, <2>1 DEF TextStage, Still, FewerPosts, SameAuthor, SameForward, FewerNotices,
       NoNewReader, Untold
  <2>2. ASSUME NEW m \in PostOf(p)'
        PROVE  /\ m.writer_name = author'[p] /\ mail'[m] = 1 /\ PostOf(p)' = {m}
               /\ ~Forwarding(p)' /\ \A i \in Ids : Untold(i, p)'
    BY <1>1, <1>a, <2>2 DEF TextStage, Still, FewerPosts, SameAuthor, SameForward, FewerNotices,
       NoNewReader, Untold
  <2>3. ASSUME Forwarding(p)'
        PROVE  /\ handled'.writer_name = author'[p]
               /\ \A i \in todo' : Untold(i, p)' /\ i # client_id'[author'[p]]
    <3>1. /\ Forwarding(p) /\ handled' = handled /\ todo' = todo
          /\ handled.writer_name = author[p]
          /\ \A i \in todo : Untold(i, p) /\ i # client_id[author[p]]
      BY <1>1, <2>3 DEF TextStage, Still, SameForward
    <3>2. author[p] # Nothing
      BY <3>1 DEF TextStage
    <3>3. QED
      BY <1>1, <1>a, <3>1, <3>2 DEF Still, SameAuthor, FewerNotices, NoNewReader, Untold
  <2>4. ASSUME NEW i \in Ids
        PROVE  /\ \A m, n \in NoticeOf(i, p)' : m = n /\ mail'[m] = 1
               /\ NoticeOf(i, p)' # {} => ~SeenUnder(i, p)'
               /\ author'[p] # Nothing /\ i = client_id'[author'[p]] => Untold(i, p)'
    BY <1>1, <1>a DEF TextStage, Still, SameAuthor, FewerNotices, NoNewReader, Untold
  <2>5. QED
    BY <2>1, <2>2, <2>3, <2>4 DEF TextStage
<1>2. CASE Posted(p)
  <2>1. PICK m : /\ author'[p] = m.writer_name
                 /\ PostOf(p)' \subseteq PostOf(p) \cup {m}
                 /\ m \notin PostOf(p) => mail'[m] = 1
    BY <1>2 DEF Posted
  <2>2. PostOf(p) = {} /\ ~Forwarding(p) /\ \A i \in Ids : Untold(i, p)
    BY <1>2 DEF TextStage, Posted
  <2>3. ~Forwarding(p)' /\ \A i \in Ids : Untold(i, p)'
    BY <1>2, <2>2 DEF Posted, SameForward, FewerNotices, NoNewReader, Untold
  <2>4. \A n \in PostOf(p)' : n.writer_name = author'[p] /\ mail'[n] = 1 /\ PostOf(p)' = {n}
    BY <2>1, <2>2
  <2>5. author'[p] # Nothing \/ PostOf(p)' = {}
    <3>1. ASSUME NEW n \in PostOf(p)' PROVE n.writer_name # Nothing
      <4>1. Shaped(n)' /\ n.type = MESSAGE_POST_REQUEST
        BY DEF PostOf, Order
      <4>2. QED
        BY <1>b, <4>1, Zenon DEF Shaped
    <3>2. QED
      BY <2>4, <3>1
  <2>6. QED
    BY <2>3, <2>4, <2>5 DEF TextStage, Untold
<1>3. CASE TakenUp(p)
  <2>1. PICK m \in PostOf(p) :
          /\ mail[m] = 1 => m \notin PostOf(p)'
          /\ Forwarding(p)' => /\ handled'.writer_name = m.writer_name
                               /\ client_id[m.writer_name] \notin todo'
    BY <1>3 DEF TakenUp
  <2>2. /\ m.writer_name = author[p] /\ mail[m] = 1 /\ PostOf(p) = {m}
        /\ \A i \in Ids : Untold(i, p)
    BY DEF TextStage
  <2>3. PostOf(p)' = {} /\ \A i \in Ids : Untold(i, p)'
    BY <1>3, <2>1, <2>2 DEF TakenUp, FewerPosts, FewerNotices, NoNewReader, Untold
  <2>4. author[p] # Nothing /\ author'[p] = author[p] /\ UNCHANGED client_id
    BY <1>3, <2>2 DEF TextStage, TakenUp, SameAuthor
  <2>5. Forwarding(p)' => /\ handled'.writer_name = author'[p]
                          /\ \A i \in todo' : Untold(i, p)' /\ i # client_id'[author'[p]]
    BY <1>a, <2>1, <2>2, <2>3, <2>4
  <2>6. QED
    BY <2>3, <2>4, <2>5 DEF TextStage, Untold
<1>4. CASE Told(p)
  <2>1. PICK i \in todo :
          /\ Forwarding(p)' => handled' = handled /\ todo' = todo \ {i}
          /\ \E n : /\ NoticeOf(i, p)' \subseteq NoticeOf(i, p) \cup {n}
                    /\ n \notin NoticeOf(i, p) => mail'[n] = 1
          /\ \A j \in Ids \ {i} : FewerNotices(j, p)
    BY <1>4 DEF Told
  <2>2. /\ handled.writer_name = author[p]
        /\ \A j \in todo : Untold(j, p) /\ j # client_id[author[p]]
        /\ author[p] # Nothing /\ PostOf(p) = {}
    BY <1>4 DEF Told, TextStage
  <2>3. /\ author'[p] = author[p] /\ client_id'[author'[p]] = client_id[author[p]]
        /\ PostOf(p)' = {}
    BY <1>4, <2>2 DEF Told, SameAuthor, FewerPosts
  <2>4. \A j \in Ids \ {i} :
           /\ Untold(j, p) => Untold(j, p)'
           /\ \A m, n \in NoticeOf(j, p)' : m = n /\ mail'[m] = 1
           /\ NoticeOf(j, p)' # {} => ~SeenUnder(j, p)'
    BY <1>4, <1>a, <2>1 DEF Told, TextStage, Untold, FewerNotices, NoNewReader
  <2>5. /\ \A m, n \in NoticeOf(i, p)' : m = n /\ mail'[m] = 1
        /\ ~SeenUnder(i, p)' /\ i # client_id[author[p]]
    BY <1>4, <1>a, <2>1, <2>2 DEF Told, Untold, NoNewReader
  <2>6. Forwarding(p)' => /\ handled'.writer_name = author'[p]
                          /\ \A j \in todo' : Untold(j, p)' /\ j # client_id'[author'[p]]
    BY <1>a, <2>1, <2>2, <2>3, <2>4
  <2>7. \A j \in Ids : j = client_id[author[p]] => Untold(j, p)'
    BY <2>2, <2>4, <2>5 DEF TextStage
  <2>8. QED
    BY <2>2, <2>3, <2>4, <2>5, <2>6, <2>7 DEF TextStage
<1>5. CASE Printed(p)
  <2>1. PICK i \in Ids :
          /\ \E m \in NoticeOf(i, p) : mail[m] = 1 => m \notin NoticeOf(i, p)'
          /\ \A j \in Ids \ {i} : NoNewReader(j, p)
    BY <1>5 DEF Printed
  <2>2. ~Untold(i, p) /\ NoticeOf(i, p)' = {}
    BY <1>5, <2>1 DEF Untold, TextStage, Printed, FewerNotices
  <2>3. author[p] # Nothing /\ PostOf(p) = {} /\ client_id[author[p]] # i
    BY <2>2 DEF TextStage
  <2>4. /\ author'[p] = author[p] /\ client_id'[author'[p]] = client_id[author[p]]
        /\ PostOf(p)' = {}
    BY <1>5, <2>3 DEF Printed, SameAuthor, FewerPosts
  <2>5. \A j \in Ids \ {i} :
           /\ Untold(j, p) => Untold(j, p)'
           /\ \A m, n \in NoticeOf(j, p)' : m = n /\ mail'[m] = 1
           /\ NoticeOf(j, p)' # {} => ~SeenUnder(j, p)'
    BY <1>5, <1>a, <2>1 DEF Printed, TextStage, Untold, FewerNotices, NoNewReader
  <2>6. Forwarding(p)' =>
          /\ handled'.writer_name = author'[p]
          /\ \A j \in todo' : Untold(j, p)' /\ j # client_id'[author'[p]]
    BY <1>5, <1>a, <2>2, <2>4, <2>5 DEF Printed, SameForward, TextStage
  <2>7. \A j \in Ids : j = client_id[author[p]] => Untold(j, p)'
    BY <2>3, <2>5 DEF TextStage
  <2>8. QED
    BY <2>2, <2>3, <2>4, <2>5, <2>6, <2>7 DEF TextStage
<1>6. QED
  BY <1>1, <1>2, <1>3, <1>4, <1>5

(* What the mailbox's operations do to the messages about a text.           *)
IsPost(m, p) == m.type = MESSAGE_POST_REQUEST /\ m.text = p
IsNotice(m, i, p) == m.type = set_addressee(i) /\ m.kind = "MESSAGE" /\ m.text = p

LEMMA TakeTexts ==
    ASSUME Order, NEW t, NEW m \in Box!Returned(t), Box!Take(m), NEW p
    PROVE  /\ FewerPosts(p) /\ \A i : FewerNotices(i, p)
           /\ mail[m] = 1 /\ m # Nothing => /\ m \notin PostOf(p)'
                                            /\ \A i : m \notin NoticeOf(i, p)'
BY Taking DEF Less, FewerPosts, FewerNotices, PostOf, NoticeOf

LEMMA PutTexts ==
    ASSUME Order, NEW m, Box!Put(m), NEW p
    PROVE  /\ PostOf(p)' \subseteq PostOf(p) \cup {m}
           /\ m \notin PostOf(p) /\ IsPost(m, p) => mail'[m] = 1
           /\ ~IsPost(m, p) => FewerPosts(p)
           /\ \A i : /\ NoticeOf(i, p)' \subseteq NoticeOf(i, p) \cup {m}
                     /\ m \notin NoticeOf(i, p) /\ IsNotice(m, i, p) => mail'[m] = 1
                     /\ ~IsNotice(m, i, p) => FewerNotices(i, p)
BY Putting DEF Gains, FewerPosts, FewerNotices, PostOf, NoticeOf, IsPost, IsNotice

LEMMA SameTexts ==
    ASSUME Order, UNCHANGED mail, NEW p
    PROVE  FewerPosts(p) /\ \A i : FewerNotices(i, p)
BY DEF FewerPosts, FewerNotices, PostOf, NoticeOf, Order, TypeOK, IsABag, BagToSet

TextMoves == \A p \in Posts : Still(p) \/ Posted(p) \/ TakenUp(p) \/ Told(p) \/ Printed(p)

LEMMA TextMovesServer ==
    ASSUME Order, ServerStep \/ ServerTypesLine \/ ServerQuits
    PROVE  TextMoves
<1> SUFFICES ASSUME NEW p \in Posts
             PROVE  Still(p) \/ Posted(p) \/ TakenUp(p) \/ Told(p) \/ Printed(p)
  BY DEF TextMoves
<1>a. UNCHANGED <<users, history>>
  BY DEF ServerStep, ServerTypesLine, ServerQuits, ServerLoop, StartEndJob, ServerInput, ReadRequest,
     GrantId, DropRequest, ReadPost, ReadOut, Notify, RemoveIPC, ServerNotifies, ServerGo
<1>b. SameAuthor(p) /\ (\A i \in Ids : NoNewReader(i, p)) /\ UNCHANGED client_id
  BY <1>a DEF SameAuthor, NoNewReader, SeenUnder, Seen, users, history
<1>c. server' # "forward" => SameForward(p)
  BY DEF SameForward, Forwarding
<1>d. ASSUME NEW from, NEW loop \in Notifying, NEW m, NEW ids, ServerNotifies(from, loop, m, ids)
      PROVE  /\ loop # "forward" => server' # "forward"
             /\ loop = "forward" /\ server' = "forward" => handled' = m /\ todo' = ids
  BY <1>d DEF ServerNotifies, ServerGo, Notifying, AfterNotifying
<1>1. CASE ServerLoop \/ ServerInput \/ ServerTypesLine \/ RemoveIPC \/ ServerQuits \/ DropRequest
  <2>1. UNCHANGED mail
    BY <1>1 DEF ServerLoop, ServerInput, ServerTypesLine, RemoveIPC, ServerQuits, DropRequest,
       StartEndJob
  <2>2. ASSUME NEW from, StartEndJob(from) PROVE server' # "forward"
    BY <1>d, <2>2 DEF StartEndJob, Notifying
  <2>3. server' # "forward"
    BY <1>1, <2>2 DEF ServerLoop, ServerInput, ServerTypesLine, RemoveIPC, ServerQuits, DropRequest,
       ServerGo
  <2>4. QED
    BY <1>b, <1>c, <2>1, <2>3, SameTexts DEF Still
<1>2. CASE ReadRequest
  <2>1. PICK m \in Box!Returned(MESSAGE_CLIENT_ID_REQUEST) :
          /\ Box!Take(m)
          /\ ServerGo("register", IF m = Nothing THEN "posts" ELSE "grant")
    BY <1>2 DEF ReadRequest
  <2>2. server' # "forward"
    BY <2>1 DEF ServerGo
  <2>3. QED
    BY <1>b, <1>c, <2>1, <2>2, TakeTexts DEF Still
<1>3. CASE GrantId
  <2> DEFINE m == Msg(MESSAGE_CLIENT_ID_SET, "MESSAGE", Server, SERVER_ID,
                      Least(Ids \ Taked(client_id_pool)))
  <2>1. Box!Put(m) /\ server' # "forward"
    BY <1>3, <1>d DEF GrantId, Notifying
  <2>2. ~IsPost(m, p) /\ \A i \in Ids : ~IsNotice(m, i, p)
    BY Addressees DEF Msg, MESSAGE_CLIENT_ID_SET, MESSAGE_POST_REQUEST, IsPost, IsNotice
  <2> HIDE DEF m
  <2>3. QED
    BY <1>b, <1>c, <2>1, <2>2, PutTexts DEF Still
<1>4. CASE ReadPost
  <2>1. PICK m \in Box!Returned(MESSAGE_POST_REQUEST) :
          /\ Box!Take(m)
          /\ IF m = Nothing THEN ServerGo("posts", "outs")
                            ELSE ServerNotifies("posts", "forward", m, Readers(m))
    BY <1>4 DEF ReadPost
  <2>2. FewerPosts(p) /\ \A i \in Ids : FewerNotices(i, p)
    BY <2>1, TakeTexts
  <2>3. CASE m = Nothing
    BY <1>b, <1>c, <2>1, <2>2, <2>3 DEF Still, ServerGo
  <2>4. CASE m # Nothing
    <3>1. m \in BagToSet(mail) /\ m.type = MESSAGE_POST_REQUEST /\ Shaped(m)
      BY <2>1, <2>4, Taking
    <3>2. server' = "forward" => handled' = m /\ todo' = Readers(m)
      BY <1>d, <2>1, <2>4 DEF Notifying
    <3>3. CASE m.text = p
      <4>1. m \in PostOf(p) /\ (mail[m] = 1 => m \notin PostOf(p)')
        BY <2>1, <2>4, <3>1, <3>3, TakeTexts DEF PostOf
      <4>2. client_id[m.writer_name] \notin Readers(m)
        BY <3>1 DEF Shaped, Readers
      <4>3. QED
        BY <1>b, <2>2, <3>2, <4>1, <4>2 DEF TakenUp, Forwarding
    <3>4. CASE m.text # p
      BY <1>b, <2>2, <3>2, <3>4 DEF Still, SameForward, Forwarding
    <3>5. QED
      BY <3>3, <3>4
  <2>5. QED
    BY <2>3, <2>4
<1>5. CASE ReadOut
  <2>1. PICK m \in Box!Returned(MESSAGE_OUT_CHAT) :
          /\ Box!Take(m)
          /\ \/ ServerGo("outs", "loop") \/ ServerGo("outs", "crashed")
             \/ ServerNotifies("outs", "farewell", m, Taked(client_id_pool'))
    BY <1>5 DEF ReadOut
  <2>2. server' # "forward"
    BY <1>d, <2>1 DEF ServerGo, Notifying
  <2>3. QED
    BY <1>b, <1>c, <2>1, <2>2, TakeTexts DEF Still
<1>6. CASE Notify
  <2>1. PICK i \in Ids, m \in Message :
          /\ i \in todo /\ server \in Notifying /\ m = Notice(i) /\ Box!Put(m)
          /\ ServerNotifies(server, server, handled, todo \ {i})
    BY <1>6, FreeTaked, Notices DEF Notify, Order, InHand
  <2>2. /\ m.type = set_addressee(i) /\ m.type > 4
        /\ m.kind = "MESSAGE" <=> server = "forward"
        /\ server = "forward" => m.text = handled.text
    BY <2>1, Notices, Addressees
  <2>3. ~IsPost(m, p) /\ \A j \in Ids \ {i} : ~IsNotice(m, j, p)
    BY <2>1, <2>2, Addressees DEF IsPost, IsNotice, MESSAGE_POST_REQUEST
  <2>4. FewerPosts(p) /\ \A j \in Ids \ {i} : FewerNotices(j, p)
    BY <2>1, <2>3, PutTexts
  <2>5. CASE Forwarding(p)
    <3>1. Forwarding(p)' => handled' = handled /\ todo' = todo \ {i}
      BY <1>d, <2>1, <2>5 DEF Forwarding
    <3>2. IsNotice(m, i, p)
      BY <2>2, <2>5 DEF Forwarding, IsNotice
    <3>3. /\ NoticeOf(i, p)' \subseteq NoticeOf(i, p) \cup {m}
          /\ m \notin NoticeOf(i, p) => mail'[m] = 1
      BY <2>1, <3>2, PutTexts
    <3>4. QED
      BY <1>b, <2>1, <2>4, <2>5, <3>1, <3>3 DEF Told
  <2>6. CASE ~Forwarding(p)
    <3>1. ~IsNotice(m, i, p)
      BY <2>2, <2>6 DEF Forwarding, IsNotice
    <3>2. ~Forwarding(p)'
      BY <1>d, <2>1, <2>6 DEF Forwarding
    <3>3. FewerNotices(i, p)
      BY <2>1, <3>1, PutTexts
    <3>4. QED
      BY <1>b, <2>4, <3>2, <3>3 DEF Still, SameForward
  <2>7. QED
    BY <2>5, <2>6
<1>7. QED
  BY <1>1, <1>2, <1>3, <1>4, <1>5, <1>6 DEF ServerStep

(* What is printed comes last.                                              *)
LEMMA PrintedLast ==
    ASSUME NEW c, NEW p, NEW x, seen[c] \in Seq(Posts), seen'[c] = Append(seen[c], x),
           Seen(c, p)', ~Seen(c, p)
    PROVE  x = p
<1>1. PICK k \in 1..Len(seen'[c]) : seen'[c][k] = p
  BY DEF Seen
<1>2. /\ Len(seen'[c]) = Len(seen[c]) + 1 /\ Len(seen[c]) \in Nat
      /\ \A l \in 1..Len(seen[c]) : seen'[c][l] = seen[c][l]
      /\ seen'[c][Len(seen[c]) + 1] = x
  OBVIOUS
<1>3. k \notin 1..Len(seen[c])
  BY <1>1, <1>2 DEF Seen
<1>4. k = Len(seen[c]) + 1
  BY <1>1, <1>2, <1>3
<1>5. QED
  BY <1>1, <1>2, <1>4

LEMMA TextMovesClient ==
    ASSUME Order, Texts, server # "done", NEW c \in Clients,
           ClientStep(c) \/ User(c) \/ InterruptClient(c) \/ KillClient(c)
    PROVE  TextMoves
<1> SUFFICES ASSUME NEW p \in Posts
             PROVE  Still(p) \/ Posted(p) \/ TakenUp(p) \/ Told(p) \/ Printed(p)
  BY DEF TextMoves
<1>a. /\ client_id \in [Clients -> Ids \cup {NoId}] /\ seen \in [Clients -> Seq(Posts)]
      /\ author \in [Posts -> Clients \cup {Nothing}] /\ NoId \notin Ids
  BY DEF Order, TypeOK, NoId, Ids
<1>b. UNCHANGED <<server, todo, handled>>
  BY DEF ClientStep, User, InterruptClient, KillClient, LoopExit, RequestId, AwaitId, LoopAgain,
     Receive, ReceiveExit, NoInput, SayOut, Attach, TypeNothing, TypeQuit, TypePost, FreeSlot,
     ClientWrite, ClientGo
<1>c. SameForward(p)
  BY <1>b DEF SameForward, Forwarding
<1>d. UNCHANGED <<client_id, seen>> => \A i \in Ids : NoNewReader(i, p)
  BY DEF NoNewReader, SeenUnder, Seen
<1>e. UNCHANGED <<client_id, author>> => SameAuthor(p)
  BY DEF SameAuthor
<1>1. CASE LoopExit(c) \/ LoopAgain(c) \/ ReceiveExit(c) \/ NoInput(c) \/ Attach(c) \/ TypeNothing(c)
           \/ TypeQuit(c) \/ InterruptClient(c) \/ KillClient(c)
  <2>1. UNCHANGED <<mail, client_id, author, seen>>
    BY <1>1 DEF LoopExit, LoopAgain, ReceiveExit, NoInput, Attach, TypeNothing, TypeQuit,
       InterruptClient, KillClient, history
  <2>2. QED
    BY <1>c, <1>d, <1>e, <2>1, SameTexts DEF Still
<1>2. ASSUME NEW from, NEW to, NEW m, ClientWrite(c, from, m, to), UNCHANGED <<client_id, author, seen>>,
             m.type \in {MESSAGE_CLIENT_ID_REQUEST, MESSAGE_OUT_CHAT}
      PROVE  Still(p)
  <2>1. UNCHANGED mail \/ Box!Put(m)
    BY <1>2 DEF ClientWrite
  <2>2. ~IsPost(m, p) /\ \A i \in Ids : ~IsNotice(m, i, p)
    BY <1>2, Addressees DEF MESSAGE_CLIENT_ID_REQUEST, MESSAGE_OUT_CHAT, MESSAGE_POST_REQUEST,
       IsPost, IsNotice
  <2>3. QED
    BY <1>2, <1>c, <1>d, <1>e, <2>1, <2>2, SameTexts, PutTexts DEF Still
<1>3. CASE RequestId(c)
  BY <1>2, <1>3 DEF RequestId, Msg, history
<1>4. CASE SayOut(c)
  BY <1>2, <1>4 DEF SayOut, Msg, history
<1>5. CASE AwaitId(c)
  <2>1. PICK m \in Box!Returned(MESSAGE_CLIENT_ID_SET) :
          /\ Box!Take(m) /\ client_id[c] = NoId /\ UNCHANGED <<author, seen>>
          /\ UNCHANGED client_id \/ client_id' = [client_id EXCEPT ![c] = m.text]
    BY <1>5, WithSemaphore DEF AwaitId, history
  <2>2. ~Seen(c, p) /\ (author[p] # Nothing => author[p] # c)
    BY <2>1 DEF Texts, Histories, Seen
  <2>3. \A i \in Ids : NoNewReader(i, p)
    BY <1>a, <2>1, <2>2 DEF NoNewReader, SeenUnder, Seen
  <2>4. SameAuthor(p)
    BY <1>a, <2>1, <2>2 DEF SameAuthor
  <2>5. QED
    BY <1>c, <2>1, <2>3, <2>4, TakeTexts DEF Still
<1>6. CASE Receive(c)
  <2> DEFINE i == client_id[c]
  <2>1. PICK m \in Box!Returned(set_addressee(i)) :
          /\ Box!Take(m) /\ client[c] = "receive" /\ UNCHANGED <<client_id, author>>
          /\ \/ UNCHANGED seen
             \/ /\ m # Nothing /\ m.kind = "MESSAGE"
                /\ seen' = [seen EXCEPT ![c] = Append(seen[c], m.text)]
    BY <1>6, WithSemaphore DEF Receive, ClientGo
  <2>2. i \in Ids
    BY <1>a, <2>1 DEF Order, Registered
  <2>3. FewerPosts(p) /\ \A j \in Ids : FewerNotices(j, p)
    BY <2>1, TakeTexts
  <2>4. ASSUME NEW j \in Ids, ~NoNewReader(j, p)
        PROVE  j = i /\ m # Nothing /\ m.kind = "MESSAGE" /\ m.text = p
    <3>1. PICK d \in Clients : client_id[d] = j /\ Seen(d, p)' /\ ~Seen(d, p)
      BY <2>1, <2>4 DEF NoNewReader, SeenUnder
    <3>2. /\ d = c /\ m # Nothing /\ m.kind = "MESSAGE"
          /\ seen'[c] = Append(seen[c], m.text) /\ seen[c] \in Seq(Posts)
      BY <1>a, <2>1, <3>1 DEF Seen
    <3>3. QED
      BY <3>1, <3>2, PrintedLast
  <2>5. CASE \A j \in Ids : NoNewReader(j, p)
    BY <1>c, <1>e, <2>1, <2>3, <2>5 DEF Still
  <2>6. CASE \E j \in Ids : ~NoNewReader(j, p)
    <3>1. m # Nothing /\ m.kind = "MESSAGE" /\ m.text = p
      BY <2>4, <2>6
    <3>2. m \in NoticeOf(i, p) /\ (mail[m] = 1 => m \notin NoticeOf(i, p)')
      BY <2>1, <3>1, Taking, TakeTexts DEF NoticeOf
    <3>3. QED
      BY <1>c, <1>e, <2>1, <2>2, <2>3, <2>4, <3>2 DEF Printed
  <2>7. QED
    BY <2>5, <2>6
<1>7. ASSUME NEW q \in Posts, TypePost(c, q)
      PROVE  Still(p) \/ Posted(p)
  <2> DEFINE m == Msg(MESSAGE_POST_REQUEST, "MESSAGE", c, client_id[c], q)
  <2>1. /\ author[q] = Nothing /\ UNCHANGED <<client_id, seen>>
        /\ Box!Put(m) /\ author' = [author EXCEPT ![q] = c]
    BY <1>7 DEF TypePost, ClientWrite
  <2>2. /\ IsPost(m, p) <=> p = q
        /\ \A i \in Ids : ~IsNotice(m, i, p)
        /\ m.writer_name = c
    BY Addressees DEF Msg, MESSAGE_POST_REQUEST, IsPost, IsNotice
  <2> HIDE DEF m
  <2>3. \A i \in Ids : FewerNotices(i, p) /\ NoNewReader(i, p)
    BY <1>d, <2>1, <2>2, PutTexts
  <2>4. CASE p = q
    <3>1. PostOf(p)' \subseteq PostOf(p) \cup {m} /\ (m \notin PostOf(p) => mail'[m] = 1)
      BY <2>1, <2>2, <2>4, PutTexts
    <3>2. author'[p] = m.writer_name
      BY <1>a, <2>1, <2>2, <2>4
    <3>3. QED
      BY <1>c, <2>1, <2>3, <2>4, <3>1, <3>2 DEF Posted
  <2>5. CASE p # q
    <3>1. FewerPosts(p)
      BY <2>1, <2>2, <2>5, PutTexts
    <3>2. SameAuthor(p)
      BY <1>a, <2>1, <2>5 DEF SameAuthor
    <3>3. QED
      BY <1>c, <2>3, <3>1, <3>2 DEF Still
  <2>6. QED
    BY <2>4, <2>5
<1>8. QED
  BY <1>1, <1>3, <1>4, <1>5, <1>6, <1>7, WithSemaphore DEF ClientStep, User

(* No reader of a notice has printed its text, with or without the          *)
(* semaphore.                                                               *)
LEMMA HistoriesStep == ASSUME Order, Order', Printing, [Next]_vars PROVE Histories'
<1>a. /\ client_id \in [Clients -> Ids \cup {NoId}] /\ seen \in [Clients -> Seq(Posts)]
      /\ author \in [Posts -> Clients \cup {Nothing}] /\ NoId \notin Ids
      /\ Nothing \notin Clients
      /\ client_id' \in [Clients -> Ids \cup {NoId}]
  BY ChatAssumption DEF Order, TypeOK, NoId, Ids, Procs
<1>b. Histories
  BY DEF Printing
<1>1. ASSUME UNCHANGED <<client_id, author, seen>> PROVE Histories'
  BY <1>b, <1>1 DEF Histories
<1>2. ASSUME ServerStep \/ ServerTypesLine \/ ServerQuits \/ InterruptServer \/ UNCHANGED vars
      PROVE  Histories'
  <2>1. UNCHANGED <<users, history>>
    BY <1>2
       DEF ServerStep, ServerTypesLine, ServerQuits, ServerLoop, StartEndJob, ServerInput, ReadRequest,
       GrantId, DropRequest, ReadPost, ReadOut, Notify, RemoveIPC, ServerNotifies, ServerGo,
       InterruptServer, vars
  <2>2. QED
    BY <1>1, <2>1 DEF users, history
<1>3. ASSUME NEW c \in Clients, ClientStep(c) \/ User(c) \/ InterruptClient(c) \/ KillClient(c)
      PROVE  Histories'
  <2>1. CASE LoopExit(c) \/ LoopAgain(c) \/ ReceiveExit(c) \/ NoInput(c) \/ Attach(c)
             \/ TypeNothing(c) \/ TypeQuit(c) \/ RequestId(c) \/ SayOut(c) \/ FreeSlot(c)
             \/ InterruptClient(c) \/ KillClient(c)
    BY <1>1, <2>1 DEF LoopExit, LoopAgain, ReceiveExit, NoInput, Attach, TypeNothing, TypeQuit,
       RequestId, SayOut, FreeSlot, InterruptClient, KillClient, users, history
  <2>2. CASE AwaitId(c)
    <3>1. PICK m \in Box!Returned(MESSAGE_CLIENT_ID_SET) :
            /\ client_id[c] = NoId /\ UNCHANGED <<author, seen>>
            /\ \/ UNCHANGED client_id
               \/ /\ client_id' = [client_id EXCEPT ![c] = m.text]
                  /\ m # Nothing /\ ClientRead(c, m) /\ message_ptr[c] = Nothing
      BY <2>2 DEF AwaitId, ClientGo, history
    <3>2. CASE UNCHANGED client_id
      BY <1>1, <3>1, <3>2
    <3>3. CASE /\ client_id' = [client_id EXCEPT ![c] = m.text]
               /\ m # Nothing /\ ClientRead(c, m) /\ message_ptr[c] = Nothing
      <4>1. m.type = MESSAGE_CLIENT_ID_SET /\ Shaped(m)
        BY <3>1, <3>3, Reading
      <4>2. m.text # NoId
        BY <1>a, <4>1, Zenon DEF Shaped
      <4>3. \A d \in Clients : client_id'[d] = IF d = c THEN m.text ELSE client_id[d]
        BY <1>a, <3>3
      <4>4. QED
        BY <1>a, <1>b, <3>1, <4>2, <4>3 DEF Histories
    <3>4. QED
      BY <3>1, <3>2, <3>3
  <2>3. CASE Receive(c)
    <3>1. PICK m \in Box!Returned(set_addressee(client_id[c])) :
            /\ ClientRead(c, m) /\ message_ptr[c] = Nothing
            /\ client[c] = "receive" /\ UNCHANGED <<client_id, author>>
            /\ \/ UNCHANGED seen
               \/ /\ m # Nothing /\ m.kind = "MESSAGE"
                  /\ seen' = [seen EXCEPT ![c] = Append(seen[c], m.text)]
      BY <2>3 DEF Receive, ClientGo
    <3>2. CASE UNCHANGED seen
      BY <1>1, <3>1, <3>2
    <3>3. CASE m # Nothing /\ m.kind = "MESSAGE"
               /\ seen' = [seen EXCEPT ![c] = Append(seen[c], m.text)]
      <4>1. client_id[c] \in Ids
        BY <1>a, <3>1 DEF Order, Registered
      <4>2. m \in NoticeOf(client_id[c], m.text) /\ m.text \in Posts
        BY <3>1, <3>3, <4>1, Reading DEF NoticeOf, Shaped
      <4>3. ~Seen(c, m.text)
        BY <3>1, <3>3, <4>2 DEF Printing
      <4>4. /\ Len(seen'[c]) = Len(seen[c]) + 1 /\ Len(seen[c]) \in Nat
            /\ \A l \in 1..Len(seen[c]) : seen'[c][l] = seen[c][l]
            /\ seen'[c][Len(seen[c]) + 1] = m.text
            /\ \A d \in Clients \ {c} : seen'[d] = seen[d]
        BY <1>a, <3>3
      <4>5. \A k \in 1..Len(seen'[c]) : \A j \in 1..(k - 1) : seen'[c][k] # seen'[c][j]
        <5> SUFFICES ASSUME NEW k \in 1..Len(seen'[c]), NEW j \in 1..(k - 1)
                     PROVE  seen'[c][k] # seen'[c][j]
          OBVIOUS
        <5>1. CASE k \in 1..Len(seen[c])
          <6>1. j \in 1..Len(seen[c]) /\ seen[c][k] # seen[c][j]
            BY <1>b, <4>4, <5>1 DEF Histories
          <6>2. QED
            BY <4>4, <5>1, <6>1
        <5>2. CASE k = Len(seen[c]) + 1
          BY <4>3, <4>4, <5>2 DEF Seen
        <5>3. QED
          BY <4>4, <5>1, <5>2
      <4>6. \A d \in Clients : \A k \in 1..Len(seen'[d]) :
               \A j \in 1..(k - 1) : seen'[d][k] # seen'[d][j]
        <5> SUFFICES ASSUME NEW d \in Clients
                     PROVE  \A k \in 1..Len(seen'[d]) : \A j \in 1..(k - 1) : seen'[d][k] # seen'[d][j]
          OBVIOUS
        <5>1. CASE d = c
          BY <4>5, <5>1
        <5>2. CASE d # c
          BY <1>b, <4>4, <5>2 DEF Histories
        <5>3. QED
          BY <5>1, <5>2
      <4>7. \A d \in Clients : client_id'[d] = NoId => seen'[d] = <<>>
        BY <1>a, <1>b, <3>1, <4>1, <4>4 DEF Histories
      <4>8. QED
        BY <1>b, <3>1, <4>6, <4>7 DEF Histories
    <3>4. QED
      BY <3>1, <3>2, <3>3
  <2>4. ASSUME NEW p \in Posts, TypePost(c, p) PROVE Histories'
    <3>1. /\ UNCHANGED <<client_id, seen>>
          /\ client[c] \in Typing
          /\ UNCHANGED author \/ author' = [author EXCEPT ![p] = c]
      BY <2>4 DEF TypePost, ClientWrite, ClientGo
    <3>2. client_id[c] # NoId
      BY <3>1 DEF Typing, Order, Registered
    <3>3. QED
      BY <1>a, <1>b, <3>1, <3>2 DEF Histories
  <2>5. QED
    BY <1>3, <2>1, <2>2, <2>3, <2>4 DEF ClientStep, User
<1>4. QED
  BY <1>2, <1>3 DEF Next

LEMMA TextsPrint == ASSUME Order, Texts PROVE Printing
<1>1. client_id \in [Clients -> Ids \cup {NoId}]
  BY DEF Order, TypeOK
<1>2. \A i \in Ids : \A p \in Posts : \A m, n \in NoticeOf(i, p) : m = n /\ mail[m] = 1
  BY DEF Texts, TextStage
<1>3. ASSUME NEW c \in Clients, NEW p \in Posts, Seen(c, p) \/ author[p] = c
      PROVE  /\ Seen(c, p) => author[p] # c
             /\ NoticeOf(client_id[c], p) = {}
  <2>1. client_id[c] \in Ids
    <3>1. /\ author[p] = c => client_id[c] # NoId
          /\ client_id[c] = NoId => seen[c] = <<>>
      <4>1. c # Nothing
        BY ChatAssumption DEF Procs
      <4>2. QED
        BY <4>1 DEF Texts, Histories
    <3>2. seen[c] = <<>> => ~Seen(c, p)
      BY DEF Seen
    <3>3. QED
      BY <1>1, <1>3, <3>1, <3>2
  <2>2. PICK i \in Ids : i = client_id[c]
    BY <2>1
  <2>3. Seen(c, p) => SeenUnder(i, p)
    BY <2>2 DEF SeenUnder
  <2>4. author[p] = c => author[p] # Nothing
    BY ChatAssumption DEF Procs
  <2>5. QED
    BY <1>3, <2>2, <2>3, <2>4 DEF Texts, TextStage, Untold
<1>4. QED
  BY <1>2, <1>3 DEF Texts, Printing

(* The third layer is preserved while there is a semaphore.                 *)
LEMMA TextsStep ==
    ASSUME Order, Order', Texts, server # "done", [Next]_vars
    PROVE  Texts'
<1>1. TextMoves
  <2>1. CASE InterruptServer \/ UNCHANGED vars
    <3>1. UNCHANGED <<mail, todo, handled, client_id, author, seen>>
          /\ (server' = "forward" => server = "forward")
      BY <2>1 DEF InterruptServer, AfterInterrupt, vars, users, history
    <3>2. QED
      BY <3>1, SameTexts DEF TextMoves, Still, SameAuthor, SameForward, Forwarding, NoNewReader,
         SeenUnder, Seen
  <2>2. QED
    BY <2>1, TextMovesServer, TextMovesClient DEF Next
<1>2. \A p \in Posts : TextStage(p)'
  BY <1>1, MovesKeepStage DEF TextMoves, Texts, Histories
<1>3. QED
  BY <1>2, HistoriesStep, TextsPrint DEF Texts

(* And afterwards nothing is posted, and the mail only gets less.           *)
LEMMA PrintingStep ==
    ASSUME Order, Order', Printing, server = "done", [Next]_vars
    PROVE  Printing'
<1>a. /\ client_id \in [Clients -> Ids \cup {NoId}] /\ seen \in [Clients -> Seq(Posts)]
      /\ message_ptr \in [Clients -> Message \cup {Nothing}]
      /\ IsABag(mail) /\ IsABag(mail') /\ Nothing \notin BagToSet(mail)
  BY ChatAssumption DEF Order, TypeOK
<1>b. UNCHANGED vars \/ \E d \in Clients : \/ ClientStep(d) \/ User(d)
                                           \/ InterruptClient(d) \/ KillClient(d)
  BY ServerActs DEF Next, InterruptServer
<1>1. Less /\ UNCHANGED author
  <2>1. ASSUME NEW d \in Clients, FreeSlot(d) PROVE Less /\ UNCHANGED author
    BY <1>a, <2>1, TakeAny DEF FreeSlot, history
  <2>2. ASSUME NEW d \in Clients, ClientStep(d) \/ User(d) \/ InterruptClient(d) \/ KillClient(d),
               ~FreeSlot(d)
        PROVE  UNCHANGED <<mail, author>>
    BY <2>2 DEF ClientStep, User, InterruptClient, KillClient, LoopExit, RequestId, AwaitId,
       LoopAgain, Receive, ReceiveExit, NoInput, SayOut, Attach, TypeNothing, TypeQuit, TypePost,
       ClientWrite, ClientRead, history
  <2>3. QED
    BY <1>a, <1>b, <2>1, <2>2, SameLess DEF vars, history
<1>2. ASSUME NEW i \in Ids, NEW p \in Posts, NEW m \in NoticeOf(i, p)', NEW n \in NoticeOf(i, p)'
      PROVE  m = n /\ mail'[m] = 1
  <2>1. /\ m \in NoticeOf(i, p) /\ n \in NoticeOf(i, p) /\ mail'[m] <= mail[m]
        /\ mail'[m] \in Nat /\ mail'[m] > 0
    BY <1>1, <1>a DEF Less, NoticeOf, IsABag, BagToSet
  <2>2. m = n /\ mail[m] = 1
    BY <2>1 DEF Printing
  <2>3. QED
    BY <2>1, <2>2
<1>3. ASSUME NEW c \in Clients, NEW p \in Posts
      PROVE  /\ Seen(c, p)' => author'[p] # c
             /\ Seen(c, p)' \/ author'[p] = c =>
                   NoticeOf(client_id[c], p)' \subseteq {message_ptr'[c]}
  <2>1. /\ Seen(c, p) => author[p] # c
        /\ Seen(c, p) \/ author[p] = c => /\ NoticeOf(client_id[c], p) \subseteq {message_ptr[c]}
                                          /\ client_id[c] \in Ids
    <3>1. /\ author[p] = c => client_id[c] # NoId
          /\ client_id[c] = NoId => seen[c] = <<>>
          /\ Seen(c, p) => author[p] # c
          /\ Seen(c, p) \/ author[p] = c => NoticeOf(client_id[c], p) \subseteq {message_ptr[c]}
      <4>1. c # Nothing
        BY ChatAssumption DEF Procs
      <4>2. QED
        BY <4>1 DEF Printing, Histories
    <3>2. seen[c] = <<>> => ~Seen(c, p)
      BY DEF Seen
    <3>3. QED
      BY <1>a, <3>1, <3>2
  <2>2. client_id'[c] = client_id[c] => NoticeOf(client_id[c], p)' \subseteq NoticeOf(client_id[c], p)
    BY <1>1 DEF Less, NoticeOf
  <2>3. CASE client_id'[c] = client_id[c] /\ seen'[c] = seen[c] /\ message_ptr'[c] = message_ptr[c]
    BY <1>1, <2>1, <2>2, <2>3 DEF Seen
  <2>4. CASE FreeSlot(c)
    <3>1. /\ Box!Take(message_ptr[c]) /\ message_ptr[c] # Nothing
          /\ UNCHANGED <<client_id, seen>>
      BY <2>4 DEF FreeSlot, users, history
    <3>2. Seen(c, p)' \/ author'[p] = c => NoticeOf(client_id[c], p)' = {}
      <4> SUFFICES ASSUME Seen(c, p) \/ author[p] = c, NEW m \in NoticeOf(client_id[c], p)'
                   PROVE  FALSE
        BY <1>1, <3>1 DEF Seen
      <4>1. m \in NoticeOf(client_id[c], p) /\ m = message_ptr[c]
        BY <2>1, <2>2, <3>1
      <4>2. mail[m] = 1 /\ m \in BagToSet(mail)
        BY <2>1, <4>1 DEF Printing, NoticeOf
      <4>3. m \notin BagToSet(mail')
        BY <1>a, <3>1, <4>1, <4>2, TakeAny
      <4>4. QED
        BY <4>3 DEF NoticeOf
    <3>3. QED
      BY <1>1, <2>1, <3>1, <3>2 DEF Seen
  <2>5. CASE AwaitId(c)
    <3>1. client_id[c] = NoId /\ UNCHANGED seen
      BY <2>5 DEF AwaitId, history
    <3>2. NoId \notin Ids
      BY DEF NoId, Ids
    <3>3. ~Seen(c, p) /\ author[p] # c
      BY <2>1, <3>1, <3>2
    <3>4. QED
      BY <1>1, <3>1, <3>3 DEF Seen
  <2>6. CASE Receive(c)
    <3>1. PICK m \in Box!Returned(set_addressee(client_id[c])) :
            /\ ClientRead(c, m) /\ message_ptr[c] = Nothing /\ client[c] = "receive"
            /\ UNCHANGED <<client_id, author>>
            /\ \/ UNCHANGED seen
               \/ /\ m # Nothing /\ m.kind = "MESSAGE"
                  /\ seen' = [seen EXCEPT ![c] = Append(seen[c], m.text)]
      BY <2>6 DEF Receive, ClientGo
    <3>2. mail' = mail /\ message_ptr'[c] = m
      BY <1>a, <3>1 DEF ClientRead
    <3>3. client_id[c] \in Ids
      BY <1>a, <3>1 DEF Order, Registered
    <3>4. CASE Seen(c, p) \/ author[p] = c
      <4>1. NoticeOf(client_id[c], p) = {} /\ NoticeOf(client_id[c], p)' = {}
        BY <1>a, <2>1, <2>2, <3>1, <3>4 DEF NoticeOf
      <4>2. ASSUME Seen(c, p)', ~Seen(c, p) PROVE FALSE
        <5>1. m # Nothing /\ m.kind = "MESSAGE" /\ m.text = p
          BY <1>a, <3>1, <4>2, PrintedLast DEF Seen
        <5>2. m \in NoticeOf(client_id[c], p)
          BY <3>1, <5>1, Reading DEF NoticeOf
        <5>3. QED
          BY <4>1, <5>2
      <4>3. QED
        BY <1>1, <2>1, <3>4, <4>1, <4>2
    <3>5. CASE ~Seen(c, p) /\ author[p] # c
      <4> SUFFICES ASSUME Seen(c, p)'
                   PROVE  NoticeOf(client_id[c], p)' \subseteq {message_ptr'[c]}
        BY <1>1, <3>5
      <4>1. m # Nothing /\ m.kind = "MESSAGE" /\ m.text = p
        BY <1>a, <3>1, <3>5, PrintedLast DEF Seen
      <4>2. m \in NoticeOf(client_id[c], p)
        BY <3>1, <4>1, Reading DEF NoticeOf
      <4>3. NoticeOf(client_id[c], p) \subseteq {m}
        BY <3>3, <4>2 DEF Printing
      <4>4. QED
        BY <2>2, <3>1, <3>2, <4>3
    <3>6. QED
      BY <3>4, <3>5
  <2>7. ASSUME NEW d \in Clients, ClientStep(d) \/ User(d) \/ InterruptClient(d) \/ KillClient(d),
               d # c \/ ~(FreeSlot(d) \/ AwaitId(d) \/ Receive(d))
        PROVE  client_id'[c] = client_id[c] /\ seen'[c] = seen[c] /\ message_ptr'[c] = message_ptr[c]
    <3>1. CASE FreeSlot(d)
      BY <1>a, <2>7, <3>1 DEF FreeSlot, users, history
    <3>2. CASE AwaitId(d) \/ Receive(d)
      BY <1>a, <2>7, <3>2 DEF AwaitId, Receive, ClientRead, history
    <3>3. CASE ~(FreeSlot(d) \/ AwaitId(d) \/ Receive(d))
      BY <2>7, <3>3 DEF ClientStep, User, InterruptClient, KillClient, LoopExit, RequestId,
         LoopAgain, ReceiveExit, NoInput, SayOut, Attach, TypeNothing, TypeQuit, TypePost,
         ClientWrite, history
    <3>4. QED
      BY <3>1, <3>2, <3>3
  <2>8. QED
    BY <1>b, <2>3, <2>4, <2>5, <2>6, <2>7 DEF vars, users, history
<1>4. QED
  BY <1>2, <1>3, HistoriesStep DEF Printing

-----------------------------------------------------------------------------
(* The theorems. *)

IInv == Order /\ Printing /\ (server # "done" => Ownership /\ Texts)

LEMMA InitInv == Init => IInv
<1> SUFFICES ASSUME Init PROVE IInv
  OBVIOUS
<1>a. DOMAIN mail = {} /\ IsABag(mail) /\ BagToSet(mail) = {}
  BY DEF Init, EmptyBag, SetToBag, IsABag, BagToSet
<1>1. TypeOK
  <2>1. seen \in [Clients -> Seq(Posts)]
    BY DEF Init
  <2>2. QED
    BY <1>a, <2>1, ChatAssumption DEF Init, TypeOK, ServerStates, ClientStates, NoId
<1>2. Order
  BY <1>1, <1>a DEF Init, Order, InHand, Registered, Notifying
<1>3. Ownership
  BY <1>a DEF Init, Ownership, Unowned, Holders, Carriers, Ids, NoId
<1>4. Texts
  <2>1. \A c \in Clients : seen[c] = <<>> /\ Len(seen[c]) = 0
    BY DEF Init
  <2>2. \A p \in Posts : author[p] = Nothing
    BY DEF Init
  <2>3. \A p \in Posts : TextStage(p)
    BY <1>a, <2>1, <2>2 DEF Init, TextStage, PostOf, NoticeOf, Untold, SeenUnder, Seen, Forwarding
  <2>4. QED
    BY <2>1, <2>2, <2>3 DEF Texts, Histories
<1>5. QED
  BY <1>2, <1>3, <1>4, TextsPrint DEF IInv

LEMMA InvStep == IInv /\ [Next]_vars => IInv'
<1> SUFFICES ASSUME IInv, [Next]_vars PROVE IInv'
  OBVIOUS
<1>1. Order'
  BY OrderStep DEF IInv
<1>2. CASE server # "done"
  <2>1. Ownership'
    BY <1>1, <1>2, EveryStepMoves, MovesKeepOwnership DEF IInv
  <2>2. Texts'
    BY <1>1, <1>2, TextsStep DEF IInv
  <2>3. Printing'
    BY <1>1, <2>2, TextsPrint, PTL
  <2>4. QED
    BY <1>1, <2>1, <2>2, <2>3 DEF IInv
<1>3. CASE server = "done"
  BY <1>1, <1>3, DoneStays, PrintingStep DEF IInv
<1>4. QED
  BY <1>2, <1>3

(* The three layers hold as long as there is a semaphore, and the first and *)
(* what is left of the third in every state, whatever the number of clients,*)
(* of ids and of slots of the buffer, and whoever is killed inside a call.  *)
THEOREM InductiveInvariant == Spec => []IInv
BY InitInv, InvStep, PTL DEF Spec

(* What the variables of task2.c may hold.                                  *)
THEOREM TypeCorrect == Spec => []TypeOK
<1>1. IInv => TypeOK
  BY DEF IInv, Order
<1>2. QED
  BY <1>1, InductiveInvariant, PTL

(* No client prints a text twice or its own: also with a buffer that        *)
(* overflows, ids that pass from one client to another, and clients that    *)
(* share one and read the same slots when the semaphore is gone.            *)
THEOREM PrintOnce == Spec => []PrintedOnce
<1>1. ASSUME IInv PROVE PrintedOnce
  <2> SUFFICES ASSUME NEW c \in Clients, NEW k \in 1..Len(seen[c])
               PROVE  author[seen[c][k]] # c /\ \A j \in 1..(k - 1) : seen[c][k] # seen[c][j]
    BY DEF PrintedOnce
  <2>1. seen[c][k] \in Posts /\ Seen(c, seen[c][k])
    BY <1>1 DEF IInv, Order, TypeOK, Seen
  <2>2. QED
    BY <1>1, <2>1 DEF IInv, Printing, Histories
<1>2. QED
  BY <1>1, InductiveInvariant, PTL

(* An id has at most one owner, a free one none: the owners are counted as  *)
(* OneOwnerPerId counts them.                                               *)
LEMMA CountOwners ==
    ASSUME IInv, server # "done", NEW i \in Ids
    PROVE  Owners(i) = IF client_id_pool[i] = "TAKED" /\ ~Unowned(i) THEN 1 ELSE 0
<1> DEFINE Copies == UNION {{m} \X (1..mail[m]) : m \in Carriers(i)}
<1>1. Owners(i) = Cardinality(Holders(i)) + Cardinality(Copies)
  BY DEF Owners, InMail, Holders, Carriers, Carries
<1>2. IF client_id_pool[i] = "TAKED" THEN OwnedOnce(i) ELSE Unowned(i)
  BY DEF IInv, Ownership
<1>3. Carriers(i) = {} => Copies = {}
  OBVIOUS
<1>4. CASE Unowned(i)
  BY <1>1, <1>3, <1>4, FS_EmptySet DEF Unowned
<1>5. CASE ~Unowned(i)
  <2>1. client_id_pool[i] = "TAKED" /\ OwnedOnce(i)
    BY <1>2, <1>5
  <2>2. CASE Carriers(i) = {}
    <3>1. PICK c : Holders(i) = {c}
      BY <1>5, <2>1, <2>2 DEF Unowned, OwnedOnce
    <3>2. QED
      BY <1>1, <1>3, <1>5, <2>1, <2>2, <3>1, FS_EmptySet, FS_Singleton
  <2>3. CASE Carriers(i) # {}
    <3>1. Holders(i) = {}
      BY <2>1, <2>3 DEF OwnedOnce
    <3>2. PICK m : Carriers(i) = {m} /\ mail[m] = 1
      BY <2>1, <2>3 DEF OwnedOnce
    <3>3. Copies = {<<m, 1>>}
      BY <3>2
    <3> HIDE DEF Copies
    <3>4. Cardinality(Holders(i)) = 0 /\ Cardinality(Copies) = 1
      BY <3>1, <3>3, FS_EmptySet, FS_Singleton
    <3>5. QED
      BY <1>1, <1>5, <2>1, <3>4
  <2>4. QED
    BY <2>2, <2>3
<1>6. QED
  BY <1>4, <1>5

(* No two clients share an id while there is a semaphore, whatever becomes  *)
(* of the buffer and of those killed inside a call.                         *)
AtMostOne == \A i \in Ids : Owners(i) <= IF client_id_pool[i] = "TAKED" THEN 1 ELSE 0

THEOREM OneOwnerAtMost == Spec => [](server # "done" => AtMostOne)
<1>1. IInv => (server # "done" => AtMostOne)
  BY CountOwners DEF AtMostOne
<1>2. QED
  BY <1>1, InductiveInvariant, PTL

(* And while the buffer does not overflow, each id that is TAKED has one.   *)
(* (A message that lands on an unread reply or sign-off takes an id with    *)
(* it.)                                                                     *)
THEOREM OwnerOfEachId == Spec /\ [](~Box!Full) => []OneOwnerPerId
<1> DEFINE Had == server # "done" => NoneLost
<1>1. Init => Had
  BY DEF Init, NoneLost
<1>2. IInv /\ Had /\ ~Box!Full /\ [Next]_vars => Had'
  <2> SUFFICES ASSUME IInv, Had, ~Box!Full, [Next]_vars, server' # "done" PROVE NoneLost'
    OBVIOUS
  <2>1. IInv' /\ server # "done"
    BY InvStep, DoneStays
  <2>2. QED
    BY <2>1, EveryStepMoves, MovesKeepIds DEF IInv
<1>3. IInv /\ Had => OneOwnerPerId
  BY CountOwners DEF OneOwnerPerId, NoneLost
<1> HIDE DEF Had
<1>4. QED
  BY <1>1, <1>2, <1>3, InductiveInvariant, PTL DEF Spec

-----------------------------------------------------------------------------
(* The abstract pool of ids. *)

(* Where an id is, told by its one owner.                                   *)
StageFits(i) ==
    \/ /\ IdStage(i) = "free" /\ client_id_pool[i] = "FREE" /\ Unowned(i)
       /\ IdHolder(i) = Nothing
    \/ /\ IdStage(i) = "lost" /\ client_id_pool[i] = "TAKED" /\ Unowned(i)
       /\ IdHolder(i) = Nothing
    \/ /\ IdStage(i) = "held" /\ client_id_pool[i] = "TAKED"
       /\ IdHolder(i) \in Clients /\ Holders(i) = {IdHolder(i)} /\ Carriers(i) = {}
    \/ /\ IdStage(i) = "granted" /\ client_id_pool[i] = "TAKED" /\ Holders(i) = {}
       /\ \E m : Carriers(i) = {m} /\ mail[m] = 1 /\ m.type = MESSAGE_CLIENT_ID_SET
       /\ IdHolder(i) = Nothing
    \/ /\ IdStage(i) = "returned" /\ client_id_pool[i] = "TAKED" /\ Holders(i) = {}
       /\ \E m : Carriers(i) = {m} /\ mail[m] = 1 /\ m.type = MESSAGE_OUT_CHAT
       /\ IdHolder(i) = Nothing

LEMMA Staged == IInv /\ server # "done" => \A i \in Ids : StageFits(i)
<1> SUFFICES ASSUME IInv, server # "done", NEW i \in Ids PROVE StageFits(i)
  OBVIOUS
<1>1. /\ IF client_id_pool[i] = "TAKED" THEN OwnedOnce(i) ELSE Unowned(i)
      /\ client_id_pool[i] \in {"FREE", "TAKED"}
  BY DEF IInv, Ownership, Order, TypeOK
<1>2. Owners(i) = IF client_id_pool[i] = "TAKED" /\ ~Unowned(i) THEN 1 ELSE 0
  BY CountOwners
<1>3. Holders(i) \subseteq Clients
  BY DEF Holders
<1>4. /\ Replied(i) <=> \E m \in Carriers(i) : m.type = MESSAGE_CLIENT_ID_SET
      /\ SaidOut(i) <=> \E m \in Carriers(i) : m.type = MESSAGE_OUT_CHAT
  BY DEF Replied, SaidOut, Carriers, Carries, MESSAGE_CLIENT_ID_SET, MESSAGE_OUT_CHAT
<1>5. CASE client_id_pool[i] = "FREE"
  BY <1>1, <1>2, <1>5 DEF StageFits, IdStage, IdHolder
<1>6. CASE client_id_pool[i] = "TAKED" /\ Unowned(i)
  BY <1>2, <1>4, <1>6 DEF StageFits, IdStage, IdHolder, Unowned
<1>7. CASE client_id_pool[i] = "TAKED" /\ Holders(i) # {}
  <2>1. OwnedOnce(i) /\ Carriers(i) = {} /\ ~Unowned(i)
    BY <1>1, <1>7 DEF OwnedOnce, Unowned
  <2>2. PICK c \in Clients : Holders(i) = {c}
    BY <1>3, <1>7, <2>1 DEF OwnedOnce
  <2>3. IdStage(i) = "held"
    BY <1>2, <1>7, <2>1 DEF IdStage
  <2>4. IdHolder(i) = c
    BY <2>2, <2>3 DEF IdHolder
  <2>5. QED
    BY <1>7, <2>1, <2>2, <2>3, <2>4 DEF StageFits
<1>8. CASE client_id_pool[i] = "TAKED" /\ Holders(i) = {} /\ ~Unowned(i)
  <2>1. PICK m \in Carriers(i) : Carriers(i) = {m} /\ mail[m] = 1
    BY <1>1, <1>8 DEF OwnedOnce, Unowned
  <2>2. m.type \in {MESSAGE_CLIENT_ID_SET, MESSAGE_OUT_CHAT}
    BY DEF Carriers, Carries
  <2>3. IdStage(i) = IF m.type = MESSAGE_CLIENT_ID_SET THEN "granted" ELSE "returned"
    BY <1>2, <1>4, <1>8, <2>1, <2>2 DEF IdStage, MESSAGE_CLIENT_ID_SET, MESSAGE_OUT_CHAT
  <2>4. QED
    BY <1>8, <2>1, <2>2, <2>3 DEF StageFits, IdHolder
<1>9. QED
  BY <1>1, <1>5, <1>6, <1>7, <1>8

LEMMA StagedNext == IInv' /\ server' # "done" => (\A i \in Ids : StageFits(i))'
<1>1. (IInv /\ server # "done" => \A i \in Ids : StageFits(i))'
  BY Staged, PTL
<1>2. QED
  BY <1>1

(* What each move of an id is to the pool.                                  *)
LEMMA StageStays ==
    ASSUME NEW i \in Ids, StageFits(i), StageFits(i)', Stays(i)
    PROVE  /\ IdHolder(i)' = IdHolder(i)
           /\ \/ IdStage(i)' = IdStage(i)
              \/ /\ IdStage(i) \in {"granted", "returned"} /\ IdStage(i)' = "lost"
                 /\ Box!Full /\ ~(Carriers(i) \subseteq Carriers(i)')
BY DEF StageFits, Stays, SameId, FewerReplies, Unowned, MESSAGE_CLIENT_ID_SET, MESSAGE_OUT_CHAT

LEMMA StageGranted ==
    ASSUME NEW i \in Ids, StageFits(i), StageFits(i)', Granted(i)
    PROVE  /\ IdStage(i) = "free" /\ IdStage(i)' = "granted"
           /\ IdHolder(i)' = Nothing
BY DEF StageFits, Granted, OneMore, Unowned, MESSAGE_CLIENT_ID_SET, MESSAGE_OUT_CHAT

LEMMA StageSignedOff ==
    ASSUME NEW i \in Ids, StageFits(i), StageFits(i)', SignedOff(i)
    PROVE  /\ IdStage(i) = "held" /\ IdStage(i)' = "returned"
           /\ IdHolder(i)' = Nothing
BY DEF StageFits, SignedOff, SameId, OneMore, Unowned, MESSAGE_CLIENT_ID_SET, MESSAGE_OUT_CHAT

LEMMA StageFreed ==
    ASSUME NEW i \in Ids, StageFits(i), StageFits(i)', Freed(i)
    PROVE  /\ IdStage(i) = "returned" /\ IdStage(i)' = "free"
           /\ IdHolder(i)' = Nothing
BY DEF StageFits, Freed, OneLess, Unowned, MESSAGE_CLIENT_ID_SET, MESSAGE_OUT_CHAT

LEMMA StageClaimed ==
    ASSUME \A i \in Ids : StageFits(i), NEW i \in Ids, StageFits(i)', Claimed(i)
    PROVE  /\ IdStage(i) = "granted" /\ IdStage(i)' = "held"
           /\ IdHolder(i)' \in Clients /\ \A j \in Ids : IdHolder(j) # IdHolder(i)'
<1>1. PICK c \in Clients : /\ Holders(i)' = Holders(i) \cup {c}
                           /\ \A j \in Ids : c \notin Holders(j)
  BY DEF Claimed
<1>2. IdStage(i) = "granted" /\ Holders(i) = {}
  BY DEF StageFits, Claimed, OneLess, Unowned, MESSAGE_CLIENT_ID_SET, MESSAGE_OUT_CHAT
<1>3. IdStage(i)' = "held" /\ IdHolder(i)' = c
  BY <1>1, <1>2 DEF StageFits, Unowned
<1>4. c # Nothing
  BY ChatAssumption DEF Procs
<1>5. QED
  BY <1>1, <1>2, <1>3, <1>4 DEF StageFits

(* The ids but one as the pool has them, those in gone lost.                *)
Others(one, gone) ==
    \A j \in Ids \ {one} : /\ IdHolder(j)' = IdHolder(j)
                           /\ IdStage(j)' = IF j \in gone THEN "lost" ELSE IdStage(j)
Losable(gone) ==
    gone = {} \/ \E j \in Ids : /\ gone = {j} /\ Box!Full
                              /\ IdStage(j) \in {"granted", "returned"}

LEMMA OthersFit ==
    ASSUME \A i \in Ids : StageFits(i), \A i \in Ids : StageFits(i)',
           NEW one, NEW loser, OthersStay(one, loser)
    PROVE  \E gone \in SUBSET (Ids \cap {loser}) : Others(one, gone) /\ Losable(gone)
<1>1. \A j \in Ids \ {one} :
         /\ IdHolder(j)' = IdHolder(j)
         /\ \/ IdStage(j)' = IdStage(j)
            \/ /\ IdStage(j) \in {"granted", "returned"} /\ IdStage(j)' = "lost"
               /\ Box!Full /\ j = loser
  <2> SUFFICES ASSUME NEW j \in Ids \ {one}
               PROVE  /\ IdHolder(j)' = IdHolder(j)
                      /\ \/ IdStage(j)' = IdStage(j)
                         \/ /\ IdStage(j) \in {"granted", "returned"} /\ IdStage(j)' = "lost"
                            /\ Box!Full /\ j = loser
    BY Zenon
  <2>1. /\ IdHolder(j)' = IdHolder(j)
        /\ \/ IdStage(j)' = IdStage(j)
           \/ /\ IdStage(j) \in {"granted", "returned"} /\ IdStage(j)' = "lost"
              /\ Box!Full /\ ~(Carriers(j) \subseteq Carriers(j)')
    <3>1. j \in Ids /\ Stays(j) /\ StageFits(j) /\ StageFits(j)'
      BY Zenon DEF OthersStay
    <3>2. QED
      BY <3>1, StageStays
  <2>2. j # loser => Carriers(j) \subseteq Carriers(j)'
    BY Zenon DEF OthersStay
  <2>3. QED
    BY <2>1, <2>2, Zenon
<1>2. CASE loser \in Ids \ {one} /\ IdStage(loser)' # IdStage(loser)
  <2>1. Others(one, {loser}) /\ Losable({loser})
    BY <1>1, <1>2 DEF Others, Losable
  <2>2. QED
    BY <1>2, <2>1
<1>3. CASE ~(loser \in Ids \ {one} /\ IdStage(loser)' # IdStage(loser))
  <2>1. Others(one, {}) /\ Losable({})
    BY <1>1, <1>3 DEF Others, Losable
  <2>2. QED
    BY <2>1
<1>4. QED
  BY <1>2, <1>3

LEMMA PoolGoes ==
    ASSUME NEW i \in Ids, NEW gone, Others(i, gone)
    PROVE  Pool!Goes(i, IdStage(i)', IdHolder(i)', gone)
BY Zenon DEF Pool!Goes, Others

LEMMA PoolMoves ==
    ASSUME IInv, IInv', server # "done", server' # "done", Moves
    PROVE  Pool!Next \/ UNCHANGED Pool!vars
<1>1. (\A i \in Ids : StageFits(i)) /\ (\A i \in Ids : StageFits(i)')
  BY Staged, StagedNext
<1>2. CASE \E loser : OthersStay(NoId, loser)
  <2>1. PICK gone : Others(NoId, gone) /\ Losable(gone)
    BY <1>1, <1>2, OthersFit
  <2>2. \A j \in Ids : /\ IdHolder(j)' = IdHolder(j)
                      /\ IdStage(j)' = IF j \in gone THEN "lost" ELSE IdStage(j)
    BY <2>1 DEF Others, NoId, Ids
  <2>3. CASE gone = {}
    BY <2>2, <2>3 DEF Pool!vars
  <2>4. CASE \E j \in Ids : gone = {j} /\ Box!Full /\ IdStage(j) \in {"granted", "returned"}
    <3>1. PICK j \in Ids : gone = {j} /\ Box!Full /\ IdStage(j) \in {"granted", "returned"}
      BY <2>4
    <3>2. Pool!Overwrite(j)
      BY <2>2, <3>1 DEF Pool!Overwrite, Pool!UnderWay
    <3>3. QED
      BY <3>2 DEF Pool!Next
  <2>5. QED
    BY <2>1, <2>3, <2>4 DEF Losable
<1>3. ASSUME NEW i \in Ids, NEW loser, Granted(i) \/ SignedOff(i), OthersStay(i, loser)
      PROVE  Pool!Next
  <2>1. PICK gone : Others(i, gone) /\ Losable(gone)
    BY <1>1, <1>3, OthersFit
  <2>2. IdHolder(i)' = Nothing
    BY <1>1, <1>3, StageGranted, StageSignedOff
  <2>3. Pool!Goes(i, IdStage(i)', Nothing, gone)
    BY <2>1, <2>2, PoolGoes
  <2>4. gone = {} \/ \E j \in Pool!UnderWay : gone = {j} /\ Box!Full
    BY <2>1 DEF Losable, Pool!UnderWay
  <2>5. Pool!Sent(i, IdStage(i)')
    BY <2>3, <2>4 DEF Pool!Sent
  <2>6. CASE Granted(i)
    <3>1. IdStage(i) = "free" /\ IdStage(i)' = "granted"
      BY <1>1, <2>6, StageGranted
    <3>2. Pool!Grant(i)
      BY <2>5, <3>1 DEF Pool!Grant
    <3>3. QED
      BY <3>2 DEF Pool!Next
  <2>7. CASE SignedOff(i)
    <3>1. IdStage(i) = "held" /\ IdStage(i)' = "returned"
      BY <1>1, <2>7, StageSignedOff
    <3>2. Pool!SignOff(i)
      BY <2>5, <3>1 DEF Pool!SignOff
    <3>3. QED
      BY <3>2 DEF Pool!Next
  <2>8. QED
    BY <1>3, <2>6, <2>7
<1>4. ASSUME NEW i \in Ids, Claimed(i) \/ Freed(i), OthersStay(i, NoId)
      PROVE  Pool!Next
  <2>1. Others(i, {})
    <3>1. NoId \notin Ids
      BY DEF NoId, Ids
    <3>2. Ids \cap {NoId} = {}
      BY <3>1
    <3>3. QED
      BY <1>1, <1>4, <3>2, OthersFit
  <2>2. Pool!Goes(i, IdStage(i)', IdHolder(i)', {})
    BY <2>1, PoolGoes
  <2>3. CASE Claimed(i)
    <3>1. /\ IdStage(i) = "granted" /\ IdStage(i)' = "held"
          /\ IdHolder(i)' \in Clients /\ \A j \in Ids : IdHolder(j) # IdHolder(i)'
      BY <1>1, <2>3, StageClaimed
    <3>2. PICK c \in Clients : c = IdHolder(i)'
      BY <3>1
    <3>3. Pool!Claim(i, c)
      BY <2>2, <3>1, <3>2 DEF Pool!Claim
    <3>4. QED
      BY <3>3 DEF Pool!Next
  <2>4. CASE Freed(i)
    <3>1. IdStage(i) = "returned" /\ IdStage(i)' = "free" /\ IdHolder(i)' = Nothing
      BY <1>1, <2>4, StageFreed
    <3>2. Pool!Free(i)
      BY <2>2, <3>1 DEF Pool!Free
    <3>3. QED
      BY <3>2 DEF Pool!Next
  <2>5. QED
    BY <1>4, <2>3, <2>4
<1>5. QED
  BY <1>2, <1>3, <1>4 DEF Moves

LEMMA PoolCloses == ASSUME server' = "done" PROVE Pool!Next
<1>1. \A i \in Ids : IdStage(i)' = "over" /\ IdHolder(i)' = Nothing
  BY DEF IdStage, IdHolder
<1>2. Pool!Close
  BY <1>1 DEF Pool!Close
<1>3. QED
  BY <1>2 DEF Pool!Next

(* The chat goes by IdPool: an id is claimed only after it was granted, and *)
(* is free again only after the client that has it has signed off, with any *)
(* number of clients and ids; and one write into a full buffer takes one id *)
(* out of use at most, its own or the one it lands on; until the server     *)
(* removes the semaphore, whoever is killed inside a call.                  *)
THEOREM PoolRefinement == Spec => ImplementsIdPool
<1>1. Init => Pool!Init
  <2> SUFFICES ASSUME Init PROVE Pool!Init
    OBVIOUS
  <2>1. IInv
    BY InitInv
  <2>2. \A i \in Ids : IdStage(i) = "free" /\ IdHolder(i) = Nothing
    BY <2>1, Staged DEF StageFits, Init
  <2>3. QED
    BY <2>2 DEF Pool!Init
<1>2. IInv /\ IInv' /\ [Next]_vars => Pool!Next \/ UNCHANGED Pool!vars
  BY EveryStepMoves, PoolMoves, PoolCloses, DoneStays DEF IInv
<1>3. QED
  BY <1>1, <1>2, InductiveInvariant, PTL DEF Spec, ImplementsIdPool, Pool!Spec, Pool!vars

-----------------------------------------------------------------------------
(* No text gets lost. *)

(* Where text p may be on its way to c: posted, in the server's hand, in    *)
(* the buffer for c, on its screen.                                         *)
UnderWay(c, p) ==
    \/ PostOf(p) # {} \/ (Forwarding(p) /\ client_id[c] \in todo)
    \/ NoticeOf(client_id[c], p) # {} \/ Seen(c, p)

(* While there is a semaphore, a text is on its way to everyone who was in  *)
(* the chat when it was posted and has not left or been stopped.            *)
TextsReach ==
    server # "done" =>
        \A p \in Posts : \A c \in audience[p] : client[c] \notin Gone => UnderWay(c, p)

(* Whoever is to read a text has an id of its own.                          *)
ReadersHaveIds ==
    \A p \in Posts : \A c \in audience[p] :
        /\ client_id[c] \in Ids
        /\ author[p] \in Clients /\ client_id[c] # client_id[author[p]]

(* Two in the chat have different ids, and those ids are TAKED.             *)
LEMMA InChatApart ==
    ASSUME Order, Ownership
    PROVE  /\ \A c, d \in Clients :
                 /\ client[c] \notin Gone /\ client[d] \notin Gone /\ c # d
                 /\ client_id[c] \in Ids
                 => client_id[c] # client_id[d]
           /\ \A c \in Clients :
                 client[c] \notin Gone /\ client_id[c] \in Ids
                 => client_id[c] \in Taked(client_id_pool)
<1>1. ASSUME NEW c \in Clients, client[c] \notin Gone, client_id[c] \in Ids
      PROVE  /\ c \in Holders(client_id[c]) /\ OwnedOnce(client_id[c])
             /\ client_id[c] \in Taked(client_id_pool)
  <2>1. c \in Holders(client_id[c])
    BY <1>1 DEF Holders, Gone
  <2>2. client_id_pool[client_id[c]] = "TAKED" /\ OwnedOnce(client_id[c])
    BY <1>1, <2>1 DEF Ownership, Unowned
  <2>3. QED
    BY <1>1, <2>1, <2>2 DEF Taked
<1>2. ASSUME NEW c \in Clients, NEW d \in Clients, client[c] \notin Gone, client[d] \notin Gone,
             client_id[c] \in Ids, client_id[c] = client_id[d]
      PROVE  c = d
  <2>1. c \in Holders(client_id[c]) /\ d \in Holders(client_id[c]) /\ OwnedOnce(client_id[c])
    BY <1>1, <1>2
  <2>2. QED
    BY <2>1 DEF OwnedOnce
<1>3. QED
  BY <1>1, <1>2

(* Whoever has an id keeps it, and who has left or was stopped stays so.    *)
IdsKept == \A c \in Clients : client_id[c] # NoId => client_id'[c] = client_id[c]
GoneStays == \A c \in Clients : client[c] \in Gone => client'[c] = client[c]

LEMMA ClientsStay == ASSUME Order, [Next]_vars PROVE IdsKept /\ GoneStays
<1>1. /\ client_id \in [Clients -> Ids \cup {NoId}] /\ client \in [Clients -> ClientStates]
  BY DEF Order, TypeOK
<1>2. CASE ServerStep \/ ServerTypesLine \/ ServerQuits \/ InterruptServer \/ UNCHANGED vars
  <2>1. UNCHANGED <<client, client_id>>
    BY <1>2 DEF ServerStep, ServerTypesLine, ServerQuits, ServerLoop, StartEndJob, ServerInput,
       ReadRequest, GrantId, DropRequest, ReadPost, ReadOut, Notify, RemoveIPC, ServerNotifies,
       ServerGo, InterruptServer, vars, users
  <2>2. QED
    BY <2>1 DEF IdsKept, GoneStays
<1>3. ASSUME NEW c \in Clients, ClientStep(c) \/ User(c), ~FreeSlot(c) PROVE IdsKept /\ GoneStays
  <2>1. \E from, to : from \notin Gone /\ ClientGo(c, from, to)
    BY <1>3 DEF ClientStep, User, LoopExit, RequestId, AwaitId, LoopAgain, Receive, ReceiveExit,
       NoInput, SayOut, Attach, TypePost, TypeNothing, TypeQuit, Typing, Gone, ClientWrite
  <2>2. GoneStays
    BY <1>1, <2>1 DEF ClientGo, GoneStays
  <2>3. AwaitId(c) \/ client_id' = client_id
    BY <1>3 DEF ClientStep, User, LoopExit, RequestId, LoopAgain, Receive, ReceiveExit,
       NoInput, SayOut, Attach, TypePost, TypeNothing, TypeQuit
  <2>4. AwaitId(c) => IdsKept
    BY <1>1 DEF AwaitId, IdsKept
  <2>5. QED
    BY <2>2, <2>3, <2>4 DEF IdsKept
<1>4. ASSUME NEW c \in Clients, InterruptClient(c) \/ KillClient(c) PROVE IdsKept /\ GoneStays
  BY <1>1, <1>4 DEF InterruptClient, KillClient, IdsKept, GoneStays, Gone
<1>5. ASSUME NEW c \in Clients, FreeSlot(c) PROVE IdsKept /\ GoneStays
  BY <1>5 DEF FreeSlot, users, IdsKept, GoneStays
<1>6. QED
  BY <1>2, <1>3, <1>4, <1>5 DEF Next

(* A step that leaves texts, screens and the server's hand alone.           *)
KeepsTexts ==
    \A m \in BagToSet(mail) : m \in BagToSet(mail') \/ (m.type < 5 /\ m.type # MESSAGE_POST_REQUEST)
Quiet ==
    /\ KeepsTexts /\ seen' = seen
    /\ server = "forward" => UNCHANGED <<server, handled, todo>>

LEMMA ReachQuiet ==
    ASSUME Quiet, IdsKept, NEW c \in Clients, client_id[c] \in Ids, NEW p, UnderWay(c, p)
    PROVE  UnderWay(c, p)'
<1>1. PICK i : i \in Ids /\ i = client_id[c]
  OBVIOUS
<1>2. client_id'[c] = i
  BY <1>1 DEF IdsKept, NoId, Ids
<1>3. PostOf(p) # {} => PostOf(p)' # {}
  BY DEF Quiet, KeepsTexts, PostOf
<1>4. NoticeOf(i, p) # {} => NoticeOf(i, p)' # {}
  <2>1. set_addressee(i) \in Nat /\ set_addressee(i) > 4
    BY <1>1, Addressees
  <2>2. ASSUME NEW m \in NoticeOf(i, p) PROVE m \in NoticeOf(i, p)'
    BY <2>1, <2>2 DEF Quiet, KeepsTexts, NoticeOf
  <2>3. QED
    BY <2>2
<1>5. Forwarding(p) /\ i \in todo => Forwarding(p)' /\ i \in todo'
  BY DEF Quiet, Forwarding
<1>6. Seen(c, p) => Seen(c, p)'
  BY DEF Quiet, Seen
<1>7. QED
  BY <1>1, <1>2, <1>3, <1>4, <1>5, <1>6 DEF UnderWay

LEMMA PutQuiet == ASSUME Order, ~Box!Full, NEW m, Box!Put(m) PROVE m \in BagToSet(mail') /\ KeepsTexts
BY Putting, PutKeeps DEF Order, TypeOK, Gains, KeepsTexts

LEMMA TakeQuiet ==
    ASSUME Order, NEW t \in {MESSAGE_CLIENT_ID_REQUEST, MESSAGE_CLIENT_ID_SET, MESSAGE_OUT_CHAT},
           NEW m \in Box!Returned(t), Box!Take(m)
    PROVE  KeepsTexts
<1>1. t < 5 /\ t # MESSAGE_POST_REQUEST
  BY DEF MESSAGE_CLIENT_ID_REQUEST, MESSAGE_CLIENT_ID_SET, MESSAGE_OUT_CHAT, MESSAGE_POST_REQUEST
<1>2. /\ m = Nothing => mail' = mail
      /\ m # Nothing => m.type = t /\ BagToSet(mail) \ {m} \subseteq BagToSet(mail')
  BY Taking
<1>3. QED
  BY <1>1, <1>2 DEF KeepsTexts

LEMMA SameQuiet == ASSUME UNCHANGED mail PROVE KeepsTexts
BY DEF KeepsTexts

LEMMA QuietServer ==
    ASSUME Order, ~Box!Full, ServerStep \/ ServerTypesLine \/ ServerQuits
    PROVE  Quiet \/ ReadPost \/ (Notify /\ server = "forward")
<1>a. seen' = seen
  BY DEF ServerStep, ServerTypesLine, ServerQuits, ServerLoop, StartEndJob, ServerInput, ReadRequest,
     GrantId, DropRequest, ReadPost, ReadOut, Notify, RemoveIPC, ServerNotifies, ServerGo, history
<1>1. CASE ServerLoop \/ ServerInput \/ ServerTypesLine \/ ServerQuits \/ DropRequest \/ RemoveIPC
  <2>1. UNCHANGED mail /\ server # "forward"
    BY <1>1 DEF ServerLoop, ServerInput, ServerTypesLine, ServerQuits, DropRequest, StartEndJob,
       RemoveIPC, ServerNotifies, ServerGo
  <2>2. QED
    BY <1>a, <2>1, SameQuiet DEF Quiet
<1>2. CASE ReadRequest \/ ReadOut
  <2>1. PICK t, m :
           t \in {MESSAGE_CLIENT_ID_REQUEST, MESSAGE_OUT_CHAT} /\ m \in Box!Returned(t) /\ Box!Take(m) /\ server # "forward"
    BY <1>2 DEF ReadRequest, ReadOut, ServerGo, ServerNotifies
  <2>2. QED
    BY <1>a, <2>1, TakeQuiet DEF Quiet
<1>3. CASE GrantId
  <2>1. \E m : Box!Put(m) /\ server # "forward"
    BY <1>3 DEF GrantId, ServerNotifies, ServerGo
  <2>2. QED
    BY <1>a, <2>1, PutQuiet DEF Quiet
<1>4. CASE Notify /\ server # "forward"
  BY <1>a, <1>4, PutQuiet DEF Notify, Quiet
<1>5. QED
  BY <1>1, <1>2, <1>3, <1>4 DEF ServerStep

LEMMA QuietClient ==
    ASSUME Order, ~Box!Full, server # "done", NEW c \in Clients,
           ClientStep(c) \/ User(c) \/ InterruptClient(c) \/ KillClient(c)
    PROVE  Quiet \/ Receive(c)
<1>a. UNCHANGED <<server, handled, todo>>
  BY WithSemaphore
     DEF ClientStep, User, InterruptClient, KillClient, LoopExit, RequestId, AwaitId, LoopAgain,
     Receive, ReceiveExit, NoInput, SayOut, Attach, TypeNothing, TypeQuit, TypePost,
     ClientWrite, ClientGo
<1>b. seen' = seen \/ Receive(c)
  BY WithSemaphore
     DEF ClientStep, User, InterruptClient, KillClient, LoopExit, RequestId, AwaitId, LoopAgain,
     ReceiveExit, NoInput, SayOut, Attach, TypeNothing, TypeQuit, TypePost, history
<1>1. CASE LoopExit(c) \/ LoopAgain(c) \/ ReceiveExit(c) \/ NoInput(c) \/ Attach(c) \/ TypeNothing(c)
           \/ TypeQuit(c) \/ InterruptClient(c) \/ KillClient(c)
  <2>1. UNCHANGED mail
    BY <1>1 DEF LoopExit, LoopAgain, ReceiveExit, NoInput, Attach, TypeNothing, TypeQuit,
       InterruptClient, KillClient
  <2>2. QED
    BY <1>a, <1>b, <2>1, SameQuiet DEF Quiet
<1>2. CASE RequestId(c) \/ SayOut(c) \/ \E q \in Posts : TypePost(c, q)
  <2>1. UNCHANGED mail \/ \E m : Box!Put(m)
    BY <1>2 DEF RequestId, SayOut, TypePost, ClientWrite
  <2>2. KeepsTexts
    BY <2>1, SameQuiet, PutQuiet
  <2>3. QED
    BY <1>a, <1>b, <2>2 DEF Quiet
<1>3. CASE AwaitId(c)
  <2>1. \E m \in Box!Returned(MESSAGE_CLIENT_ID_SET) : Box!Take(m)
    BY <1>3, WithSemaphore DEF AwaitId
  <2>2. KeepsTexts
    BY <2>1, TakeQuiet
  <2>3. QED
    BY <1>a, <1>b, <2>2 DEF Quiet
<1>4. QED
  BY <1>1, <1>2, <1>3, WithSemaphore DEF ClientStep, User

(* The server takes a post in hand for everyone who has another id.         *)
LEMMA ReachReadPost ==
    ASSUME Order, Ownership, Texts, ReadPost, NEW c \in Clients, client_id[c] \in Ids,
           client[c] \notin Gone,
           NEW p \in Posts, author[p] \in Clients, client_id[author[p]] # client_id[c], UnderWay(c, p)
    PROVE  UnderWay(c, p)'
<1>1. PICK i : i \in Ids /\ i = client_id[c]
  OBVIOUS
<1>2. PICK m \in Box!Returned(MESSAGE_POST_REQUEST) :
        /\ Box!Take(m) /\ server = "posts" /\ UNCHANGED <<client_id, seen>>
        /\ m # Nothing => ServerNotifies("posts", "forward", m, Readers(m))
  BY DEF ReadPost, ServerGo, ServerNotifies, users, history
<1>3. /\ m = Nothing => mail' = mail
      /\ m # Nothing => /\ m \in BagToSet(mail) /\ m.type = MESSAGE_POST_REQUEST /\ Shaped(m)
                        /\ BagToSet(mail) \ {m} \subseteq BagToSet(mail')
  BY <1>2, Taking
<1>4. ~Forwarding(p) /\ (Seen(c, p) => Seen(c, p)')
  BY <1>2 DEF Forwarding, Seen
<1>5. NoticeOf(i, p) # {} => NoticeOf(i, p)' # {}
  <2>1. set_addressee(i) # MESSAGE_POST_REQUEST
    BY <1>1, Addressees DEF MESSAGE_POST_REQUEST
  <2>2. m \notin NoticeOf(i, p) \/ m = Nothing
    BY <1>3, <2>1 DEF NoticeOf
  <2>3. NoticeOf(i, p) \subseteq NoticeOf(i, p)'
    BY <1>3, <2>2 DEF NoticeOf
  <2>4. QED
    BY <2>3
<1>6. ASSUME NEW n \in PostOf(p) PROVE PostOf(p)' # {} \/ (Forwarding(p)' /\ i \in todo')
  <2>1. CASE m = Nothing \/ n # m
    <3>1. n \in PostOf(p)'
      BY <1>3, <1>6, <2>1 DEF PostOf
    <3>2. QED
      BY <3>1
  <2>2. CASE m # Nothing /\ n = m
    <3>1. m.text = p /\ m.writer_name = author[p]
      BY <1>6, <2>2 DEF PostOf, Texts, TextStage
    <3>2. m.writer_id = client_id[author[p]]
      BY <1>3, <2>2, <3>1 DEF Shaped
    <3>3. i \in Readers(m)
      BY <1>1, <3>2, InChatApart DEF Readers
    <3>4. server' = "forward" /\ todo' = Readers(m) /\ handled' = m
      BY <1>2, <2>2, <3>3 DEF ServerNotifies, ServerGo
    <3>5. QED
      BY <3>1, <3>3, <3>4 DEF Forwarding
  <2>3. QED
    BY <2>1, <2>2
<1>7. QED
  BY <1>1, <1>2, <1>4, <1>5, <1>6 DEF UnderWay

(* It sends the text to the least of those ids.                             *)
LEMMA ReachForward ==
    ASSUME Order, ~Box!Full, Notify, server = "forward", NEW c \in Clients, client_id[c] \in Ids,
           NEW p, UnderWay(c, p)
    PROVE  UnderWay(c, p)'
<1>1. PICK i, l, m : i \in Ids /\ i = client_id[c] /\ l = Least(todo) /\ m = Notice(l)
  OBVIOUS
<1>2. /\ Box!Put(m) /\ ServerNotifies(server, server, handled, todo \ {l})
      /\ UNCHANGED <<client_id, seen>>
  BY <1>1 DEF Notify, ServerNotifies, ServerGo, users, history
<1>3. m.type = set_addressee(l) /\ l \in Ids /\ m.kind = "MESSAGE" /\ m.text = handled.text
  BY <1>1, FreeTaked, Notices DEF Order, InHand, Notify
<1>4. m \in BagToSet(mail') /\ BagToSet(mail) \subseteq BagToSet(mail')
  BY <1>2, PutQuiet, PutKeeps DEF Order, TypeOK
<1>5. /\ PostOf(p) # {} => PostOf(p)' # {}
      /\ NoticeOf(i, p) # {} => NoticeOf(i, p)' # {}
  BY <1>4 DEF PostOf, NoticeOf
<1>6. Seen(c, p) => Seen(c, p)'
  BY <1>2 DEF Seen
<1>7. ASSUME Forwarding(p), i \in todo, i # l PROVE Forwarding(p)' /\ i \in todo'
  BY <1>2, <1>7 DEF Forwarding, ServerNotifies, ServerGo
<1>8. ASSUME Forwarding(p), i = l PROVE NoticeOf(i, p)' # {}
  <2>1. m \in NoticeOf(i, p)'
    BY <1>3, <1>4, <1>8 DEF Forwarding, NoticeOf
  <2>2. QED
    BY <2>1
<1>9. QED
  BY <1>1, <1>2, <1>5, <1>6, <1>7, <1>8 DEF UnderWay

(* It is the reader itself who takes the text out of the buffer.            *)
LEMMA ReachReceive ==
    ASSUME Order, Ownership, server # "done", NEW d \in Clients, Receive(d), NEW c \in Clients,
           client_id[c] \in Ids, client[c] \notin Gone, NEW p, UnderWay(c, p)
    PROVE  UnderWay(c, p)'
<1>1. PICK i, j : i \in Ids /\ i = client_id[c] /\ j = client_id[d]
  OBVIOUS
<1>2. PICK m \in Box!Returned(set_addressee(j)) :
        /\ Box!Take(m) /\ client[d] = "receive"
        /\ seen' = IF m # Nothing /\ m.kind = "MESSAGE"
                     THEN [seen EXCEPT ![d] = Append(seen[d], m.text)] ELSE seen
        /\ UNCHANGED <<client_id, server, handled, todo>>
  BY <1>1, WithSemaphore DEF Receive, ClientGo
<1>3. j \in Ids
  BY <1>1, <1>2 DEF Order, TypeOK, Registered
<1>4. /\ m = Nothing => mail' = mail
      /\ m # Nothing => /\ m \in BagToSet(mail) /\ m.type = set_addressee(j) /\ Shaped(m)
                        /\ BagToSet(mail) \ {m} \subseteq BagToSet(mail')
  BY <1>2, Taking
<1>5. PICK s : s = seen[d] /\ s \in Seq(Posts)
  BY DEF Order, TypeOK
<1>6. ASSUME m # Nothing, m.kind = "MESSAGE"
      PROVE  /\ Len(s) \in Nat /\ Len(seen'[d]) = Len(s) + 1
             /\ seen'[d][Len(s) + 1] = m.text /\ \A k \in 1..Len(s) : seen'[d][k] = s[k]
             /\ \A e \in Clients \ {d} : seen'[e] = seen[e]
  <2>1. m.text \in Posts
    BY <1>3, <1>4, <1>6 DEF Shaped
  <2>2. seen' = [seen EXCEPT ![d] = Append(s, m.text)] /\ seen \in [Clients -> Seq(Posts)]
    BY <1>2, <1>5, <1>6 DEF Order, TypeOK
  <2>3. seen'[d] = Append(s, m.text) /\ \A e \in Clients \ {d} : seen'[e] = seen[e]
    BY <2>2
  <2>4. /\ Len(s) \in Nat /\ Len(Append(s, m.text)) = Len(s) + 1
        /\ Append(s, m.text)[Len(s) + 1] = m.text
        /\ \A k \in 1..Len(s) : Append(s, m.text)[k] = s[k]
    BY <1>5, <2>1, AppendProperties
  <2>5. QED
    BY <2>3, <2>4
<1>7. PostOf(p) # {} => PostOf(p)' # {}
  <2>1. set_addressee(j) # MESSAGE_POST_REQUEST
    BY <1>3, Addressees DEF MESSAGE_POST_REQUEST
  <2>2. PostOf(p) \subseteq PostOf(p)'
    BY <1>4, <2>1 DEF PostOf
  <2>3. QED
    BY <2>2
<1>8. Forwarding(p) /\ i \in todo => Forwarding(p)' /\ i \in todo'
  BY <1>2 DEF Forwarding
<1>9. Seen(c, p) => Seen(c, p)'
  <2>1. CASE m # Nothing /\ m.kind = "MESSAGE" /\ c = d
    <3>1. \A k \in 1..Len(s) : k \in 1..Len(seen'[d])
      BY <1>6, <2>1
    <3>2. QED
      BY <1>5, <1>6, <2>1, <3>1 DEF Seen
  <2>2. CASE m # Nothing /\ m.kind = "MESSAGE" /\ c # d
    BY <1>6, <2>2 DEF Seen
  <2>3. CASE ~(m # Nothing /\ m.kind = "MESSAGE")
    BY <1>2, <2>3 DEF Seen
  <2>4. QED
    BY <2>1, <2>2, <2>3
<1>10. ASSUME NEW n \in NoticeOf(i, p) PROVE NoticeOf(i, p)' # {} \/ Seen(c, p)'
  <2>1. CASE m = Nothing \/ n # m
    <3>1. n \in NoticeOf(i, p)'
      BY <1>4, <1>10, <2>1 DEF NoticeOf
    <3>2. QED
      BY <3>1
  <2>2. CASE m # Nothing /\ n = m
    <3>1. m.type = set_addressee(i) /\ m.kind = "MESSAGE" /\ m.text = p
      BY <1>10, <2>2 DEF NoticeOf
    <3>2. i = j
      BY <1>1, <1>3, <1>4, <2>2, <3>1, Addressees
    <3>3. c = d
      BY <1>1, <1>2, <3>2, InChatApart DEF Gone
    <3>4. Len(s) + 1 \in 1..Len(seen'[d]) /\ seen'[d][Len(s) + 1] = p
      BY <1>6, <2>2, <3>1
    <3>5. QED
      BY <3>3, <3>4 DEF Seen
  <2>3. QED
    BY <2>1, <2>2
<1>11. QED
  BY <1>1, <1>2, <1>7, <1>8, <1>9, <1>10 DEF UnderWay

LEMMA UnderWayStays ==
    ASSUME IInv, server # "done", ~Box!Full, [Next]_vars, NEW c \in Clients,
           client_id[c] \in Ids, client[c] \notin Gone,
           NEW p \in Posts, author[p] \in Clients, client_id[author[p]] # client_id[c], UnderWay(c, p)
    PROVE  UnderWay(c, p)'
<1>a. Order /\ Ownership /\ Texts /\ IdsKept
  BY ClientsStay DEF IInv
<1>1. CASE ServerStep \/ ServerTypesLine \/ ServerQuits
  BY <1>a, <1>1, QuietServer, ReachQuiet, ReachReadPost, ReachForward
<1>2. CASE InterruptServer \/ UNCHANGED vars
  <2>1. /\ UNCHANGED <<mail, seen>>
        /\ server = "forward" => UNCHANGED <<server, handled, todo>>
    BY <1>2 DEF InterruptServer, vars, history
  <2>2. QED
    BY <1>a, <2>1, SameQuiet, ReachQuiet DEF Quiet
<1>3. ASSUME NEW d \in Clients, ClientStep(d) \/ User(d) \/ InterruptClient(d) \/ KillClient(d)
      PROVE  UnderWay(c, p)'
  BY <1>a, <1>3, QuietClient, ReachQuiet, ReachReceive
<1>4. QED
  BY <1>1, <1>2, <1>3 DEF Next

(* A new text is among the posts, and its readers have other ids than its   *)
(* writer.                                                                  *)
NewText(p) ==
    /\ PostOf(p) # {}
    /\ \A d \in audience[p] :
          client_id[d] \in Ids /\ author[p] \in Clients /\ client_id[d] # client_id[author[p]]
SameText(p) == UNCHANGED <<author[p], audience[p]>>

LEMMA TextsAreNew ==
    ASSUME Order, server # "done" => Ownership, ~Box!Full, [Next]_vars, NEW p \in Posts
    PROVE  SameText(p) \/ NewText(p)'
<1>1. CASE ServerStep \/ ServerTypesLine \/ ServerQuits \/ InterruptServer \/ UNCHANGED vars
  BY <1>1 DEF ServerStep, ServerTypesLine, ServerQuits, ServerLoop, StartEndJob, ServerInput,
     ReadRequest, GrantId, DropRequest, ReadPost, ReadOut, Notify, RemoveIPC, ServerNotifies, ServerGo,
     InterruptServer, vars, history, SameText
<1>2. ASSUME NEW c \in Clients, TypePost(c, p), server # "done" PROVE NewText(p)'
  <2>1. PICK m : m = Msg(MESSAGE_POST_REQUEST, "MESSAGE", c, client_id[c], p)
    OBVIOUS
  <2>2. /\ Box!Put(m) /\ client[c] \in {"input", "gets"} /\ client_id' = client_id
        /\ author' = [author EXCEPT ![p] = c]
        /\ audience' = [audience EXCEPT ![p] = {d \in Clients \ {c} : InChat(d)}]
    BY <1>2, <2>1 DEF TypePost, ClientWrite, ClientGo, Typing
  <2>3. client_id \in [Clients -> Ids \cup {NoId}] /\ client_id[c] \in Ids /\ client[c] \notin Gone
    BY <2>2 DEF Order, TypeOK, Registered, Gone
  <2>4. author'[p] = c /\ audience'[p] = {d \in Clients \ {c} : InChat(d)}
    BY <2>2 DEF Order, TypeOK
  <2>5. PostOf(p)' # {}
    <3>1. m.type = MESSAGE_POST_REQUEST /\ m.text = p
      BY <2>1 DEF Msg
    <3>2. m \in PostOf(p)'
      BY <2>2, <3>1, PutQuiet DEF PostOf
    <3>3. QED
      BY <3>2
  <2>6. ASSUME NEW d \in audience'[p] PROVE client_id[d] \in Ids /\ client_id[d] # client_id[c]
    <3>1. d \in Clients /\ d # c /\ client[d] \notin Gone /\ client_id[d] \in Ids
      BY <2>3, <2>4, <2>6 DEF InChat
    <3>2. QED
      BY <1>2, <2>3, <3>1, InChatApart
  <2>7. QED
    BY <2>2, <2>4, <2>5, <2>6 DEF NewText
<1>3. ASSUME NEW c \in Clients, NEW q \in Posts, TypePost(c, q), q # p \/ server = "done"
      PROVE  SameText(p)
  BY <1>3 DEF TypePost, SameText, Order, TypeOK
<1>4. ASSUME NEW c \in Clients, ClientStep(c) \/ User(c) \/ InterruptClient(c) \/ KillClient(c)
      PROVE  SameText(p) \/ NewText(p)'
  <2>1. CASE \E q \in Posts : TypePost(c, q)
    BY <1>2, <1>3, <2>1
  <2>2. CASE ~\E q \in Posts : TypePost(c, q)
    BY <1>4, <2>2 DEF ClientStep, User, LoopExit, RequestId, AwaitId, LoopAgain, Receive,
       ReceiveExit, NoInput, SayOut, FreeSlot, Attach, TypeNothing, TypeQuit, InterruptClient,
       KillClient, history, SameText
  <2>3. QED
    BY <2>1, <2>2
<1>5. QED
  BY <1>1, <1>4 DEF Next

LEMMA ReachStep ==
    ASSUME IInv, TextsReach, ReadersHaveIds, ~Box!Full, [Next]_vars
    PROVE  TextsReach' /\ ReadersHaveIds'
<1>1. /\ \A p \in Posts : SameText(p) \/ NewText(p)'
      /\ IdsKept /\ GoneStays
      /\ \A p \in Posts : audience[p] \subseteq Clients
      /\ \A p \in Posts : author[p] # Nothing => client_id[author[p]] # NoId
  BY TextsAreNew, ClientsStay DEF IInv, Order, TypeOK, Printing, Histories
<1>2. NoId \notin Ids /\ Nothing \notin Clients
  BY ChatAssumption DEF NoId, Ids, Procs
<1>3. ASSUME NEW p \in Posts, NEW c \in audience'[p], SameText(p)
      PROVE  /\ c \in Clients /\ c \in audience[p] /\ client_id[c] \in Ids
             /\ author[p] \in Clients /\ client_id[author[p]] # client_id[c]
             /\ client_id[author[p]] # NoId /\ author'[p] = author[p]
  BY <1>1, <1>2, <1>3 DEF SameText, ReadersHaveIds
<1>4. ReadersHaveIds'
  <2>1. ASSUME NEW p \in Posts, NEW c \in audience'[p]
        PROVE  /\ client_id'[c] \in Ids
               /\ author'[p] \in Clients /\ client_id'[c] # client_id'[author'[p]]
    <3>1. CASE NewText(p)'
      BY <3>1 DEF NewText
    <3>2. CASE SameText(p)
      <4>1. PICK w : /\ w = author[p] /\ w = author'[p] /\ w \in Clients /\ c \in Clients
                     /\ client_id[c] \in Ids /\ client_id[w] # client_id[c] /\ client_id[w] # NoId
        BY <1>3, <3>2
      <4>2. client_id'[c] = client_id[c] /\ client_id'[w] = client_id[w]
        BY <1>1, <1>2, <4>1 DEF IdsKept
      <4>3. QED
        BY <4>1, <4>2
    <3>3. QED
      BY <1>1, <3>1, <3>2
  <2>2. QED
    BY <2>1 DEF ReadersHaveIds
<1>5. ASSUME server' # "done" PROVE TextsReach'
  <2>0. server # "done"
    BY <1>5, DoneStays
  <2>1. ASSUME NEW p \in Posts, NEW c \in audience'[p], client'[c] \notin Gone
        PROVE  UnderWay(c, p)'
    <3>1. CASE NewText(p)'
      BY <3>1 DEF NewText, UnderWay
    <3>2. CASE SameText(p)
      <4>1. client[c] \notin Gone
        BY <1>1, <1>3, <2>1, <3>2 DEF GoneStays
      <4>2. UnderWay(c, p)
        BY <1>3, <2>0, <3>2, <4>1 DEF TextsReach
      <4>3. QED
        BY <1>3, <2>0, <3>2, <4>1, <4>2, UnderWayStays
    <3>3. QED
      BY <1>1, <3>1, <3>2
  <2>2. QED
    BY <2>1 DEF TextsReach
<1>6. QED
  BY <1>4, <1>5 DEF TextsReach

(* Until the buffer is full, a text posted is among the posts, in the       *)
(* server's hand, in the buffer for the reader or on its screen: the safety *)
(* half of Delivered, of all who were in the chat at the time and are still *)
(* in it, also when the server stops or crashes, when ids pass from one     *)
(* client to another, and when a client is killed inside a call; until the  *)
(* semaphore is removed (run_server's forwarding, run_client's inner loop). *)
THEOREM TextsAlwaysReach == Spec /\ [](~Box!Full) => []TextsReach
<1>1. Init => TextsReach /\ ReadersHaveIds
  BY DEF Init, TextsReach, ReadersHaveIds
<1>2. IInv /\ TextsReach /\ ReadersHaveIds /\ ~Box!Full /\ [Next]_vars => TextsReach' /\ ReadersHaveIds'
  BY ReachStep
<1>3. QED
  BY <1>1, <1>2, InductiveInvariant, PTL DEF Spec

-----------------------------------------------------------------------------
(* Everyone is told that the server stops. *)

FinalNotice(i) == Msg(set_addressee(i), "OUT", Server, SERVER_ID, Nothing)
Ending == {"endjob", "remove", "cut", "done"}

(* An id that is TAKED is still to be notified, or its notice is there, or  *)
(* its client has read it.                                                  *)
Notified(i) ==
    \/ server = "endjob" /\ i \in todo
    \/ FinalNotice(i) \in BagToSet(mail)
    \/ \E c \in Holders(i) : client[c] = "ended"
EveryIdTold == server \in Ending \ {"done"} => \A i \in Taked(client_id_pool) : Notified(i)

(* Once the server has notified everyone, the notice waits for each client  *)
(* that still runs and has an id, and for each that has yet to read its     *)
(* reply.                                                                   *)
NobodyForgotten ==
    server \in {"remove", "cut"} =>
        /\ \A c \in Clients : client_id[c] # NoId /\ client[c] \notin Gone =>
              FinalNotice(client_id[c]) \in BagToSet(mail)
        /\ \A i \in Ids : Replied(i) => FinalNotice(i) \in BagToSet(mail)

LEMMA NotifiedStays ==
    ASSUME Order, IdsKept, GoneStays, NEW i \in Ids, \E c \in Holders(i) : client[c] = "ended"
    PROVE  \E c \in Holders(i)' : client'[c] = "ended"
<1>1. PICK c \in Clients : client_id[c] = i /\ client[c] = "ended"
  BY DEF Holders
<1>2. client_id'[c] = i /\ client'[c] = "ended"
  BY <1>1 DEF IdsKept, GoneStays, NoId, Ids, Gone
<1>3. c \in Holders(i)'
  BY <1>2 DEF Holders
<1>4. QED
  BY <1>2, <1>3

LEMMA NotifiedQuiet ==
    ASSUME Order, KeepsTexts, IdsKept, GoneStays, NEW i \in Ids, Notified(i),
           server = "endjob" => UNCHANGED <<server, todo>>
    PROVE  Notified(i)'
<1>1. FinalNotice(i) \in BagToSet(mail) => FinalNotice(i) \in BagToSet(mail')
  BY Addressees DEF KeepsTexts, FinalNotice, Msg
<1>2. QED
  BY <1>1, NotifiedStays DEF Notified, FinalNotice

(* The job is begun for every id that is TAKED, and then the pool stays.    *)
LEMMA EndingStarts ==
    ASSUME Order, [Next]_vars, server' \in Ending, server \notin Ending
    PROVE  \E from : StartEndJob(from)
<1>1. \A from, loop, m, ids : ServerNotifies(from, loop, m, ids) /\ loop \in {"announce", "forward", "farewell"}
         => server' \notin Ending
  BY DEF ServerNotifies, ServerGo, AfterNotifying, Ending
<1>2. \A from, to : ServerGo(from, to) => server' = to /\ server = from
  BY DEF ServerGo
<1>3. CASE ReadRequest \/ GrantId \/ DropRequest \/ ReadPost \/ ReadOut \/ ServerInput \/ ServerTypesLine
           \/ RemoveIPC
  BY <1>1, <1>2, <1>3 DEF ReadRequest, GrantId, DropRequest, ReadPost, ReadOut, ServerInput,
     ServerTypesLine, RemoveIPC, Ending
<1>4. CASE Notify
  BY <1>1, <1>4 DEF Notify, Notifying, Ending
<1>5. CASE ServerLoop \/ ServerQuits
  BY <1>2, <1>5 DEF ServerLoop, ServerQuits, Ending
<1>6. CASE InterruptServer \/ UNCHANGED vars
  BY <1>6 DEF InterruptServer, AfterInterrupt, vars, Ending
<1>7. ASSUME NEW c \in Clients, ClientStep(c) \/ User(c) \/ InterruptClient(c) \/ KillClient(c)
      PROVE  server' = server
  BY <1>7 DEF ClientStep, User, InterruptClient, KillClient, LoopExit, RequestId, AwaitId, LoopAgain,
     Receive, ReceiveExit, NoInput, SayOut, FreeSlot, Attach, TypeNothing, TypeQuit, TypePost,
     ClientWrite, ClientGo
<1>8. QED
  BY <1>3, <1>4, <1>5, <1>6, <1>7 DEF Next, ServerStep

LEMMA NotifiedReceive ==
    ASSUME Order, server # "done", IdsKept, GoneStays, NEW d \in Clients, Receive(d),
           NEW i \in Ids, Notified(i)
    PROVE  Notified(i)'
<1>1. PICK j : j = client_id[d]
  OBVIOUS
<1>2. PICK m \in Box!Returned(set_addressee(j)) :
        /\ Box!Take(m) /\ client[d] = "receive" /\ UNCHANGED <<server, todo>> /\ client_id' = client_id
        /\ m # Nothing /\ m.kind = "OUT" /\ m.writer_name = Server => ClientGo(d, "receive", "ended")
  BY <1>1, WithSemaphore DEF Receive, ClientGo
<1>3. j \in Ids
  BY <1>1, <1>2 DEF Order, TypeOK, Registered
<1>4. /\ m = Nothing => mail' = mail
      /\ m # Nothing => m.type = set_addressee(j) /\ BagToSet(mail) \ {m} \subseteq BagToSet(mail')
  BY <1>2, Taking
<1>5. CASE FinalNotice(i) \in BagToSet(mail) /\ m # Nothing /\ m = FinalNotice(i)
  <2>1. m.type = set_addressee(i) /\ m.kind = "OUT" /\ m.writer_name = Server
    BY <1>5 DEF FinalNotice, Msg
  <2>2. i = j /\ ClientGo(d, "receive", "ended")
    BY <1>2, <1>3, <1>4, <1>5, <2>1, Addressees
  <2>3. client'[d] = "ended" /\ client_id'[d] = i
    BY <1>1, <1>2, <2>2 DEF ClientGo, Order, TypeOK
  <2>4. d \in Holders(i)'
    BY <2>3 DEF Holders
  <2>5. QED
    BY <2>3, <2>4 DEF Notified
<1>6. CASE FinalNotice(i) \in BagToSet(mail) /\ ~(m # Nothing /\ m = FinalNotice(i))
  BY <1>4, <1>6 DEF Notified, FinalNotice
<1>7. QED
  BY <1>2, <1>5, <1>6, NotifiedStays DEF Notified, FinalNotice

LEMMA NotifiedByNotify ==
    ASSUME Order, ~Box!Full, IdsKept, GoneStays, Notify, server = "endjob", NEW i \in Ids, Notified(i)
    PROVE  Notified(i)'
<1>1. PICK l, m : l = Least(todo) /\ m = Notice(l)
  OBVIOUS
<1>2. /\ Box!Put(m) /\ m = FinalNotice(l)
      /\ todo \ {l} # {} => server' = "endjob"
      /\ todo' = todo \ {l}
  BY <1>1 DEF Notify, ServerNotifies, ServerGo, Notice, FinalNotice
<1>3. m \in BagToSet(mail') /\ BagToSet(mail) \subseteq BagToSet(mail')
  BY <1>2, PutQuiet, PutKeeps DEF Order, TypeOK
<1>4. FinalNotice(i)' = FinalNotice(i)
  BY DEF FinalNotice
<1>5. CASE i \in todo /\ i # l
  BY <1>2, <1>5 DEF Notified
<1>6. CASE i = l \/ FinalNotice(i) \in BagToSet(mail)
  BY <1>2, <1>3, <1>4, <1>6 DEF Notified
<1>7. QED
  BY <1>5, <1>6, NotifiedStays DEF Notified

LEMMA NotifiedStep ==
    ASSUME Order, EveryIdTold, ~Box!Full, [Next]_vars PROVE EveryIdTold'
<1> SUFFICES ASSUME server' \in Ending \ {"done"}, NEW i \in Taked(client_id_pool')
             PROVE  Notified(i)'
  BY DEF EveryIdTold
<1>a. IdsKept /\ GoneStays /\ i \in Ids
  BY ClientsStay DEF Taked
<1>b. server # "done"
  BY DoneStays
<1>1. CASE server \notin Ending
  <2>1. PICK from : StartEndJob(from)
    BY <1>1, EndingStarts
  <2>2. i \in Taked(client_id_pool)
    BY <2>1 DEF StartEndJob
  <2>3. server' = "endjob" /\ i \in todo'
    BY <2>1, <2>2 DEF StartEndJob, ServerNotifies, ServerGo
  <2>4. QED
    BY <2>3 DEF Notified
<1>2. CASE server \in Ending
  <2>1. CASE ServerStep \/ ServerTypesLine \/ ServerQuits
    <3>1. Notify /\ server = "endjob"
      <4>1. \A from, to : ServerGo(from, to) => server = from
        BY DEF ServerGo
      <4>2. \A from, loop, m, ids : ServerNotifies(from, loop, m, ids) => server = from
        BY DEF ServerNotifies, ServerGo
      <4>3. \A from : StartEndJob(from) => server = from
        BY <4>2 DEF StartEndJob
      <4>4. ~RemoveIPC
        BY DEF RemoveIPC, ServerGo
      <4>5. QED
        BY <1>2, <2>1, <4>1, <4>2, <4>3, <4>4 DEF ServerStep, ServerLoop, ServerQuits,
           ServerTypesLine, ServerInput, ReadRequest, GrantId, DropRequest, ReadPost, ReadOut,
           Notify, Notifying, Ending
    <3>2. client_id_pool' = client_id_pool
      BY <3>1 DEF Notify
    <3>3. Notified(i)
      BY <1>b, <1>2, <3>2 DEF EveryIdTold
    <3>4. QED
      BY <1>a, <3>1, <3>3, NotifiedByNotify
  <2>2. CASE InterruptServer \/ UNCHANGED vars
    <3>1. /\ UNCHANGED <<mail, client_id_pool>>
          /\ server = "endjob" => UNCHANGED <<server, todo>>
      BY <2>2 DEF InterruptServer, vars
    <3>2. Notified(i)
      BY <1>b, <1>2, <3>1 DEF EveryIdTold
    <3>3. QED
      BY <1>a, <3>1, <3>2, SameQuiet, NotifiedQuiet
  <2>3. ASSUME NEW d \in Clients, ClientStep(d) \/ User(d) \/ InterruptClient(d) \/ KillClient(d)
        PROVE  Notified(i)'
    <3>1. UNCHANGED <<server, todo, client_id_pool>>
      BY <2>3 DEF ClientStep, User, InterruptClient, KillClient, LoopExit, RequestId, AwaitId, LoopAgain,
         Receive, ReceiveExit, NoInput, SayOut, FreeSlot, Attach, TypeNothing, TypeQuit, TypePost,
         ClientWrite, ClientGo
    <3>2. Notified(i)
      BY <1>b, <1>2, <3>1 DEF EveryIdTold
    <3>3. QED
      BY <1>a, <1>b, <2>3, <3>1, <3>2, QuietClient, NotifiedQuiet, NotifiedReceive DEF Quiet
  <2>4. QED
    BY <2>1, <2>2, <2>3 DEF Next
<1>3. QED
  BY <1>1, <1>2

(* Until the buffer is full, nobody is forgotten when the server stops: the *)
(* safety half of Shutdown (run_server's last for loop, the 15 seconds, cut *)
(* short or not).                                                           *)
THEOREM EveryoneTold == Spec /\ [](~Box!Full) => []NobodyForgotten
<1>1. Init => EveryIdTold
  BY DEF Init, EveryIdTold, Ending
<1>2. IInv /\ EveryIdTold /\ ~Box!Full /\ [Next]_vars => EveryIdTold'
  BY NotifiedStep DEF IInv
<1>3. IInv /\ EveryIdTold => NobodyForgotten
  <2> SUFFICES ASSUME IInv, EveryIdTold, server \in {"remove", "cut"} PROVE NobodyForgotten
    BY DEF NobodyForgotten
  <2>1. ASSUME NEW c \in Clients, client_id[c] # NoId, client[c] \notin Gone
        PROVE  FinalNotice(client_id[c]) \in BagToSet(mail)
    <3>1. PICK i \in Ids : i = client_id[c]
      BY <2>1 DEF IInv, Order, TypeOK
    <3>2. c \in Holders(i)
      BY <2>1, <3>1 DEF Holders, Gone
    <3>3. i \in Taked(client_id_pool) /\ \A d \in Holders(i) : d = c
      BY <3>1, <3>2 DEF IInv, Ownership, OwnedOnce, Unowned, Taked
    <3>4. Notified(i) /\ client[c] # "ended" /\ server # "endjob"
      BY <2>1, <3>3 DEF EveryIdTold, Ending, Gone
    <3>5. QED
      BY <3>1, <3>3, <3>4 DEF Notified
  <2>2. ASSUME NEW i \in Ids, Replied(i) PROVE FinalNotice(i) \in BagToSet(mail)
    <3>1. Carriers(i) # {}
      BY <2>2 DEF Replied, Carriers, Carries
    <3>2. i \in Taked(client_id_pool) /\ Holders(i) = {}
      BY <3>1 DEF IInv, Ownership, OwnedOnce, Unowned, Taked
    <3>3. QED
      BY <3>2 DEF EveryIdTold, Ending, Notified
  <2>3. QED
    BY <2>1, <2>2 DEF NobodyForgotten
<1>4. QED
  BY <1>1, <1>2, <1>3, InductiveInvariant, PTL DEF Spec
-----------------------------------------------------------------------------
(* No message is written twice, and so the buffer cannot overflow if it is  *)
(* large enough.                                                            *)

(* What a client sends to the server once in its life (a request, a         *)
(* sign-off), or once per text; its kind, whom or what it is about, and the *)
(* loops in which the server handles it.                                    *)
Errands == {MESSAGE_CLIENT_ID_REQUEST, MESSAGE_POST_REQUEST, MESSAGE_OUT_CHAT}
KindOf(t) ==
    CASE t = MESSAGE_CLIENT_ID_REQUEST -> "IN"
      [] t = MESSAGE_POST_REQUEST -> "MESSAGE"
      [] t = MESSAGE_OUT_CHAT -> "OUT"
SubjectsOf(t) == IF t = MESSAGE_POST_REQUEST THEN Posts ELSE Clients
LoopsOf(t) ==
    CASE t = MESSAGE_CLIENT_ID_REQUEST -> {"grant", "announce"}
      [] t = MESSAGE_POST_REQUEST -> {"forward"}
      [] t = MESSAGE_OUT_CHAT -> {"farewell"}
Begun(t, x) ==
    CASE t = MESSAGE_CLIENT_ID_REQUEST -> wait_client_id_flag[x]
      [] t = MESSAGE_POST_REQUEST -> author[x] # Nothing
      [] t = MESSAGE_OUT_CHAT -> client[x] = "gone"

(* What a message says: nobody writes two that say the same.                *)
Key(m) == <<m.type, <<m.kind, m.text>>>>

OfErrand(m, t) == m.kind = KindOf(t) /\ m.text \in SubjectsOf(t)
Keyed(m) ==
    /\ m.type = MESSAGE_CLIENT_ID_SET => m.kind = "MESSAGE" /\ m.text \in Ids
    /\ m.type \in Errands => OfErrand(m, m.type)
    /\ m.type = MESSAGE_CLIENT_ID_REQUEST => m.writer_name = m.text
    /\ m.type \in {set_addressee(i) : i \in Ids} =>
          (\E t \in Errands : OfErrand(m, t)) \/ (m.kind = "OUT" /\ m.text = Nothing)

(* Errand t on x: still unread; in the server's hand; told to id i, and     *)
(* still to be told.                                                        *)
Waits(t, x) == \E m \in BagToSet(mail) : m.type = t /\ m.text = x
InWork(t, x) == server \in LoopsOf(t) /\ handled.text = x
Noted(i, t, x) ==
    \E m \in BagToSet(mail) : m.type = set_addressee(i) /\ m.kind = KindOf(t) /\ m.text = x
Due(i) == server = "grant" \/ i \in todo

(* First the errand is unread, then in hand, and then notices are left.     *)
Life(t, x) ==
    /\ Waits(t, x) => Begun(t, x) /\ ~InWork(t, x) /\ \A i \in Ids : ~Noted(i, t, x)
    /\ InWork(t, x) => Begun(t, x) /\ \A i \in Ids : Due(i) => ~Noted(i, t, x)
    /\ (\E i \in Ids : Noted(i, t, x)) => Begun(t, x)

Once ==
    /\ \A m \in BagToSet(mail) : Keyed(m)
    /\ handled # Nothing => Keyed(handled)
    /\ \A m, n \in BagToSet(mail) : Key(m) = Key(n) => m = n /\ mail[m] = 1
    /\ \A t \in Errands : \A x \in SubjectsOf(t) : Life(t, x)
    /\ \A i \in Ids : \A m \in BagToSet(mail) :
          m.type = set_addressee(i) /\ m.kind = "OUT" /\ m.text = Nothing =>
              server \in Ending /\ (server = "endjob" => i \notin todo)


LEMMA ErrandFacts ==
    /\ MESSAGE_CLIENT_ID_REQUEST \in Errands /\ MESSAGE_POST_REQUEST \in Errands
    /\ MESSAGE_OUT_CHAT \in Errands /\ MESSAGE_CLIENT_ID_SET \notin Errands
    /\ MESSAGE_CLIENT_ID_REQUEST # MESSAGE_POST_REQUEST
    /\ MESSAGE_CLIENT_ID_REQUEST # MESSAGE_OUT_CHAT /\ MESSAGE_POST_REQUEST # MESSAGE_OUT_CHAT
    /\ KindOf(MESSAGE_CLIENT_ID_REQUEST) = "IN" /\ KindOf(MESSAGE_POST_REQUEST) = "MESSAGE"
    /\ KindOf(MESSAGE_OUT_CHAT) = "OUT"
    /\ SubjectsOf(MESSAGE_CLIENT_ID_REQUEST) = Clients /\ SubjectsOf(MESSAGE_POST_REQUEST) = Posts
    /\ SubjectsOf(MESSAGE_OUT_CHAT) = Clients
    /\ LoopsOf(MESSAGE_CLIENT_ID_REQUEST) = {"grant", "announce"}
    /\ LoopsOf(MESSAGE_POST_REQUEST) = {"forward"} /\ LoopsOf(MESSAGE_OUT_CHAT) = {"farewell"}
<1>1. /\ MESSAGE_CLIENT_ID_REQUEST # MESSAGE_POST_REQUEST
      /\ MESSAGE_CLIENT_ID_REQUEST # MESSAGE_OUT_CHAT /\ MESSAGE_POST_REQUEST # MESSAGE_OUT_CHAT
      /\ MESSAGE_CLIENT_ID_SET \notin Errands
  BY DEF Errands, MESSAGE_CLIENT_ID_REQUEST, MESSAGE_POST_REQUEST, MESSAGE_OUT_CHAT,
     MESSAGE_CLIENT_ID_SET
<1>2. /\ KindOf(MESSAGE_CLIENT_ID_REQUEST) = "IN" /\ KindOf(MESSAGE_POST_REQUEST) = "MESSAGE"
      /\ KindOf(MESSAGE_OUT_CHAT) = "OUT"
  BY <1>1 DEF KindOf
<1>3. /\ SubjectsOf(MESSAGE_CLIENT_ID_REQUEST) = Clients /\ SubjectsOf(MESSAGE_POST_REQUEST) = Posts
      /\ SubjectsOf(MESSAGE_OUT_CHAT) = Clients
  BY <1>1 DEF SubjectsOf
<1>4. LoopsOf(MESSAGE_CLIENT_ID_REQUEST) = {"grant", "announce"}
  BY <1>1 DEF LoopsOf
<1>5. LoopsOf(MESSAGE_POST_REQUEST) = {"forward"}
  BY <1>1 DEF LoopsOf
<1>6. LoopsOf(MESSAGE_OUT_CHAT) = {"farewell"}
  BY <1>1 DEF LoopsOf
<1>7. QED
  BY <1>1, <1>2, <1>3, <1>4, <1>5, <1>6 DEF Errands

LEMMA ErrandsApart ==
    /\ \A t \in Errands : t \in Nat /\ t < 5 /\ t # MESSAGE_CLIENT_ID_SET
    /\ \A t, u \in Errands : KindOf(t) = KindOf(u) => t = u
    /\ \A t, u \in Errands : \A s \in LoopsOf(t) : s \in LoopsOf(u) => t = u
    /\ \A t \in Errands : Nothing \notin SubjectsOf(t) \/ t = MESSAGE_POST_REQUEST
<1>1. \A t \in Errands : t \in Nat /\ t < 5 /\ t # MESSAGE_CLIENT_ID_SET
  BY DEF Errands, MESSAGE_CLIENT_ID_REQUEST, MESSAGE_POST_REQUEST, MESSAGE_OUT_CHAT,
     MESSAGE_CLIENT_ID_SET
<1>2. \A t, u \in Errands : KindOf(t) = KindOf(u) => t = u
  BY ErrandFacts DEF Errands
<1>3. ASSUME NEW t \in Errands, NEW u \in Errands, NEW s \in LoopsOf(t), s \in LoopsOf(u)
      PROVE  t = u
  BY <1>3, ErrandFacts DEF Errands
<1>4. \A t \in Errands : Nothing \notin SubjectsOf(t) \/ t = MESSAGE_POST_REQUEST
  BY ErrandFacts, ChatAssumption DEF Errands, Procs
<1>5. QED
  BY <1>1, <1>2, <1>3, <1>4

(* When an errand has begun.                                                *)
LEMMA BegunFacts ==
    ASSUME NEW x
    PROVE  /\ Begun(MESSAGE_CLIENT_ID_REQUEST, x) <=> wait_client_id_flag[x]
           /\ Begun(MESSAGE_CLIENT_ID_REQUEST, x)' <=> wait_client_id_flag'[x]
           /\ Begun(MESSAGE_POST_REQUEST, x) <=> author[x] # Nothing
           /\ Begun(MESSAGE_POST_REQUEST, x)' <=> author'[x] # Nothing
           /\ Begun(MESSAGE_OUT_CHAT, x) <=> client[x] = "gone"
           /\ Begun(MESSAGE_OUT_CHAT, x)' <=> client'[x] = "gone"
<1>1. /\ MESSAGE_CLIENT_ID_REQUEST # MESSAGE_POST_REQUEST
      /\ MESSAGE_CLIENT_ID_REQUEST # MESSAGE_OUT_CHAT /\ MESSAGE_POST_REQUEST # MESSAGE_OUT_CHAT
  BY ErrandFacts
<1>2. /\ Begun(MESSAGE_CLIENT_ID_REQUEST, x) <=> wait_client_id_flag[x]
      /\ Begun(MESSAGE_CLIENT_ID_REQUEST, x)' <=> wait_client_id_flag'[x]
  BY <1>1, Zenon DEF Begun
<1>3. /\ Begun(MESSAGE_POST_REQUEST, x) <=> author[x] # Nothing
      /\ Begun(MESSAGE_POST_REQUEST, x)' <=> author'[x] # Nothing
  BY <1>1 DEF Begun
<1>4. /\ Begun(MESSAGE_OUT_CHAT, x) <=> client[x] = "gone"
      /\ Begun(MESSAGE_OUT_CHAT, x)' <=> client'[x] = "gone"
  BY <1>1 DEF Begun
<1>5. QED
  BY <1>2, <1>3, <1>4

(* What a step may do to an errand: nothing; begin it; take it in hand; or  *)
(* leave a notice about it.                                                 *)
NoNewNotes(t, x) == \A i \in Ids : Noted(i, t, x)' => Noted(i, t, x)
SameWork(t, x) == InWork(t, x)' => InWork(t, x) /\ \A i \in Ids : Due(i)' => Due(i)
Rests(t, x) == (Waits(t, x)' => Waits(t, x)) /\ SameWork(t, x) /\ NoNewNotes(t, x)
Begins(t, x) == ~Begun(t, x) /\ Begun(t, x)' /\ SameWork(t, x) /\ NoNewNotes(t, x)
IsTaken(t, x) == Waits(t, x) /\ ~Waits(t, x)' /\ NoNewNotes(t, x)
IsTold(t, x) ==
    /\ Waits(t, x)' => Waits(t, x)
    /\ InWork(t, x)
    /\ \E i \in Ids :
          /\ InWork(t, x)' => \A j \in Ids : Due(j)' => Due(j) /\ j # i
          /\ \A j \in Ids \ {i} : Noted(j, t, x)' => Noted(j, t, x)

LEMMA LifeGoesOn ==
    ASSUME NEW t, NEW x, Life(t, x), Begun(t, x) => Begun(t, x)',
           Rests(t, x) \/ Begins(t, x) \/ IsTaken(t, x) \/ IsTold(t, x)
    PROVE  Life(t, x)'
<1>1. CASE Rests(t, x)
  BY <1>1 DEF Rests, SameWork, NoNewNotes, Life
<1>2. CASE Begins(t, x)
  BY <1>2 DEF Begins, SameWork, NoNewNotes, Life
<1>3. CASE IsTaken(t, x)
  BY <1>3 DEF IsTaken, NoNewNotes, Life
<1>4. CASE IsTold(t, x)
  BY <1>4 DEF IsTold, Life
<1>5. QED
  BY <1>1, <1>2, <1>3, <1>4

LEMMA BegunStays ==
    ASSUME Order, [Next]_vars, NEW t \in Errands, NEW x \in SubjectsOf(t), Begun(t, x)
    PROVE  Begun(t, x)'
<1>a. /\ wait_client_id_flag \in [Clients -> BOOLEAN]
      /\ author \in [Posts -> Clients \cup {Nothing}] /\ Nothing \notin Clients
  BY ChatAssumption DEF Order, TypeOK, Procs
<1>1. \A c \in Clients : client[c] = "gone" => client'[c] = "gone"
  BY ClientsStay DEF GoneStays, Gone
<1>2. /\ \A c \in Clients : wait_client_id_flag[c] => wait_client_id_flag'[c]
      /\ \A p \in Posts : author[p] # Nothing => author'[p] # Nothing
  <2>1. CASE ServerStep \/ ServerTypesLine \/ ServerQuits \/ InterruptServer \/ UNCHANGED vars
    <3>1. UNCHANGED <<wait_client_id_flag, author>>
      BY <2>1 DEF ServerStep, ServerTypesLine, ServerQuits, ServerLoop, StartEndJob, ServerInput,
         ReadRequest, GrantId, DropRequest, ReadPost, ReadOut, Notify, RemoveIPC, ServerNotifies,
         ServerGo, InterruptServer, vars, users, history
    <3>2. QED
      BY <3>1
  <2>2. ASSUME NEW c \in Clients, RequestId(c) PROVE <1>2
    BY <1>a, <2>2 DEF RequestId, history
  <2>3. ASSUME NEW c \in Clients, NEW p \in Posts, TypePost(c, p) PROVE <1>2
    BY <1>a, <2>3 DEF TypePost
  <2>4. ASSUME NEW c \in Clients,
               \/ LoopExit(c) \/ AwaitId(c) \/ LoopAgain(c) \/ Receive(c) \/ ReceiveExit(c)
               \/ NoInput(c) \/ SayOut(c) \/ FreeSlot(c) \/ Attach(c) \/ TypeNothing(c) \/ TypeQuit(c)
               \/ InterruptClient(c) \/ KillClient(c)
        PROVE  <1>2
    <3>1. UNCHANGED <<wait_client_id_flag, author>>
      BY <2>4 DEF LoopExit, AwaitId, LoopAgain, Receive, ReceiveExit, NoInput, SayOut, FreeSlot,
         Attach, TypeNothing, TypeQuit, InterruptClient, KillClient, users, history
    <3>2. QED
      BY <3>1
  <2>5. QED
    BY <2>1, <2>2, <2>3, <2>4 DEF Next, ClientStep, User
<1>3. QED
  BY <1>1, <1>2, ErrandFacts, BegunFacts DEF Errands

(* What the mailbox's operations do to errands.                             *)
LEMMA TakeErrands ==
    ASSUME Order, NEW t, NEW m \in Box!Returned(t), Box!Take(m), NEW u, NEW x
    PROVE  (Waits(u, x)' => Waits(u, x)) /\ NoNewNotes(u, x)
BY Taking DEF Less, Waits, NoNewNotes, Noted

LEMMA LessErrands ==
    ASSUME Less, NEW u, NEW x
    PROVE  (Waits(u, x)' => Waits(u, x)) /\ NoNewNotes(u, x)
BY DEF Less, Waits, NoNewNotes, Noted

(* Reading never adds to the mail.                                          *)
LEMMA ReadsLess ==
    ASSUME Order, NEW c \in Clients, AwaitId(c) \/ Receive(c) \/ FreeSlot(c)
    PROVE  Less
<1>1. CASE AwaitId(c) \/ Receive(c)
  <2>1. message_ptr[c] = Nothing /\ \E t : \E m \in Box!Returned(t) : ClientRead(c, m)
    BY <1>1 DEF AwaitId, Receive, ClientGo
  <2>2. QED
    BY <2>1, Reading
<1>2. CASE FreeSlot(c)
  BY <1>2, TakeAny DEF FreeSlot, Order, TypeOK
<1>3. QED
  BY <1>1, <1>2

LEMMA PutErrands ==
    ASSUME Order, NEW m, Box!Put(m), NEW u, NEW x
    PROVE  /\ Waits(u, x)' => Waits(u, x) \/ (m.type = u /\ m.text = x)
           /\ \A i \in Ids : Noted(i, u, x)' =>
                 Noted(i, u, x) \/ (m.type = set_addressee(i) /\ m.kind = KindOf(u) /\ m.text = x)
BY Putting DEF Gains, Waits, Noted

LEMMA SameErrands ==
    ASSUME UNCHANGED mail, NEW u, NEW x
    PROVE  (Waits(u, x)' => Waits(u, x)) /\ NoNewNotes(u, x)
BY DEF Waits, NoNewNotes, Noted

(* The errand that is read was waiting, and nobody else waits with it.      *)
LEMMA ErrandRead ==
    ASSUME Order, Once, NEW t \in Errands, NEW m \in Box!Returned(t), m # Nothing, Box!Take(m)
    PROVE  Keyed(m) /\ m.text \in SubjectsOf(t) /\ Waits(t, m.text) /\ ~Waits(t, m.text)'
<1>1. /\ m \in BagToSet(mail) /\ m.type = t /\ BagToSet(mail') \subseteq BagToSet(mail)
      /\ mail[m] = 1 => m \notin BagToSet(mail')
  BY Taking
<1>2. Keyed(m) /\ mail[m] = 1
  BY <1>1 DEF Once
<1>3. ASSUME NEW n \in BagToSet(mail'), n.type = t, n.text = m.text PROVE FALSE
  <2>1. n \in BagToSet(mail) /\ Keyed(n)
    BY <1>1 DEF Once
  <2>2. n.kind = m.kind
    BY <1>1, <1>2, <1>3, <2>1 DEF Keyed, OfErrand
  <2>3. n = m
    BY <1>1, <1>3, <2>1, <2>2 DEF Once, Key
  <2>4. QED
    BY <1>1, <1>2, <1>3, <2>3
<1>4. QED
  BY <1>1, <1>2, <1>3 DEF Waits, Keyed, OfErrand

(* A notice says what the errand in hand is about, or that the server stops.*)
LEMMA NoticeOfErrand ==
    ASSUME Order, Once, server \in Notifying, NEW i \in Ids
    PROVE  /\ Notice(i).type = set_addressee(i) /\ Keyed(Notice(i))
           /\ server = "endjob" => Notice(i).kind = "OUT" /\ Notice(i).text = Nothing
           /\ server # "endjob" =>
                 \E t \in Errands : /\ server \in LoopsOf(t) /\ handled.text \in SubjectsOf(t)
                                    /\ Notice(i).kind = KindOf(t) /\ Notice(i).text = handled.text
           /\ \A t \in Errands : \A x \in SubjectsOf(t) :
                 InWork(t, x) <=> Notice(i).kind = KindOf(t) /\ Notice(i).text = x
<1> DEFINE n == Notice(i)
<1>1. n.type = set_addressee(i) /\ set_addressee(i) > 4 /\ set_addressee(i) \in Nat
  BY Notices, Addressees
<1>2. CASE server = "endjob"
  <2>1. n.kind = "OUT" /\ n.text = Nothing
    BY <1>2 DEF Notice, Msg
  <2>2. \A t \in Errands : "endjob" \notin LoopsOf(t) /\ (KindOf(t) = "OUT" => Nothing \notin SubjectsOf(t))
    BY ChatAssumption DEF Errands, KindOf, LoopsOf, SubjectsOf, Procs, MESSAGE_CLIENT_ID_REQUEST,
       MESSAGE_POST_REQUEST, MESSAGE_OUT_CHAT
  <2>3. Keyed(n)
    BY <1>1, <2>1, ErrandsApart DEF Keyed, MESSAGE_CLIENT_ID_REQUEST, MESSAGE_CLIENT_ID_SET
  <2>4. QED
    BY <1>1, <1>2, <2>1, <2>2, <2>3 DEF InWork
<1>3. CASE server # "endjob"
  <2>1. PICK t \in Errands :
           /\ server \in LoopsOf(t) /\ handled.type = t /\ handled # Nothing /\ n.kind = KindOf(t)
           /\ t = MESSAGE_CLIENT_ID_REQUEST => n.text = handled.writer_name
           /\ t # MESSAGE_CLIENT_ID_REQUEST => n.text = handled.text
    <3>1. CASE server = "announce"
      <4>1. n.kind = "IN" /\ n.text = handled.writer_name
        BY <3>1 DEF Notice, Msg
      <4>2. QED
        BY <3>1, <4>1, ErrandFacts DEF Order, InHand
    <3>2. CASE server = "forward"
      <4>1. n.kind = "MESSAGE" /\ n.text = handled.text
        BY <3>2 DEF Notice, Msg
      <4>2. QED
        BY <3>2, <4>1, ErrandFacts DEF Order, InHand
    <3>3. CASE server = "farewell"
      <4>1. n.kind = "OUT" /\ n.text = handled.text
        BY <3>3 DEF Notice, Msg
      <4>2. QED
        BY <3>3, <4>1, ErrandFacts DEF Order, InHand
    <3>4. QED
      BY <1>3, <3>1, <3>2, <3>3 DEF Notifying
  <2>2. Keyed(handled)
    BY <2>1 DEF Once
  <2>3. n.text = handled.text /\ handled.text \in SubjectsOf(t)
    BY <2>1, <2>2 DEF Keyed, OfErrand
  <2>4. Keyed(n)
    BY <1>1, <2>1, <2>3, ErrandsApart DEF Keyed, OfErrand, MESSAGE_CLIENT_ID_REQUEST, MESSAGE_CLIENT_ID_SET
  <2>5. ASSUME NEW u \in Errands, NEW x \in SubjectsOf(u)
        PROVE  InWork(u, x) <=> n.kind = KindOf(u) /\ n.text = x
    <3>1. server \in LoopsOf(u) <=> u = t
      BY <2>1, ErrandsApart
    <3>2. n.kind = KindOf(u) <=> u = t
      BY <2>1, ErrandsApart
    <3>3. QED
      BY <2>3, <3>1, <3>2 DEF InWork
  <2>6. QED
    BY <1>1, <1>3, <2>1, <2>3, <2>4, <2>5
<1>4. QED
  BY <1>2, <1>3

(* What the server does to the errands.                                     *)
LEMMA LivesServer ==
    ASSUME Order, Once, ServerStep \/ ServerTypesLine \/ ServerQuits,
           NEW t \in Errands, NEW x \in SubjectsOf(t)
    PROVE  Rests(t, x) \/ IsTaken(t, x) \/ IsTold(t, x)
<1> DEFINE Idle == {"loop", "input", "register", "posts", "outs", "done", "endjob", "remove", "cut",
                   "crashed"}
<1>a. \A s \in Idle : s \notin LoopsOf(t)
  BY DEF LoopsOf, Errands, MESSAGE_CLIENT_ID_REQUEST, MESSAGE_POST_REQUEST, MESSAGE_OUT_CHAT
<1>b. server' \in Idle => SameWork(t, x)
  BY <1>a DEF SameWork, InWork
<1>c. AfterNotifying \in [Notifying -> Idle]
  BY DEF AfterNotifying, Notifying
<1>d. ASSUME NEW r \in Errands, NEW m \in Box!Returned(r), Box!Take(m),
             server' \in Idle \/ (m # Nothing /\ server' \in LoopsOf(r) /\ handled' = m)
      PROVE  Rests(t, x) \/ IsTaken(t, x) \/ IsTold(t, x)
  <2>1. (Waits(t, x)' => Waits(t, x)) /\ NoNewNotes(t, x)
    BY <1>d, TakeErrands
  <2>2. CASE server' \in Idle
    BY <1>b, <2>1, <2>2 DEF Rests
  <2>3. CASE m # Nothing /\ server' \in LoopsOf(r) /\ handled' = m
    <3>1. CASE t = r /\ x = m.text
      BY <1>d, <2>1, <2>3, <3>1, ErrandRead DEF IsTaken
    <3>2. CASE ~(t = r /\ x = m.text)
      <4>1. ~InWork(t, x)'
        BY <2>3, <3>2, ErrandsApart DEF InWork
      <4>2. QED
        BY <2>1, <4>1 DEF Rests, SameWork
    <3>3. QED
      BY <3>1, <3>2
  <2>4. QED
    BY <1>d, <2>2, <2>3
<1>1. CASE ServerLoop \/ ServerInput \/ ServerTypesLine \/ ServerQuits \/ DropRequest \/ RemoveIPC
  <2>1. UNCHANGED mail
    BY <1>1 DEF ServerLoop, ServerInput, ServerTypesLine, ServerQuits, DropRequest, StartEndJob, RemoveIPC
  <2>2. \A from : StartEndJob(from) => server' \in Idle
    BY <1>c DEF StartEndJob, ServerNotifies, ServerGo, Notifying
  <2>3. server' \in Idle
    BY <1>1, <2>2 DEF ServerLoop, ServerInput, ServerTypesLine, ServerQuits, DropRequest, RemoveIPC, ServerGo
  <2>4. QED
    BY <1>b, <2>1, <2>3, SameErrands DEF Rests
<1>2. CASE ReadRequest
  <2>1. PICK m \in Box!Returned(MESSAGE_CLIENT_ID_REQUEST) :
           /\ Box!Take(m) /\ handled' = m
           /\ server' = IF m = Nothing THEN "posts" ELSE "grant"
    BY <1>2 DEF ReadRequest, ServerGo
  <2>2. "grant" \in LoopsOf(MESSAGE_CLIENT_ID_REQUEST) /\ MESSAGE_CLIENT_ID_REQUEST \in Errands
    BY ErrandFacts
  <2>3. QED
    BY <1>d, <2>1, <2>2
<1>3. CASE GrantId
  <2>1. PICK m, ids : /\ m.type = MESSAGE_CLIENT_ID_SET /\ Box!Put(m)
                      /\ ServerNotifies("grant", "announce", handled, ids)
    BY <1>3 DEF GrantId, Msg
  <2>2. (Waits(t, x)' => Waits(t, x)) /\ NoNewNotes(t, x)
    BY <2>1, PutErrands, ErrandsApart, Addressees DEF NoNewNotes, MESSAGE_CLIENT_ID_SET
  <2>3. server = "grant" /\ (server' \in Idle \/ (server' = "announce" /\ handled' = handled))
    BY <1>c, <2>1 DEF ServerNotifies, ServerGo, Notifying
  <2>4. "grant" \in LoopsOf(t) \/ "announce" \notin LoopsOf(t)
    BY ErrandFacts DEF Errands
  <2>5. SameWork(t, x)
    BY <1>b, <2>3, <2>4 DEF SameWork, InWork, Due
  <2>6. QED
    BY <2>2, <2>5 DEF Rests
<1>4. CASE ReadPost
  <2>1. PICK m \in Box!Returned(MESSAGE_POST_REQUEST) :
           /\ Box!Take(m)
           /\ IF m = Nothing THEN ServerGo("posts", "outs")
                             ELSE ServerNotifies("posts", "forward", m, Readers(m))
    BY <1>4 DEF ReadPost
  <2>2. "forward" \in LoopsOf(MESSAGE_POST_REQUEST) /\ MESSAGE_POST_REQUEST \in Errands
    BY ErrandFacts
  <2>3. server' \in Idle \/ (m # Nothing /\ server' = "forward" /\ handled' = m)
    BY <1>c, <2>1 DEF ServerNotifies, ServerGo, Notifying
  <2>4. QED
    BY <1>d, <2>1, <2>2, <2>3
<1>5. CASE ReadOut
  <2>1. PICK m \in Box!Returned(MESSAGE_OUT_CHAT) :
           /\ Box!Take(m)
           /\ \/ ServerGo("outs", "loop")
              \/ m # Nothing /\ ServerNotifies("outs", "farewell", m, Taked(client_id_pool'))
              \/ ServerGo("outs", "crashed")
    BY <1>5 DEF ReadOut
  <2>2. "farewell" \in LoopsOf(MESSAGE_OUT_CHAT) /\ MESSAGE_OUT_CHAT \in Errands
    BY ErrandFacts
  <2>3. server' \in Idle \/ (m # Nothing /\ server' = "farewell" /\ handled' = m)
    BY <1>c, <2>1 DEF ServerNotifies, ServerGo, Notifying
  <2>4. QED
    BY <1>d, <2>1, <2>2, <2>3
<1>6. CASE Notify
  <2>1. PICK l, m : l = Least(todo) /\ m = Notice(l)
    OBVIOUS
  <2>2. /\ server \in Notifying /\ Box!Put(m) /\ todo' = todo \ {l}
        /\ server' \in Idle \/ (server' = server /\ handled' = handled)
    BY <1>6, <1>c, <2>1 DEF Notify, ServerNotifies, ServerGo
  <2>3. l \in Ids /\ l \in todo
    BY <2>1, <2>2, FreeTaked DEF Order, InHand
  <2>4. m.type = set_addressee(l) /\ (InWork(t, x) => m.text = x /\ m.kind = KindOf(t))
    BY <2>1, <2>2, <2>3, NoticeOfErrand
  <2>5. Waits(t, x)' => Waits(t, x)
    BY <2>2, <2>3, <2>4, PutErrands, ErrandsApart, Addressees
  <2>6. InWork(t, x)' => InWork(t, x)
    BY <1>a, <2>2 DEF InWork
  <2>7. ASSUME NEW j \in Ids \ {l}, Noted(j, t, x)' PROVE Noted(j, t, x)
    <3>1. m.type # set_addressee(j)
      BY <2>3, <2>4, Addressees
    <3>2. QED
      BY <2>2, <2>7, <3>1, PutErrands
  <2>8. server # "grant" /\ (InWork(t, x)' => server' # "grant")
    BY <1>a, <2>2 DEF InWork, Notifying
  <2>9. CASE InWork(t, x)
    BY <2>2, <2>3, <2>5, <2>7, <2>8, <2>9 DEF IsTold, Due
  <2>10. CASE ~InWork(t, x)
    <3>1. Noted(l, t, x)' => Noted(l, t, x)
      <4>1. ~(m.kind = KindOf(t) /\ m.text = x)
        BY <2>1, <2>2, <2>3, <2>10, NoticeOfErrand
      <4>2. QED
        BY <2>2, <2>3, <4>1, PutErrands
    <3>2. QED
      BY <2>5, <2>6, <2>7, <2>10, <3>1 DEF Rests, SameWork, NoNewNotes
  <2>11. QED
    BY <2>9, <2>10
<1>7. QED
  BY <1>1, <1>2, <1>3, <1>4, <1>5, <1>6 DEF ServerStep

(* What the clients do to the errands.                                      *)
LEMMA LivesClient ==
    ASSUME Order, NEW c \in Clients, ClientStep(c) \/ User(c) \/ InterruptClient(c) \/ KillClient(c),
           NEW t \in Errands, NEW x \in SubjectsOf(t)
    PROVE  Rests(t, x) \/ Begins(t, x)
<1>a. SameWork(t, x)
  <2>1. UNCHANGED <<server, handled, todo>>
    <3>1. CASE LoopExit(c) \/ RequestId(c) \/ LoopAgain(c) \/ ReceiveExit(c) \/ NoInput(c) \/ SayOut(c)
      BY <3>1 DEF LoopExit, RequestId, LoopAgain, ReceiveExit, NoInput, SayOut, ClientWrite, ClientGo
    <3>2. CASE AwaitId(c) \/ Receive(c) \/ FreeSlot(c)
      BY <3>2 DEF AwaitId, Receive, FreeSlot, ClientGo
    <3>3. CASE User(c)
      BY <3>3 DEF User, Attach, TypeNothing, TypeQuit, TypePost, ClientWrite, ClientGo
    <3>4. CASE InterruptClient(c) \/ KillClient(c)
      BY <3>4 DEF InterruptClient, KillClient
    <3>5. QED
      BY <3>1, <3>2, <3>3, <3>4 DEF ClientStep
  <2>2. QED
    BY <2>1 DEF SameWork, InWork, Due
<1>b. /\ wait_client_id_flag \in [Clients -> BOOLEAN] /\ client \in [Clients -> ClientStates]
      /\ author \in [Posts -> Clients \cup {Nothing}] /\ Nothing \notin Clients
  BY ChatAssumption DEF Order, TypeOK, Procs
<1>1. CASE UNCHANGED mail
  BY <1>a, <1>1, SameErrands DEF Rests
<1>2. CASE AwaitId(c) \/ Receive(c) \/ FreeSlot(c)
  BY <1>a, <1>2, ReadsLess, LessErrands DEF Rests
<1>3. ASSUME NEW m, Box!Put(m), m.type \in Errands,
             t = m.type /\ x = m.text => ~Begun(t, x) /\ Begun(t, x)'
      PROVE  Rests(t, x) \/ Begins(t, x)
  <2>1. NoNewNotes(t, x)
    <3>1. \A i \in Ids : m.type # set_addressee(i)
      BY <1>3, ErrandsApart, Addressees
    <3>2. QED
      BY <1>3, <3>1, PutErrands DEF NoNewNotes
  <2>2. QED
    BY <1>a, <1>3, <2>1, PutErrands DEF Rests, Begins
<1>4. CASE RequestId(c)
  <2>1. PICK m : m = Msg(MESSAGE_CLIENT_ID_REQUEST, "IN", c, NoId, c)
    OBVIOUS
  <2>2. UNCHANGED mail \/ Box!Put(m)
    BY <1>4, <2>1 DEF RequestId, ClientWrite
  <2>3. m.type = MESSAGE_CLIENT_ID_REQUEST /\ m.text = c /\ m.type \in Errands
    BY <2>1 DEF Msg, Errands
  <2>4. ~wait_client_id_flag[c] /\ wait_client_id_flag'[c]
    BY <1>b, <1>4 DEF RequestId
  <2>5. QED
    BY <1>1, <1>3, <2>2, <2>3, <2>4, BegunFacts
<1>5. ASSUME NEW p \in Posts, TypePost(c, p) PROVE Rests(t, x) \/ Begins(t, x)
  <2>1. PICK m : m = Msg(MESSAGE_POST_REQUEST, "MESSAGE", c, client_id[c], p)
    OBVIOUS
  <2>2. UNCHANGED mail \/ (Box!Put(m) /\ server # "done")
    BY <1>5, <2>1 DEF TypePost, ClientWrite
  <2>3. m.type = MESSAGE_POST_REQUEST /\ m.text = p /\ m.type \in Errands
    BY <2>1 DEF Msg, Errands
  <2>4. author[p] = Nothing /\ (server # "done" => author'[p] # Nothing)
    BY <1>b, <1>5 DEF TypePost
  <2>5. QED
    BY <1>1, <1>3, <2>2, <2>3, <2>4, BegunFacts
<1>6. CASE SayOut(c)
  <2>1. PICK m : m = Msg(MESSAGE_OUT_CHAT, "OUT", c, client_id[c], c)
    OBVIOUS
  <2>2. UNCHANGED mail \/ (Box!Put(m) /\ ClientGo(c, "leave", "gone"))
    BY <1>6, <2>1 DEF SayOut, ClientWrite
  <2>3. m.type = MESSAGE_OUT_CHAT /\ m.text = c /\ m.type \in Errands
    BY <2>1 DEF Msg, Errands
  <2>4. ClientGo(c, "leave", "gone") => client[c] # "gone" /\ client'[c] = "gone"
    BY <1>b DEF ClientGo
  <2>5. QED
    BY <1>1, <1>3, <2>2, <2>3, <2>4, BegunFacts
<1>7. CASE LoopExit(c) \/ LoopAgain(c) \/ ReceiveExit(c) \/ NoInput(c) \/ Attach(c) \/ TypeNothing(c)
           \/ TypeQuit(c) \/ InterruptClient(c) \/ KillClient(c)
  <2>1. UNCHANGED mail
    BY <1>7 DEF LoopExit, LoopAgain, ReceiveExit, NoInput, Attach, TypeNothing, TypeQuit,
       InterruptClient, KillClient
  <2>2. QED
    BY <1>1, <2>1
<1>8. QED
  BY <1>2, <1>4, <1>5, <1>6, <1>7 DEF ClientStep, User

LEMMA LivesStep ==
    ASSUME Order, Once, [Next]_vars, NEW t \in Errands, NEW x \in SubjectsOf(t)
    PROVE  Life(t, x)'
<1>1. CASE InterruptServer \/ UNCHANGED vars
  <2>1. UNCHANGED <<mail, handled, todo>> /\ server' \in {server, "gets", "cut"}
    BY <1>1 DEF InterruptServer, AfterInterrupt, vars
  <2>2. "gets" \notin LoopsOf(t) /\ "cut" \notin LoopsOf(t)
    BY ErrandFacts DEF Errands
  <2>3. SameWork(t, x)
    BY <2>1, <2>2 DEF SameWork, InWork, Due
  <2>4. Rests(t, x)
    BY <2>1, <2>3, SameErrands DEF Rests
  <2>5. QED
    BY <2>4, BegunStays, LifeGoesOn DEF Once
<1>2. CASE ServerStep \/ ServerTypesLine \/ ServerQuits
  BY <1>2, LivesServer, BegunStays, LifeGoesOn DEF Once
<1>3. ASSUME NEW c \in Clients, ClientStep(c) \/ User(c) \/ InterruptClient(c) \/ KillClient(c)
      PROVE  Life(t, x)'
  BY <1>3, LivesClient, BegunStays, LifeGoesOn DEF Once
<1>4. QED
  BY <1>1, <1>2, <1>3 DEF Next

(* What a step writes, if it writes at all, is not in the buffer yet.       *)
Fresh(m) == Gains(m) /\ Keyed(m) /\ \A n \in BagToSet(mail) : Key(n) # Key(m)
LastNotice(m) == m.kind = "OUT" /\ m.text = Nothing

LEMMA ErrandFresh ==
    ASSUME Order, Once, NEW m, Box!Put(m), m.type \in Errands, OfErrand(m, m.type),
           m.type = MESSAGE_CLIENT_ID_REQUEST => m.writer_name = m.text, ~Begun(m.type, m.text)
    PROVE  Fresh(m) /\ m.type < 5
<1>1. ~Waits(m.type, m.text)
  BY DEF Once, Life, OfErrand
<1>2. Keyed(m) /\ m.type < 5
  BY ErrandsApart, Addressees DEF Keyed
<1>3. QED
  BY <1>1, <1>2, Putting DEF Fresh, Waits, Key

LEMMA WritesServer ==
    ASSUME Order, server # "done" => Ownership, Once, ServerStep \/ ServerTypesLine \/ ServerQuits
    PROVE  Less \/ \E m : /\ Fresh(m)
                          /\ LastNotice(m) => Notify /\ server = "endjob" /\ m.type = set_addressee(Least(todo))
<1>1. CASE ServerLoop \/ ServerInput \/ ServerTypesLine \/ ServerQuits \/ DropRequest \/ RemoveIPC
  <2>1. UNCHANGED mail
    BY <1>1 DEF ServerLoop, ServerInput, ServerTypesLine, ServerQuits, DropRequest, StartEndJob, RemoveIPC
  <2>2. QED
    BY <2>1, SameLess DEF Order, TypeOK
<1>2. CASE ReadRequest \/ ReadPost \/ ReadOut
  <2>1. \E t : \E m \in Box!Returned(t) : Box!Take(m)
    BY <1>2 DEF ReadRequest, ReadPost, ReadOut
  <2>2. QED
    BY <2>1, Taking
<1>3. CASE GrantId
  <2>1. PICK id, m : /\ id = Least(Ids \ Taked(client_id_pool))
                     /\ m = Msg(MESSAGE_CLIENT_ID_SET, "MESSAGE", Server, SERVER_ID, id)
    OBVIOUS
  <2>2. Box!Put(m) /\ id \in Ids \ Taked(client_id_pool)
    BY <1>3, <2>1, FreeTaked DEF GrantId
  <2>3. m.type = MESSAGE_CLIENT_ID_SET /\ m.kind = "MESSAGE" /\ m.text = id
    BY <2>1 DEF Msg
  <2>4. Carriers(id) = {}
    BY <2>2, ServerActs DEF Ownership, Unowned, Taked
  <2>5. Keyed(m)
    BY <2>2, <2>3, ErrandsApart, Addressees DEF Keyed, MESSAGE_CLIENT_ID_SET, MESSAGE_CLIENT_ID_REQUEST
  <2>6. ASSUME NEW n \in BagToSet(mail), Key(n) = Key(m) PROVE FALSE
    BY <2>3, <2>4, <2>6 DEF Key, Carriers, Carries
  <2>7. QED
    BY <2>2, <2>3, <2>5, <2>6, Putting DEF Fresh, LastNotice
<1>4. CASE Notify
  <2>1. PICK l, m : l = Least(todo) /\ m = Notice(l)
    OBVIOUS
  <2>2. server \in Notifying /\ Box!Put(m) /\ l \in todo /\ l \in Ids
    BY <1>4, <2>1, FreeTaked DEF Notify, Order, InHand
  <2>3. m.type = set_addressee(l) /\ Keyed(m)
    BY <2>1, <2>2, NoticeOfErrand
  <2>4. CASE server = "endjob"
    <3>1. m.kind = "OUT" /\ m.text = Nothing
      BY <2>1, <2>2, <2>4, NoticeOfErrand
    <3>2. \A n \in BagToSet(mail) : Key(n) # Key(m)
      BY <2>2, <2>3, <2>4, <3>1 DEF Once, Key
    <3>3. QED
      BY <1>4, <2>1, <2>2, <2>3, <2>4, <3>2, Putting DEF Fresh
  <2>5. CASE server # "endjob"
    <3>1. PICK t \in Errands : /\ server \in LoopsOf(t) /\ handled.text \in SubjectsOf(t)
                               /\ m.kind = KindOf(t) /\ m.text = handled.text
      BY <2>1, <2>2, <2>5, NoticeOfErrand
    <3>2. ~Noted(l, t, handled.text)
      BY <2>2, <3>1 DEF Once, Life, InWork, Due
    <3>3. \A n \in BagToSet(mail) : Key(n) # Key(m)
      BY <2>3, <3>1, <3>2 DEF Noted, Key
    <3>4. ~LastNotice(m)
      BY <3>1, ChatAssumption DEF LastNotice, Errands, KindOf, SubjectsOf, Procs,
         MESSAGE_CLIENT_ID_REQUEST, MESSAGE_POST_REQUEST, MESSAGE_OUT_CHAT
    <3>5. QED
      BY <2>2, <2>3, <3>3, <3>4, Putting DEF Fresh
  <2>6. QED
    BY <2>4, <2>5
<1>5. QED
  BY <1>1, <1>2, <1>3, <1>4 DEF ServerStep

LEMMA WritesClient ==
    ASSUME Order, Once, NEW c \in Clients,
           ClientStep(c) \/ User(c) \/ InterruptClient(c) \/ KillClient(c)
    PROVE  Less \/ \E m : Fresh(m) /\ m.type < 5
<1>a. Nothing \notin Clients /\ IsABag(mail)
  BY ChatAssumption DEF Procs, Order, TypeOK
<1>1. CASE RequestId(c)
  <2>1. PICK m : m = Msg(MESSAGE_CLIENT_ID_REQUEST, "IN", c, NoId, c)
    OBVIOUS
  <2>2. (UNCHANGED mail \/ Box!Put(m)) /\ ~wait_client_id_flag[c]
    BY <1>1, <2>1 DEF RequestId, ClientWrite
  <2>3. /\ m.type = MESSAGE_CLIENT_ID_REQUEST /\ m.kind = "IN" /\ m.text = c /\ m.writer_name = c
        /\ m.type \in Errands
    BY <2>1 DEF Msg, Errands
  <2>4. OfErrand(m, m.type) /\ ~Begun(m.type, m.text)
    BY <2>2, <2>3, ErrandFacts, BegunFacts DEF OfErrand
  <2>5. QED
    BY <1>a, <2>2, <2>3, <2>4, ErrandFresh, SameLess
<1>2. ASSUME NEW p \in Posts, TypePost(c, p) PROVE Less \/ \E m : Fresh(m) /\ m.type < 5
  <2>1. PICK m : m = Msg(MESSAGE_POST_REQUEST, "MESSAGE", c, client_id[c], p)
    OBVIOUS
  <2>2. (UNCHANGED mail \/ Box!Put(m)) /\ author[p] = Nothing
    BY <1>2, <2>1 DEF TypePost, ClientWrite
  <2>3. m.type = MESSAGE_POST_REQUEST /\ m.kind = "MESSAGE" /\ m.text = p /\ m.type \in Errands
    BY <2>1 DEF Msg, Errands
  <2>4. /\ OfErrand(m, m.type) /\ ~Begun(m.type, m.text) /\ m.type # MESSAGE_CLIENT_ID_REQUEST
    BY <2>2, <2>3, ErrandFacts, BegunFacts DEF OfErrand
  <2>5. QED
    BY <1>a, <2>2, <2>3, <2>4, ErrandFresh, SameLess
<1>3. CASE SayOut(c)
  <2>1. PICK m : m = Msg(MESSAGE_OUT_CHAT, "OUT", c, client_id[c], c)
    OBVIOUS
  <2>2. (UNCHANGED mail \/ Box!Put(m)) /\ client[c] = "leave"
    BY <1>3, <2>1 DEF SayOut, ClientWrite, ClientGo
  <2>3. m.type = MESSAGE_OUT_CHAT /\ m.kind = "OUT" /\ m.text = c /\ m.type \in Errands
    BY <2>1 DEF Msg, Errands
  <2>4. /\ OfErrand(m, m.type) /\ ~Begun(m.type, m.text) /\ m.type # MESSAGE_CLIENT_ID_REQUEST
    BY <2>2, <2>3, ErrandFacts, BegunFacts DEF OfErrand
  <2>5. QED
    BY <1>a, <2>2, <2>3, <2>4, ErrandFresh, SameLess
<1>4. CASE AwaitId(c) \/ Receive(c) \/ FreeSlot(c)
  BY <1>4, ReadsLess
<1>5. CASE LoopExit(c) \/ LoopAgain(c) \/ ReceiveExit(c) \/ NoInput(c) \/ Attach(c) \/ TypeNothing(c)
           \/ TypeQuit(c) \/ InterruptClient(c) \/ KillClient(c)
  <2>1. UNCHANGED mail
    BY <1>5 DEF LoopExit, LoopAgain, ReceiveExit, NoInput, Attach, TypeNothing, TypeQuit,
       InterruptClient, KillClient
  <2>2. QED
    BY <1>a, <2>1, SameLess
<1>6. QED
  BY <1>1, <1>2, <1>3, <1>4, <1>5 DEF ClientStep, User

LEMMA WritesStep ==
    ASSUME Order, server # "done" => Ownership, Once, [Next]_vars
    PROVE  Less \/ \E m : /\ Fresh(m)
                          /\ LastNotice(m) /\ ~(m.type < 5) =>
                                Notify /\ server = "endjob" /\ m.type = set_addressee(Least(todo))
<1>1. CASE InterruptServer \/ UNCHANGED vars
  BY <1>1, SameLess DEF InterruptServer, vars, Order, TypeOK
<1>2. QED
  BY <1>1, WritesServer, WritesClient DEF Next

(* What the server takes in hand it has read.                               *)
LEMMA HandStep ==
    ASSUME Order, [Next]_vars
    PROVE  handled' \in {handled, Nothing} \cup BagToSet(mail)
<1>1. \A from, loop, m, ids : ServerNotifies(from, loop, m, ids) => handled' \in {m, Nothing}
  BY DEF ServerNotifies
<1>2. \A t : \A m \in Box!Returned(t) : m \in {Nothing} \cup BagToSet(mail)
  BY DEF Box!Returned, Box!BagToSet, BagToSet
<1>3. CASE ServerStep \/ ServerTypesLine \/ ServerQuits
  BY <1>1, <1>2, <1>3 DEF ServerStep, ServerLoop, ServerQuits, StartEndJob, ServerTypesLine, ServerInput,
     ReadRequest, GrantId, DropRequest, ReadPost, ReadOut, Notify, RemoveIPC
<1>4. CASE InterruptServer \/ UNCHANGED vars
  BY <1>4 DEF InterruptServer, vars
<1>5. ASSUME NEW c \in Clients, ClientStep(c) \/ User(c) \/ InterruptClient(c) \/ KillClient(c)
      PROVE  handled' = handled
  BY <1>5 DEF ClientStep, User, InterruptClient, KillClient, LoopExit, RequestId, AwaitId, LoopAgain,
     Receive, ReceiveExit, NoInput, SayOut, FreeSlot, Attach, TypeNothing, TypeQuit, TypePost,
     ClientWrite, ClientGo
<1>6. QED
  BY <1>3, <1>4, <1>5 DEF Next

(* The server ends its job once.                                            *)
LEMMA EndingStays ==
    ASSUME Order, [Next]_vars, server \in Ending
    PROVE  /\ server' \in Ending
           /\ server' = "endjob" => server = "endjob" /\ todo' \subseteq todo
           /\ Notify /\ server' = "endjob" => Least(todo) \notin todo'
<1>0. Notify /\ server' = "endjob" => Least(todo) \notin todo'
  BY DEF Notify, ServerNotifies, ServerGo, AfterNotifying, Notifying
<1>1. CASE ServerStep \/ ServerTypesLine \/ ServerQuits
  <2>1. \A from, to : ServerGo(from, to) => server = from
    BY DEF ServerGo
  <2>2. \A from, loop, m, ids : ServerNotifies(from, loop, m, ids) => server = from
    BY DEF ServerNotifies, ServerGo
  <2>3. \A from : StartEndJob(from) => server = from
    BY <2>2 DEF StartEndJob
  <2>4. (Notify /\ server = "endjob") \/ (RemoveIPC /\ server \in {"remove", "cut"})
    BY <1>1, <2>1, <2>2, <2>3 DEF ServerStep, ServerLoop, ServerQuits, ServerTypesLine,
       ServerInput, ReadRequest, GrantId, DropRequest, ReadPost, ReadOut, Notify, RemoveIPC, Notifying, Ending
  <2>5. CASE Notify /\ server = "endjob"
    BY <2>5 DEF Notify, ServerNotifies, ServerGo, AfterNotifying, Ending
  <2>6. CASE RemoveIPC /\ server \in {"remove", "cut"}
    BY <2>6 DEF RemoveIPC, ServerGo, Ending, Notify, Notifying
  <2>7. QED
    BY <2>4, <2>5, <2>6
<1>2. CASE InterruptServer \/ UNCHANGED vars
  <2>1. /\ server' = server \/ (server = "remove" /\ server' = "cut")
        /\ todo' = todo
    BY <1>2 DEF InterruptServer, AfterInterrupt, vars, Ending
  <2>2. QED
    BY <1>0, <2>1 DEF Ending
<1>3. ASSUME NEW c \in Clients, ClientStep(c) \/ User(c) \/ InterruptClient(c) \/ KillClient(c)
      PROVE  UNCHANGED <<server, todo>>
  BY <1>3 DEF ClientStep, User, InterruptClient, KillClient, LoopExit, RequestId, AwaitId, LoopAgain,
     Receive, ReceiveExit, NoInput, SayOut, FreeSlot, Attach, TypeNothing, TypeQuit, TypePost,
     ClientWrite, ClientGo
<1>4. QED
  BY <1>0, <1>1, <1>2, <1>3 DEF Next

LEMMA OnceStep ==
    ASSUME Order, server # "done" => Ownership, Once, [Next]_vars
    PROVE  Once'
<1>a. \A m \in BagToSet(mail) : mail[m] \in Nat /\ mail[m] > 0
  BY DEF Order, TypeOK, IsABag, BagToSet
<1>b. \A m \in BagToSet(mail') : IsABag(mail') => mail'[m] \in Nat /\ mail'[m] > 0
  BY DEF IsABag, BagToSet
<1>1. Less \/ \E m : Fresh(m)
  BY WritesStep
<1>2. ASSUME NEW m \in BagToSet(mail') PROVE Keyed(m)
  BY <1>1 DEF Less, Fresh, Gains, Once
<1>3. handled' # Nothing => Keyed(handled')
  BY HandStep DEF Once
<1>4. ASSUME NEW n \in BagToSet(mail'), NEW k \in BagToSet(mail'), Key(n) = Key(k)
      PROVE  n = k /\ mail'[n] = 1
  <2>1. CASE Less
    BY <1>4, <1>a, <1>b, <2>1 DEF Less, Once
  <2>2. ASSUME NEW m, Fresh(m) PROVE n = k /\ mail'[n] = 1
    <3>1. m \notin BagToSet(mail) /\ mail'[m] = 1 /\ IsABag(mail')
      BY <2>2 DEF Fresh, Gains
    <3>2. ASSUME NEW q \in BagToSet(mail'), q # m PROVE q \in BagToSet(mail) /\ mail'[q] <= mail[q]
      BY <2>2, <3>2 DEF Fresh, Gains
    <3>3. CASE n = m \/ k = m
      BY <1>4, <2>2, <3>1, <3>2, <3>3 DEF Fresh
    <3>4. CASE n # m /\ k # m
      <4>1. n = k /\ mail[n] = 1
        BY <1>4, <3>2, <3>4 DEF Once
      <4>2. QED
        BY <1>b, <3>1, <3>2, <3>4, <4>1
    <3>5. QED
      BY <3>3, <3>4
  <2>3. QED
    BY <1>1, <2>1, <2>2
<1>5. ASSUME NEW i \in Ids, NEW n \in BagToSet(mail'),
             n.type = set_addressee(i), LastNotice(n)
      PROVE  server' \in Ending /\ (server' = "endjob" => i \notin todo')
  <2>1. CASE n \in BagToSet(mail)
    BY <1>5, <2>1, EndingStays DEF Once, LastNotice
  <2>2. CASE n \notin BagToSet(mail)
    <3>1. PICK m : /\ Fresh(m)
                   /\ LastNotice(m) /\ ~(m.type < 5) =>
                         Notify /\ server = "endjob" /\ m.type = set_addressee(Least(todo))
      BY <2>2, WritesStep DEF Less
    <3>2. n = m
      BY <2>2, <3>1 DEF Fresh, Gains
    <3>3. ~(m.type < 5)
      BY <1>5, <3>2, Addressees
    <3>4. Notify /\ server = "endjob" /\ m.type = set_addressee(Least(todo))
      BY <1>5, <3>1, <3>2, <3>3
    <3>5. Least(todo) \in Ids
      BY <3>4, FreeTaked DEF Order, InHand, Notify
    <3>6. i = Least(todo)
      BY <1>5, <3>2, <3>4, <3>5, Addressees
    <3>7. QED
      BY <3>4, <3>6, EndingStays DEF Ending
  <2>3. QED
    BY <2>1, <2>2
<1>6. \A t \in Errands : \A x \in SubjectsOf(t) : Life(t, x)'
  BY LivesStep
<1>7. QED
  BY <1>2, <1>3, <1>4, <1>5, <1>6 DEF Once, LastNotice

LEMMA InitOnce == Init => Once
<1> SUFFICES ASSUME Init PROVE Once
  OBVIOUS
<1>1. BagToSet(mail) = {} /\ handled = Nothing /\ server = "loop"
  BY DEF Init, EmptyBag, SetToBag, BagToSet
<1>2. \A t \in Errands : "loop" \notin LoopsOf(t)
  BY DEF LoopsOf, Errands, MESSAGE_CLIENT_ID_REQUEST, MESSAGE_POST_REQUEST, MESSAGE_OUT_CHAT
<1>3. \A t \in Errands : \A x \in SubjectsOf(t) : Life(t, x)
  BY <1>1, <1>2 DEF Life, Waits, InWork, Noted
<1>4. QED
  BY <1>1, <1>3 DEF Once

LEMMA AlwaysOnce == Spec => []Once
<1>1. IInv /\ Once /\ [Next]_vars => Once'
  BY OnceStep DEF IInv
<1>2. QED
  BY <1>1, InitOnce, InductiveInvariant, PTL DEF Spec

(* No two messages in the buffer have the same type, kind and text: nothing *)
(* is requested, posted, forwarded or announced twice, whoever comes, goes  *)
(* or is killed and whatever a full buffer has lost (run_server's loops,    *)
(* run_client, write_message).                                              *)
THEOREM NothingTwice ==
    Spec => [](\A m, n \in BagToSet(mail) :
                   m.type = n.type /\ m.kind = n.kind /\ m.text = n.text => m = n /\ mail[m] = 1)
<1>1. Once => \A m, n \in BagToSet(mail) :
                  m.type = n.type /\ m.kind = n.kind /\ m.text = n.text => m = n /\ mail[m] = 1
  BY DEF Once, Key
<1>2. QED
  BY <1>1, AlwaysOnce, PTL

(* Everything that can ever be said, counted: a request and a sign-off for  *)
(* each client and a post for each text; a reply for each id; and to each   *)
(* id a notice of each of the former and the last one.                      *)
Errand == Cardinality(Clients) + Cardinality(Clients) + Cardinality(Posts)
Most == Errand + MaxClients + MaxClients * (Errand + 1)

Tag(a, S) == {a} \X S
Said == (Tag("IN", Clients) \cup Tag("OUT", Clients)) \cup Tag("MESSAGE", Posts)
Sayable ==
    ((Tag(MESSAGE_CLIENT_ID_REQUEST, Tag("IN", Clients))
        \cup Tag(MESSAGE_OUT_CHAT, Tag("OUT", Clients)))
     \cup (Tag(MESSAGE_POST_REQUEST, Tag("MESSAGE", Posts))
        \cup Tag(MESSAGE_CLIENT_ID_SET, Tag("MESSAGE", Ids))))
    \cup ((5..(MaxClients + 4)) \X (Said \cup {<<"OUT", Nothing>>}))

LEMMA KeySayable ==
    ASSUME NEW m \in Message, Keyed(m)
    PROVE  Key(m) \in Sayable
<1>1. m.type \in 1..4 \cup {set_addressee(i) : i \in Ids}
  BY DEF Message
<1>2. ASSUME NEW t \in Errands, OfErrand(m, t) PROVE <<m.kind, m.text>> \in Said
  BY <1>2 DEF OfErrand, Errands, KindOf, SubjectsOf, Said, Tag, MESSAGE_CLIENT_ID_REQUEST,
     MESSAGE_POST_REQUEST, MESSAGE_OUT_CHAT
<1>3. CASE m.type \in 1..4
  <2>1. m.type \in Errands \/ m.type = MESSAGE_CLIENT_ID_SET
    BY <1>3 DEF Errands, MESSAGE_CLIENT_ID_REQUEST, MESSAGE_POST_REQUEST, MESSAGE_OUT_CHAT,
       MESSAGE_CLIENT_ID_SET
  <2>2. CASE m.type = MESSAGE_CLIENT_ID_SET
    BY <2>2 DEF Keyed, Key, Sayable, Tag
  <2>3. CASE m.type = MESSAGE_CLIENT_ID_REQUEST
    <3>1. m.kind = "IN" /\ m.text \in Clients
      BY <2>3, ErrandFacts DEF Keyed, OfErrand
    <3>2. QED
      BY <2>3, <3>1 DEF Key, Sayable, Tag
  <2>4. CASE m.type = MESSAGE_POST_REQUEST
    <3>1. m.kind = "MESSAGE" /\ m.text \in Posts
      BY <2>4, ErrandFacts DEF Keyed, OfErrand
    <3>2. QED
      BY <2>4, <3>1 DEF Key, Sayable, Tag
  <2>5. CASE m.type = MESSAGE_OUT_CHAT
    <3>1. m.kind = "OUT" /\ m.text \in Clients
      BY <2>5, ErrandFacts DEF Keyed, OfErrand
    <3>2. QED
      BY <2>5, <3>1 DEF Key, Sayable, Tag
  <2>6. QED
    BY <2>1, <2>2, <2>3, <2>4, <2>5 DEF Errands
<1>4. CASE m.type \in {set_addressee(i) : i \in Ids}
  <2>1. m.type \in 5..(MaxClients + 4)
    BY <1>4, ChatAssumption DEF set_addressee, MESSAGE_MAGIC_NUMBER, Ids
  <2>2. <<m.kind, m.text>> \in Said \cup {<<"OUT", Nothing>>}
    BY <1>2, <1>4 DEF Keyed
  <2>3. QED
    BY <2>1, <2>2 DEF Key, Sayable, Tag
<1>5. QED
  BY <1>1, <1>3, <1>4

LEMMA CountUnion ==
    ASSUME NEW S, NEW T, IsFiniteSet(S), IsFiniteSet(T)
    PROVE  /\ IsFiniteSet(S \cup T) /\ Cardinality(S \cup T) \in Nat
           /\ Cardinality(S \cup T) <= Cardinality(S) + Cardinality(T)
<1>1. IsFiniteSet(S \cap T)
  BY FS_Intersection
<1>2. /\ Cardinality(S) \in Nat /\ Cardinality(T) \in Nat /\ Cardinality(S \cap T) \in Nat
  BY <1>1, FS_CardinalityType
<1>3. /\ IsFiniteSet(S \cup T)
      /\ Cardinality(S \cup T) = Cardinality(S) + Cardinality(T) - Cardinality(S \cap T)
  BY FS_Union
<1>4. Cardinality(S \cup T) \in Nat
  BY <1>3, FS_CardinalityType
<1>5. QED
  BY <1>2, <1>3, <1>4

LEMMA CountTagged ==
    ASSUME NEW a, NEW S, IsFiniteSet(S)
    PROVE  IsFiniteSet(Tag(a, S)) /\ Cardinality(Tag(a, S)) = Cardinality(S)
<1>1. IsFiniteSet({a}) /\ Cardinality({a}) = 1
  BY FS_Singleton
<1>2. Cardinality({a} \X S) = 1 * Cardinality(S) /\ IsFiniteSet({a} \X S)
  BY <1>1, FS_Product
<1>3. QED
  BY <1>2, FS_CardinalityType DEF Tag

LEMMA CountSayable ==
    ASSUME IsFiniteSet(Clients), IsFiniteSet(Posts)
    PROVE  IsFiniteSet(Sayable) /\ Cardinality(Sayable) <= Most
<1> DEFINE A == Tag(MESSAGE_CLIENT_ID_REQUEST, Tag("IN", Clients))
           B == Tag(MESSAGE_OUT_CHAT, Tag("OUT", Clients))
           C == Tag(MESSAGE_POST_REQUEST, Tag("MESSAGE", Posts))
           D == Tag(MESSAGE_CLIENT_ID_SET, Tag("MESSAGE", Ids))
           E == Said \cup {<<"OUT", Nothing>>}
           F == (5..(MaxClients + 4)) \X E
<1>1. Cardinality(Clients) \in Nat /\ Cardinality(Posts) \in Nat /\ MaxClients \in Nat \ {0}
  BY FS_CardinalityType, ChatAssumption
<1>2. IsFiniteSet(Ids) /\ Cardinality(Ids) = MaxClients
  <2>1. MaxClients - 1 \in Int /\ 0 \in Int /\ ~(0 > MaxClients - 1)
    BY <1>1
  <2>2. /\ IsFiniteSet(0..(MaxClients - 1))
        /\ Cardinality(0..(MaxClients - 1)) = (MaxClients - 1) - 0 + 1
    BY <2>1, FS_Interval
  <2>3. QED
    BY <1>1, <2>2 DEF Ids
<1>3. /\ IsFiniteSet(A) /\ Cardinality(A) = Cardinality(Clients)
      /\ IsFiniteSet(B) /\ Cardinality(B) = Cardinality(Clients)
      /\ IsFiniteSet(C) /\ Cardinality(C) = Cardinality(Posts)
      /\ IsFiniteSet(D) /\ Cardinality(D) = MaxClients
  <2>1. IsFiniteSet(A) /\ Cardinality(A) = Cardinality(Clients)
    BY CountTagged
  <2>2. IsFiniteSet(B) /\ Cardinality(B) = Cardinality(Clients)
    BY CountTagged
  <2>3. IsFiniteSet(C) /\ Cardinality(C) = Cardinality(Posts)
    BY CountTagged
  <2>4. IsFiniteSet(D) /\ Cardinality(D) = MaxClients
    BY <1>2, CountTagged
  <2>5. QED
    BY <2>1, <2>2, <2>3, <2>4
<1>4. IsFiniteSet(E) /\ Cardinality(E) \in Nat /\ Cardinality(E) <= Errand + 1
  <2>1. /\ IsFiniteSet(Tag("IN", Clients)) /\ Cardinality(Tag("IN", Clients)) = Cardinality(Clients)
        /\ IsFiniteSet(Tag("OUT", Clients)) /\ Cardinality(Tag("OUT", Clients)) = Cardinality(Clients)
        /\ IsFiniteSet(Tag("MESSAGE", Posts)) /\ Cardinality(Tag("MESSAGE", Posts)) = Cardinality(Posts)
    BY CountTagged
  <2>2. /\ IsFiniteSet(Tag("IN", Clients) \cup Tag("OUT", Clients))
        /\ Cardinality(Tag("IN", Clients) \cup Tag("OUT", Clients)) \in Nat
        /\ Cardinality(Tag("IN", Clients) \cup Tag("OUT", Clients))
              <= Cardinality(Clients) + Cardinality(Clients)
    BY <2>1, CountUnion
  <2>3. IsFiniteSet(Said) /\ Cardinality(Said) \in Nat /\ Cardinality(Said) <= Errand
    <3>1. /\ IsFiniteSet(Said) /\ Cardinality(Said) \in Nat
          /\ Cardinality(Said) <= Cardinality(Tag("IN", Clients) \cup Tag("OUT", Clients))
                                     + Cardinality(Tag("MESSAGE", Posts))
      BY <2>1, <2>2, CountUnion DEF Said
    <3>2. QED
      BY <1>1, <2>1, <2>2, <3>1 DEF Errand
  <2>4. QED
    <3>1. IsFiniteSet({<<"OUT", Nothing>>}) /\ Cardinality({<<"OUT", Nothing>>}) = 1
      BY FS_Singleton
    <3>2. IsFiniteSet(E) /\ Cardinality(E) \in Nat /\ Cardinality(E) <= Cardinality(Said) + 1
      BY <2>3, <3>1, CountUnion
    <3>3. QED
      BY <1>1, <2>3, <3>2 DEF Errand
<1>5. IsFiniteSet(F) /\ Cardinality(F) \in Nat /\ Cardinality(F) <= MaxClients * (Errand + 1)
  <2>1. IsFiniteSet(5..(MaxClients + 4)) /\ Cardinality(5..(MaxClients + 4)) = MaxClients
    <3>1. MaxClients + 4 \in Int /\ 5 \in Int /\ ~(5 > MaxClients + 4)
      BY <1>1
    <3>2. /\ IsFiniteSet(5..(MaxClients + 4))
          /\ Cardinality(5..(MaxClients + 4)) = (MaxClients + 4) - 5 + 1
      BY <3>1, FS_Interval
    <3>3. QED
      BY <1>1, <3>2
  <2>2. IsFiniteSet(F) /\ Cardinality(F) = MaxClients * Cardinality(E)
    <3> HIDE DEF E
    <3>1. QED
      BY <1>4, <2>1, FS_Product
  <2>3. \A k, e, f \in Nat : e <= f => k * e \in Nat /\ k * e <= k * f
    OBVIOUS
  <2>4. Errand + 1 \in Nat
    BY <1>1 DEF Errand
  <2>5. QED
    <3> HIDE DEF E, F
    <3>1. QED
      BY <1>1, <1>4, <2>2, <2>3, <2>4
<1>6. Sayable = (A \cup B) \cup (C \cup D) \cup F
  BY DEF Sayable
<1>7. QED
  <2> HIDE DEF A, B, C, D, E, F
  <2>1. /\ IsFiniteSet(A \cup B) /\ Cardinality(A \cup B) \in Nat
        /\ Cardinality(A \cup B) <= Cardinality(Clients) + Cardinality(Clients)
    BY <1>3, CountUnion
  <2>2. /\ IsFiniteSet(C \cup D) /\ Cardinality(C \cup D) \in Nat
        /\ Cardinality(C \cup D) <= Cardinality(Posts) + MaxClients
    BY <1>3, CountUnion
  <2>3. /\ IsFiniteSet((A \cup B) \cup (C \cup D)) /\ Cardinality((A \cup B) \cup (C \cup D)) \in Nat
        /\ Cardinality((A \cup B) \cup (C \cup D)) <= Errand + MaxClients
    <3>1. /\ IsFiniteSet((A \cup B) \cup (C \cup D)) /\ Cardinality((A \cup B) \cup (C \cup D)) \in Nat
          /\ Cardinality((A \cup B) \cup (C \cup D)) <= Cardinality(A \cup B) + Cardinality(C \cup D)
      BY <2>1, <2>2, CountUnion
    <3>2. QED
      BY <1>1, <2>1, <2>2, <3>1 DEF Errand
  <2>4. /\ IsFiniteSet(Sayable) /\ Cardinality(Sayable) \in Nat
        /\ Cardinality(Sayable) <= Cardinality((A \cup B) \cup (C \cup D)) + Cardinality(F)
    BY <1>5, <1>6, <2>3, CountUnion
  <2>5. Errand \in Nat /\ MaxClients * (Errand + 1) \in Nat
    BY <1>1 DEF Errand
  <2>6. QED
    BY <1>1, <1>5, <2>3, <2>4, <2>5 DEF Most

(* Each message in the buffer is one of those.                              *)
LEMMA CountCopies ==
    ASSUME Order, Once, IsFiniteSet(Clients), IsFiniteSet(Posts)
    PROVE  Cardinality(Box!Copies) \in Nat /\ Most \in Nat /\ Cardinality(Box!Copies) <= Most
<1> DEFINE f == [u \in Box!Copies |-> Key(u[1])]
<1>1. ASSUME NEW u \in Box!Copies
      PROVE  u[1] \in BagToSet(mail) /\ u = <<u[1], 1>>
  <2>1. PICK m \in BagToSet(mail) : u \in {m} \X (1..mail[m])
    BY DEF Box!Copies, Box!BagToSet, BagToSet
  <2>2. mail[m] = 1
    BY DEF Once
  <2>3. QED
    BY <2>1, <2>2
<1>2. \A u \in Box!Copies : f[u] \in Sayable
  BY <1>1, KeySayable DEF Order, TypeOK, Once
<1>3. \A u, v \in Box!Copies : f[u] = f[v] => u = v
  BY <1>1 DEF Once
<1>4. f \in Injection(Box!Copies, Sayable)
  BY <1>2, <1>3 DEF Injection, IsInjective
<1>5. QED
  <2> HIDE DEF f
  <2>1. IsFiniteSet(Sayable) /\ Cardinality(Sayable) <= Most
    BY CountSayable
  <2>2. IsFiniteSet(Box!Copies) /\ Cardinality(Box!Copies) <= Cardinality(Sayable)
    BY <1>4, <2>1, FS_Injection
  <2>3. Cardinality(Box!Copies) \in Nat /\ Cardinality(Sayable) \in Nat
    BY <2>1, <2>2, FS_CardinalityType
  <2>4. Most \in Nat
    <3>1. Cardinality(Clients) \in Nat /\ Cardinality(Posts) \in Nat /\ MaxClients \in Nat
      BY FS_CardinalityType, ChatAssumption
    <3>2. Errand \in Nat
      BY <3>1 DEF Errand
    <3>3. MaxClients * (Errand + 1) \in Nat
      BY <3>1, <3>2
    <3>4. QED
      BY <3>1, <3>2, <3>3 DEF Most
  <2>5. QED
    BY <2>1, <2>2, <2>3, <2>4

(* A buffer with a slot for everything that can be said and one more never  *)
(* gets full, whoever is killed and however slow the readers are: the       *)
(* "situation in which the buffer has no room" that write_message leaves    *)
(* aside as unlikely (task2.c:156) does not come up.                        *)
THEOREM NeverFull ==
    ASSUME IsFiniteSet(Clients), IsFiniteSet(Posts), Most < MaxMessages
    PROVE  Spec => [](~Box!Full)
<1>1. IInv /\ Once => ~Box!Full
  <2> SUFFICES ASSUME IInv, Once PROVE ~Box!Full
    OBVIOUS
  <2>1. Cardinality(Box!Copies) \in Nat /\ Most \in Nat /\ Cardinality(Box!Copies) <= Most
    BY CountCopies DEF IInv
  <2>2. Box!Cardinality(Box!Copies) = Cardinality(Box!Copies)
    BY DEF Box!Cardinality, Cardinality
  <2>3. QED
    BY <2>1, <2>2, ChatAssumption DEF Box!Full
<1>2. QED
  BY <1>1, AlwaysOnce, InductiveInvariant, PTL

(* In such a buffer no id is ever lost, every text reaches its readers, and *)
(* everyone is told that the server stops.                                  *)
THEOREM NothingLost ==
    ASSUME IsFiniteSet(Clients), IsFiniteSet(Posts), Most < MaxMessages
    PROVE  Spec => [](OneOwnerPerId /\ TextsReach /\ NobodyForgotten)
BY NeverFull, OwnerOfEachId, TextsAlwaysReach, EveryoneTold, PTL
=============================================================================
