----------------------- MODULE SphServerClientProofs -----------------------
(***************************************************************************)
(* What SphServerClient guarantees for any set of clients, any number of   *)
(* messages and any number of killed processes.  IInv is inductive: the    *)
(* semaphores and the program counters say where the one message under way *)
(* is, and every action moves both together.                               *)
(***************************************************************************)
EXTENDS SphServerClient, TLAPS

LEMMA MessageFact ==
    ASSUME NEW c \in Clients, NEW n \in 1..ClientMsgs
    PROVE  <<c, n>> \in Message
  BY DEF Message

LEMMA InitIInv == Init => IInv
  BY SphAssumption
     DEF Init, IInv, TypeOK, UseAfterSetup, MutualExclusion, LoopBounds, SetupInv,
         Opened, ServerStates, ClientStates, Setup, Attaching, Active, ClientUses,
         ServerUses, Ended

-----------------------------------------------------------------------------
(* Each action of the server, then each of a client, preserves IInv. *)

LEMMA ServerIInv ==
    ASSUME IInv, Server \/ KillServer
    PROVE  IInv'
<1> USE SphAssumption
    DEF IInv, TypeOK, UseAfterSetup, MutualExclusion, LoopBounds, SetupInv, Opened,
        SemDiscipline, MessageFlow, OneUnprinted, ServerGo, history, ServerStates,
        ClientStates, Setup, Attaching, Active, ClientUses, ServerUses, Teardown, Ended
<1>1. CASE CreateKeys
  BY <1>1 DEF CreateKeys
<1>2. CASE CreateSemaphores
  BY <1>2 DEF CreateSemaphores
<1>3. CASE InitSemaphore0
  BY <1>3 DEF InitSemaphore0
<1>4. CASE InitSemaphore1
  BY <1>4 DEF InitSemaphore1
<1>5. CASE CreateSegment
  BY <1>5 DEF CreateSegment
<1>6. CASE ServerAcquire
  <2> USE <1>6 DEF ServerAcquire
  <2>1. TypeOK' /\ UseAfterSetup' /\ LoopBounds' /\ SetupInv'
    OBVIOUS
  <2>2. Opened /\ sem[0] = 0 /\ sem[1] = 1
    OBVIOUS
  <2>3. MutualExclusion' /\ SemDiscipline'
    BY <2>2
  <2>4. MessageFlow'
    BY <2>2
  <2>5. QED
    BY <2>1, <2>3, <2>4
<1>7. CASE PrintMessage
  <2> USE <1>7 DEF PrintMessage
  <2>1. Opened /\ OneUnprinted
    OBVIOUS
  <2>2. TypeOK' /\ UseAfterSetup' /\ LoopBounds' /\ SetupInv' /\ MutualExclusion'
    OBVIOUS
  <2>3. Len(sent') = Len(printed')
    BY <2>1
  <2>4. SemDiscipline' /\ MessageFlow'
    BY <2>1, <2>3
  <2>5. QED
    BY <2>2, <2>4
<1>8. CASE ServerRelease
  <2> USE <1>8 DEF ServerRelease
  <2>1. Opened /\ sem[0] = 1 /\ sem[1] = 0 /\ Len(sent) = Len(printed)
    OBVIOUS
  <2>2. TypeOK' /\ UseAfterSetup' /\ LoopBounds' /\ SetupInv'
    BY <2>1
  <2>3. MutualExclusion' /\ SemDiscipline' /\ MessageFlow'
    BY <2>1
  <2>4. QED
    BY <2>2, <2>3
<1>9. CASE RemoveSemaphores
  BY <1>9 DEF RemoveSemaphores
<1>10. CASE RemoveSegment
  BY <1>10 DEF RemoveSegment
<1>11. CASE RemoveKeys
  BY <1>11 DEF RemoveKeys
<1>12. CASE KillServer
  BY <1>12 DEF KillServer
<1>13. QED
  BY <1>1, <1>2, <1>3, <1>4, <1>5, <1>6, <1>7, <1>8, <1>9, <1>10, <1>11, <1>12
     DEF Server

LEMMA ClientIInv ==
    ASSUME IInv, NEW p \in Clients, Client(p) \/ KillClient(p)
    PROVE  IInv'
<1> USE SphAssumption
    DEF IInv, TypeOK, UseAfterSetup, MutualExclusion, LoopBounds, SetupInv, Opened,
        SemDiscipline, MessageFlow, OneUnprinted, ClientGo, Lookup, history, ServerStates,
        ClientStates, Setup, Attaching, Active, ClientUses, ServerUses, Teardown, Ended
<1>1. CASE FindKeys(p)
  BY <1>1 DEF FindKeys
<1>2. CASE FindSemaphores(p)
  BY <1>2 DEF FindSemaphores
<1>3. CASE FindSegment(p)
  BY <1>3 DEF FindSegment
<1>4. CASE ClientAcquire(p)
  <2> USE <1>4 DEF ClientAcquire
  <2>1. Opened /\ server \notin Setup
    OBVIOUS
  <2>2. server \notin ServerUses /\ Len(sent) = Len(printed)
    BY <2>1
  <2>3. \A c \in Clients : client[c] \notin ClientUses
    BY <2>1, <2>2
  <2>4. TypeOK' /\ UseAfterSetup' /\ LoopBounds' /\ SetupInv'
    BY <2>1, <2>2
  <2>5. MutualExclusion'
    BY <2>1, <2>2, <2>3
  <2>6. SemDiscipline' /\ MessageFlow'
    BY <2>1, <2>2, <2>3
  <2>7. QED
    BY <2>4, <2>5, <2>6
<1>5. CASE WriteMessage(p)
  <2> USE <1>5 DEF WriteMessage
  <2>1. /\ Opened /\ server \notin ServerUses /\ sem[1] = 0
        /\ \A c \in Clients \ {p} : client[c] \notin ClientUses
    OBVIOUS
  <2>2. TypeOK' /\ UseAfterSetup' /\ LoopBounds' /\ SetupInv' /\ MutualExclusion'
    BY <2>1, MessageFact
  <2>3. SemDiscipline' /\ MessageFlow'
    BY <2>1
  <2>4. QED
    BY <2>2, <2>3
<1>6. CASE PublishMessage(p)
  <2> USE <1>6 DEF PublishMessage
  <2>1. /\ Opened /\ server \notin ServerUses /\ sem[0] = 1 /\ sem[1] = 0
        /\ \A c \in Clients \ {p} : client[c] \notin ClientUses
    OBVIOUS
  <2>2. Len(sent) = Len(printed) /\ shm = <<p, count[p] + 1>> /\ shm \in Message
    BY <2>1, MessageFact
  <2>3. TypeOK'
    BY <2>1, <2>2
  <2>4. LoopBounds' /\ SetupInv'
    BY <2>1
  <2>5. UseAfterSetup' /\ MutualExclusion'
    BY <2>1
  <2>6. SemDiscipline'
    BY <2>1
  <2>7. OneUnprinted'
    BY <2>2
  <2>8. MessageFlow'
    BY <2>1, <2>7
  <2>9. QED
    BY <2>3, <2>4, <2>5, <2>6, <2>8
<1>7. CASE SemaphoresGone(p)
  BY <1>7 DEF SemaphoresGone
<1>8. CASE KillClient(p)
  BY <1>8 DEF KillClient
<1>9. QED
  BY <1>1, <1>2, <1>3, <1>4, <1>5, <1>6, <1>7, <1>8 DEF Client

LEMMA StutterIInv == IInv /\ UNCHANGED vars => IInv'
  BY DEF vars, IInv, TypeOK, UseAfterSetup, MutualExclusion, LoopBounds, SetupInv,
         Opened, SemDiscipline, MessageFlow, OneUnprinted

THEOREM InductiveInvariant == Spec => []IInv
<1>1. IInv /\ [Next]_vars => IInv'
  BY ServerIInv, ClientIInv, StutterIInv DEF Next
<1>2. QED
  BY InitIInv, <1>1, PTL DEF Spec

-----------------------------------------------------------------------------
(* The invariants of the runs. *)

(* Every variable stays in its type: both semaphores never leave Nat, and   *)
(* no loop runs past its NUMMSG.                                            *)
THEOREM TypeCorrect == Spec => []TypeOK
<1>1. IInv => TypeOK
  BY DEF IInv
<1>2. QED
  BY <1>1, InductiveInvariant, PTL

(* The segment is never used by two processes at a time, although the       *)
(* server does not wait for sem[0] (sph_server.c:91-99).                    *)
THEOREM Exclusion == Spec => []MutualExclusion
<1>1. IInv => MutualExclusion
  BY DEF IInv
<1>2. QED
  BY <1>1, InductiveInvariant, PTL

(* No client operates on a semaphore before both have their initial value.  *)
THEOREM SetupFirst == Spec => []UseAfterSetup
<1>1. IInv => UseAfterSetup
  BY DEF IInv
<1>2. QED
  BY <1>1, InductiveInvariant, PTL

-----------------------------------------------------------------------------
(* Refinement: every step of the processes is a step of the channel or leaves  *)
(* both histories alone.                                                    *)

LEMMA StepRefines ==
    ASSUME IInv, [Next]_vars
    PROVE  [Channel!Next]_(Channel!vars)
<1> USE DEF Channel!vars, history
<1>1. CASE UNCHANGED vars
  BY <1>1 DEF vars
<1>2. CASE PrintMessage
  <2>1. OneUnprinted
    BY <1>2 DEF PrintMessage, ServerGo, IInv, Opened, MessageFlow, Setup
  <2>2. Channel!Deliver
    BY <1>2, <2>1 DEF PrintMessage, Channel!Deliver, OneUnprinted, IInv, TypeOK
  <2>3. QED
    BY <2>2 DEF Channel!Next
<1>3. CASE \E c \in Clients : PublishMessage(c)
  <2>1. PICK c \in Clients : PublishMessage(c)
    BY <1>3
  <2>2. Len(sent) = Len(printed) /\ <<c, count[c] + 1>> \in Message
    <3>1. client[c] = "publish" /\ Opened
      BY <2>1 DEF PublishMessage, ClientGo, Opened, Active, ClientUses
    <3>2. count[c] + 1 \in 1..ClientMsgs
      BY <3>1, SphAssumption DEF IInv, TypeOK, LoopBounds, ClientUses
    <3>3. QED
      BY <3>1, <3>2, MessageFact DEF IInv, MessageFlow, ClientUses
  <2>3. Channel!Send(<<c, count[c] + 1>>)
    BY <2>1, <2>2 DEF PublishMessage, Channel!Send
  <2>4. QED
    BY <2>2, <2>3 DEF Channel!Next
<1>4. CASE Server /\ ~PrintMessage
  BY <1>4 DEF Server, CreateKeys, CreateSemaphores, InitSemaphore0, InitSemaphore1,
              CreateSegment, ServerAcquire, ServerRelease, RemoveSemaphores,
              RemoveSegment, RemoveKeys
<1>5. CASE KillServer
  BY <1>5 DEF KillServer
<1>6. ASSUME NEW c \in Clients, Client(c) \/ KillClient(c), ~PublishMessage(c)
      PROVE  UNCHANGED Channel!vars
  BY <1>6 DEF Client, KillClient, FindKeys, FindSemaphores, FindSegment, Lookup,
              ClientAcquire, WriteMessage, SemaphoresGone
<1>7. QED
  BY <1>1, <1>2, <1>3, <1>4, <1>5, <1>6 DEF Next

(* Every message the server prints is one that a client published, each of  *)
(* them once and in order, and none is overwritten before it is printed.    *)
THEOREM Refinement == Spec => ImplementsChannel
<1>1. Init => Channel!Init
  BY DEF Init, Channel!Init
<1>2. QED
  BY <1>1, StepRefines, InductiveInvariant, PTL
     DEF Spec, ImplementsChannel, Channel!Spec
=============================================================================
