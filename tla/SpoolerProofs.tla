---------------------------- MODULE SpoolerProofs ----------------------------
(***************************************************************************)
(* What Spooler guarantees for any finite set of clients, any number of    *)
(* buffers and lines, and any number of killed processes.  The invariant   *)
(* has four layers, each resting on those before it: the order of the      *)
(* initialization and the mutex; how many buffers are in use; which slot   *)
(* of the ring is which; and the accounts of semaphores and holders.       *)
(***************************************************************************)
EXTENDS Spooler, FiniteSetTheorems, TLAPS

Unfinished == SpoolerSetup \ {"setsignal", "unlock"}
Printing == {"wait", "print", "advance", "release"}
Holding == {"lock", "signal"} \cup Critical
Before == {"lock", "write"}
After == {"advance", "unlock", "signal"}

(* The clients in one of the states S. *)
Among(f, S) == {c \in Clients : f[c] \in S}
Count(f, S) == Cardinality(Among(f, S))
InPrint == IF spooler = "print" THEN 1 ELSE 0
InRelease == IF spooler \in {"advance", "release"} THEN 1 ELSE 0

(* The spooler initializes in order; clients get in after the last object   *)
(* exists, and find the mutex locked until everything has its value.        *)
SetupOrder ==
    /\ "signal" \notin ipc =>
          /\ \A c \in Clients : client[c] \in {"attach", "failed", "killed"}
          /\ sent = <<>> /\ printed = <<>>
    /\ spooler \in Unfinished => "signal" \notin ipc
    /\ spooler \in {"setsignal", "unlock"} \cup Printing => "signal" \in ipc
    /\ spooler \in SpoolerSetup \ {"getmutex", "lock"} => sem["mutex"] = 0
    /\ spooler \in SpoolerSetup =>
          /\ \A c \in Clients : client[c] \notin Critical \cup {"signal"}
          /\ sent = <<>> /\ printed = <<>>
    /\ spooler \in {"getcount", "setcount", "getsignal", "setsignal", "unlock"} =>
          buffer_index = 0 /\ buffer_print_index = 0
    /\ spooler = "getsignal" => sem["count"] = MaxBuffers
    /\ spooler = "unlock" => sem["signal"] = 0

LinesRead == \A c \in Clients : client[c] \in Holding \cup {"getbuffer"} => typed[c] > 0

MutexFree ==
    "signal" \in ipc =>
        /\ sem["mutex"] \in 0..1
        /\ sem["mutex"] = 1 => \A c \in Clients : client[c] \notin Critical

Order == TypeOK /\ SetupOrder /\ LinesRead /\ MutexFree /\ OneProducer

(* Strings written and not yet printed. *)
Unprinted == Len(sent) - Len(printed)

(* Free buffers, those about to be written, those with a string, and the    *)
(* one that is being given back fit into the ring; every signal has a       *)
(* string.                                                                  *)
Used == sem["count"] + InRelease + Count(client, Before) + Unprinted
Told == sem["signal"] + InPrint + Count(client, After)

Space ==
    /\ Len(printed) <= Len(sent)
    /\ "signal" \in ipc => Used <= MaxBuffers
    /\ spooler \in {"unlock"} \cup Printing => Told <= Unprinted

(* The slot k places after p. *)
Ahead(p, k) == IF p + k < MaxBuffers THEN p + k ELSE p + k - MaxBuffers

(* The slot of the oldest string not yet printed. *)
PrintSlot == IF spooler = "advance" THEN Wrap(buffer_print_index) ELSE buffer_print_index

(* While the spooler lives: the strings not yet printed lie in the ring in  *)
(* order, and whoever may write next writes the slot after them.            *)
Ring ==
    spooler # "killed" =>
        /\ \A k \in 0..(Unprinted - 1) :
              buf[Ahead(PrintSlot, k)] = sent[Len(printed) + 1 + k]
        /\ "signal" \in ipc /\ (sem["mutex"] = 1 \/ \E c \in Clients : client[c] \in {"write", "unlock"})
              => buffer_index = Ahead(PrintSlot, Unprinted)
        /\ \A c \in Clients : client[c] = "advance" =>
              Wrap(buffer_index) = Ahead(PrintSlot, Unprinted)

(* Every buffer is free, announced, held, or was held by a process killed.  *)
Announced == IF spooler = "setsignal" THEN 0 ELSE sem["signal"]
InSpooler == IF spooler \in {"print", "advance", "release"} THEN 1 ELSE 0
Accounted == sem["count"] + Announced + Count(client, Holding) + InSpooler

Accounts ==
    spooler \in {"setsignal", "unlock"} \cup Printing =>
        Accounted <= MaxBuffers /\ Accounted >= MaxBuffers - kills

IInv == Order /\ Space /\ Ring /\ Accounts

-----------------------------------------------------------------------------
(* Counting clients. *)

LEMMA CountType ==
    ASSUME NEW f, NEW S
    PROVE  IsFiniteSet(Among(f, S)) /\ Count(f, S) \in Nat
<1>1. Among(f, S) \in SUBSET Clients
  BY DEF Among
<1>2. QED
  BY <1>1, FS_Subset, FS_CardinalityType, SpoolerAssumption DEF Count

(* One client goes from a state to another: into S, out of S, or neither. *)
Moves(f, g, c) == \A d \in Clients \ {c} : g[d] = f[d]

LEMMA CountEnter ==
    ASSUME NEW f, NEW g, NEW c \in Clients, Moves(f, g, c), NEW S, f[c] \notin S, g[c] \in S
    PROVE  Count(g, S) = Count(f, S) + 1
<1>1. Among(g, S) = Among(f, S) \cup {c} /\ c \notin Among(f, S)
  BY DEF Among, Moves
<1>2. Cardinality(Among(f, S) \cup {c}) = Cardinality(Among(f, S)) + 1
  BY <1>1, CountType, FS_AddElement
<1>3. QED
  BY <1>1, <1>2 DEF Count

LEMMA CountLeave ==
    ASSUME NEW f, NEW g, NEW c \in Clients, Moves(f, g, c), NEW S, f[c] \in S, g[c] \notin S
    PROVE  Count(g, S) = Count(f, S) - 1
<1>1. Among(g, S) = Among(f, S) \ {c} /\ c \in Among(f, S)
  BY DEF Among, Moves
<1>2. Cardinality(Among(f, S) \ {c}) = Cardinality(Among(f, S)) - 1
  BY <1>1, CountType, FS_RemoveElement
<1>3. QED
  BY <1>1, <1>2 DEF Count

LEMMA CountStay ==
    ASSUME NEW f, NEW g, NEW c \in Clients, Moves(f, g, c), NEW S, f[c] \in S <=> g[c] \in S
    PROVE  Count(g, S) = Count(f, S)
<1>1. Among(g, S) = Among(f, S)
  BY DEF Among, Moves
<1>2. QED
  BY <1>1 DEF Count

LEMMA CountNone ==
    ASSUME NEW f, NEW S, \A c \in Clients : f[c] \notin S
    PROVE  Count(f, S) = 0
<1>1. Among(f, S) = {}
  BY DEF Among
<1>2. QED
  BY <1>1, FS_EmptySet DEF Count

LEMMA CountSome ==
    ASSUME NEW f, NEW S, NEW c \in Clients, f[c] \in S
    PROVE  Count(f, S) > 0
<1>1. IsFiniteSet(Among(f, S)) /\ Among(f, S) # {}
  BY CountType DEF Among
<1>2. QED
  BY <1>1, CountType, FS_EmptySet DEF Count

-----------------------------------------------------------------------------
(* First layer: types, the order of the initialization, the mutex. *)

LEMMA InitOrder == Init => Order
  BY SpoolerAssumption
     DEF Init, Order, TypeOK, SetupOrder, LinesRead, MutexFree, OneProducer, Unfinished,
         Printing, Holding, Critical, SpoolerSetup, SpoolerStates, ClientStates, Slots

(* What a lookup with IPC_CREAT does to the semaphores. *)
LEMMA Created ==
    ASSUME TypeOK, NEW from, NEW to, NEW s \in {"mutex", "count", "signal"},
           GetSemaphore(from, to, s)
    PROVE  /\ sem' \in [{"mutex", "count", "signal"} -> Nat]
           /\ \A t \in {"mutex", "count", "signal"} \ {s} : sem'[t] = sem[t]
<1>1. CASE s \in ipc
  BY <1>1 DEF GetSemaphore, TypeOK
<1>2. CASE s \notin ipc
  <2>1. PICK v \in 0..1 : sem' = [sem EXCEPT ![s] = v]
    BY <1>2 DEF GetSemaphore
  <2>2. QED
    BY <2>1 DEF TypeOK
<1>3. QED
  BY <1>1, <1>2

LEMMA SpoolerOrder ==
    ASSUME Order, SpoolerStep \/ KillSpooler
    PROVE  Order'
<1> USE SpoolerAssumption
    DEF Order, TypeOK, SetupOrder, LinesRead, MutexFree, OneProducer, Unfinished, Printing,
        Holding, Critical, SpoolerSetup, SpoolerStates, ClientStates, Slots, Objects,
        SpoolerGo, SetSemaphore, memory, history
<1>1. CASE GetMutex
  BY <1>1, Created DEF GetMutex, GetSemaphore
<1>2. CASE LockMutex
  BY <1>2 DEF LockMutex
<1>3. CASE GetMemory
  BY <1>3 DEF GetMemory
<1>4. CASE ResetIndices
  BY <1>4 DEF ResetIndices
<1>5. CASE GetCount
  BY <1>5, Created DEF GetCount, GetSemaphore
<1>6. CASE SetCount
  BY <1>6 DEF SetCount
<1>7. CASE GetSignal
  <2>1. /\ sem' \in [{"mutex", "count", "signal"} -> Nat]
        /\ sem'["mutex"] = sem["mutex"] /\ sem'["count"] = sem["count"]
    BY <1>7, Created DEF GetSignal
  <2>2. /\ spooler = "getsignal" /\ spooler' = "setsignal" /\ ipc' = ipc \cup {"signal"}
        /\ UNCHANGED <<client, typed, kills, memory, history>>
    BY <1>7 DEF GetSignal, GetSemaphore
  <2>3. TypeOK'
    BY <2>1, <2>2
  <2>4. SetupOrder' /\ LinesRead' /\ MutexFree' /\ OneProducer'
    BY <2>1, <2>2
  <2>5. QED
    BY <2>3, <2>4
<1>8. CASE SetSignal
  BY <1>8 DEF SetSignal
<1>9. CASE UnlockMutex
  BY <1>9 DEF UnlockMutex
<1>10. CASE WaitSignal
  BY <1>10 DEF WaitSignal, P
<1>11. CASE PrintString
  BY <1>11 DEF PrintString
<1>12. CASE AdvancePrintIndex
  BY <1>12 DEF AdvancePrintIndex, Wrap
<1>13. CASE ReleaseBuffer
  BY <1>13 DEF ReleaseBuffer, V
<1>14. CASE KillSpooler
  BY <1>14 DEF KillSpooler
<1>15. QED
  BY <1>1, <1>2, <1>3, <1>4, <1>5, <1>6, <1>7, <1>8, <1>9, <1>10, <1>11, <1>12, <1>13,
     <1>14 DEF SpoolerStep

LEMMA ClientOrder ==
    ASSUME Order, NEW c \in Clients, Client(c) \/ KillClient(c)
    PROVE  Order'
<1> USE SpoolerAssumption
    DEF Order, TypeOK, SetupOrder, LinesRead, MutexFree, OneProducer, Unfinished, Printing,
        Holding, Critical, SpoolerSetup, SpoolerStates, ClientStates, Slots, Objects,
        ClientGo, memory, history
<1>1. CASE Attach(c)
  BY <1>1 DEF Attach
<1>2. CASE ReadLine(c)
  <2> USE <1>2 DEF ReadLine
  <2>1. TypeOK'
    OBVIOUS
  <2>2. SetupOrder' /\ LinesRead' /\ MutexFree' /\ OneProducer'
    OBVIOUS
  <2>3. QED
    BY <2>1, <2>2
<1>3. CASE EndOfInput(c)
  BY <1>3 DEF EndOfInput
<1>4. CASE GetBuffer(c)
  <2>0. /\ client[c] = "getbuffer" /\ client' = [client EXCEPT ![c] = "lock"]
        /\ sem["count"] > 0 /\ sem' = [sem EXCEPT !["count"] = sem["count"] - 1]
        /\ UNCHANGED <<spooler, kills, ipc, memory, typed, history>>
    BY <1>4 DEF GetBuffer, P
  <2>1. "signal" \in ipc
    BY <2>0
  <2>2. sem' \in [{"mutex", "count", "signal"} -> Nat] /\ sem'["mutex"] = sem["mutex"]
    BY <2>0
  <2>3. TypeOK'
    BY <2>0, <2>1, <2>2
  <2>4. SetupOrder' /\ LinesRead'
    BY <2>0, <2>1, <2>2
  <2>5. MutexFree' /\ OneProducer'
    BY <2>0, <2>1, <2>2
  <2>6. QED
    BY <2>3, <2>4, <2>5
<1>5. CASE ClientLock(c)
  <2>0. /\ client[c] = "lock" /\ client' = [client EXCEPT ![c] = "write"]
        /\ sem["mutex"] > 0 /\ sem' = [sem EXCEPT !["mutex"] = sem["mutex"] - 1]
        /\ UNCHANGED <<spooler, kills, ipc, memory, typed, history>>
    BY <1>5 DEF ClientLock, P
  <2>1. /\ "signal" \in ipc /\ sem["mutex"] = 1 /\ spooler \notin SpoolerSetup
        /\ \A d \in Clients : client[d] \notin Critical
    <3>1. "signal" \in ipc
      BY <2>0
    <3>2. sem["mutex"] = 1 /\ spooler \notin SpoolerSetup
      BY <2>0, <3>1
    <3>3. QED
      BY <3>1, <3>2
  <2>2. sem' \in [{"mutex", "count", "signal"} -> Nat] /\ sem'["mutex"] = 0
    BY <2>0, <2>1
  <2>3. TypeOK'
    BY <2>0, <2>1, <2>2
  <2>4. SetupOrder' /\ LinesRead'
    BY <2>0, <2>1, <2>2
  <2>5. MutexFree' /\ OneProducer'
    BY <2>0, <2>1, <2>2
  <2>6. QED
    BY <2>3, <2>4, <2>5
<1>6. CASE WriteString(c)
  <2>1. <<c, typed[c]>> \in Message
    BY <1>6 DEF WriteString, Message
  <2>2. TypeOK'
    <3>1. sent' \in Seq(Message) /\ buf' \in [Slots -> Message \cup {NoString}]
      BY <1>6, <2>1 DEF WriteString
    <3>2. QED
      BY <1>6, <3>1 DEF WriteString
  <2>3. SetupOrder' /\ LinesRead' /\ MutexFree' /\ OneProducer'
    BY <1>6 DEF WriteString
  <2>4. QED
    BY <2>2, <2>3
<1>7. CASE AdvanceIndex(c)
  <2> USE <1>7 DEF AdvanceIndex, Wrap
  <2>1. TypeOK'
    OBVIOUS
  <2>2. SetupOrder' /\ LinesRead'
    OBVIOUS
  <2>3. MutexFree' /\ OneProducer'
    OBVIOUS
  <2>4. QED
    BY <2>1, <2>2, <2>3
<1>8. CASE ClientUnlock(c)
  <2>1. /\ client[c] = "unlock" /\ client' = [client EXCEPT ![c] = "signal"]
        /\ sem' = [sem EXCEPT !["mutex"] = sem["mutex"] + 1]
        /\ UNCHANGED <<spooler, kills, ipc, memory, typed, history>>
    BY <1>8 DEF ClientUnlock, V
  <2>2. sem["mutex"] = 0 /\ spooler \notin SpoolerSetup
    <3>1. client[c] \in Critical /\ "signal" \in ipc
      BY <2>1
    <3>2. sem["mutex"] = 0
      BY <3>1
    <3>3. spooler \notin SpoolerSetup
      BY <3>1
    <3>4. QED
      BY <3>2, <3>3
  <2>3. TypeOK'
    BY <2>1, <2>2
  <2>4. SetupOrder' /\ LinesRead'
    BY <2>1, <2>2
  <2>5. MutexFree' /\ OneProducer'
    BY <2>1, <2>2
  <2>6. QED
    BY <2>3, <2>4, <2>5
<1>9. CASE SignalSpooler(c)
  <2>1. /\ client[c] = "signal" /\ client' = [client EXCEPT ![c] = "input"]
        /\ sem' = [sem EXCEPT !["signal"] = sem["signal"] + 1]
        /\ UNCHANGED <<spooler, kills, ipc, memory, typed, history>>
    BY <1>9 DEF SignalSpooler, V
  <2>2. TypeOK'
    BY <2>1
  <2>3. SetupOrder' /\ LinesRead' /\ MutexFree' /\ OneProducer'
    BY <2>1
  <2>4. QED
    BY <2>2, <2>3
<1>10. CASE KillClient(c)
  BY <1>10 DEF KillClient
<1>11. QED
  BY <1>1, <1>2, <1>3, <1>4, <1>5, <1>6, <1>7, <1>8, <1>9, <1>10 DEF Client, Deliver
LEMMA StutterOrder == Order /\ UNCHANGED vars => Order'
  BY DEF vars, memory, history, Order, TypeOK, SetupOrder, LinesRead, MutexFree, OneProducer

-----------------------------------------------------------------------------
(* Second layer: how many buffers are in use. *)

(* What the first layer says of the numbers. *)
LEMMA Numbers ==
    ASSUME Order
    PROVE  /\ MaxBuffers \in Nat /\ MaxBuffers > 0 /\ kills \in Nat
           /\ sem["mutex"] \in Nat /\ sem["count"] \in Nat /\ sem["signal"] \in Nat
           /\ Len(sent) \in Nat /\ Len(printed) \in Nat
           /\ client \in [Clients -> ClientStates]
           /\ Count(client, Before) \in Nat /\ Count(client, After) \in Nat
           /\ Count(client, Holding) \in Nat
  BY SpoolerAssumption, CountType DEF Order, TypeOK

(* Which states belong to which of the three sets. *)
LEMMA States ==
    /\ \A x \in {"attach", "input", "getbuffer", "done", "failed", "killed"} :
          x \notin Before /\ x \notin After /\ x \notin Holding
    /\ \A x \in {"lock", "write"} : x \in Before /\ x \notin After /\ x \in Holding
    /\ \A x \in {"advance", "unlock", "signal"} :
          x \notin Before /\ x \in After /\ x \in Holding
  BY DEF Before, After, Holding, Critical

LEMMA InitSpace == Init => Space
  BY DEF Init, Space, Printing, Unprinted

LEMMA SpoolerSpace ==
    ASSUME Order, Space, SpoolerStep \/ KillSpooler
    PROVE  Space'
<1>0. /\ sem["count"] \in Nat /\ sem["signal"] \in Nat /\ MaxBuffers \in Nat
      /\ Count(client, Before) \in Nat /\ Count(client, After) \in Nat
      /\ Len(sent) \in Nat /\ Len(printed) \in Nat
  BY Numbers
<1> USE <1>0
<1>1. CASE GetMutex \/ LockMutex \/ GetMemory \/ ResetIndices \/ GetCount \/ SetCount
  <2>1. /\ "signal" \notin ipc' /\ spooler' \in Unfinished
        /\ UNCHANGED <<sent, printed>>
    BY <1>1 DEF Order, SetupOrder, GetMutex, LockMutex, GetMemory, ResetIndices, GetCount,
                SetCount, GetSemaphore, SetSemaphore, SpoolerGo, history, memory, Unfinished,
                SpoolerSetup
  <2>2. QED
    BY <2>1 DEF Space, Used, Told, Unfinished, SpoolerSetup, Printing
<1>2. CASE GetSignal
  <2>1. /\ spooler = "getsignal" /\ spooler' = "setsignal"
        /\ UNCHANGED <<client, sent, printed>>
        /\ sem["count"] = MaxBuffers /\ sem'["count"] = sem["count"]
    BY <1>2, Created DEF GetSignal, GetSemaphore, SpoolerGo, history, Order, SetupOrder
  <2>2. sent = <<>> /\ printed = <<>> /\ \A c \in Clients : client[c] \notin Before
    BY <2>1 DEF Order, SetupOrder, SpoolerSetup, Unfinished, Before
  <2>3. Count(client, Before) = 0 /\ Unprinted = 0
    BY <2>2, CountNone DEF Unprinted
  <2>4. QED
    BY <2>1, <2>2, <2>3 DEF Space, Used, Told, InPrint, InRelease, Printing, Unprinted
<1>3. CASE SetSignal
  <2>1. /\ spooler = "setsignal" /\ spooler' = "unlock" /\ sem'["signal"] = 0
        /\ sem'["count"] = sem["count"] /\ UNCHANGED <<client, ipc, sent, printed>>
    BY <1>3 DEF SetSignal, SetSemaphore, SpoolerGo, history, Order, TypeOK
  <2>2. sent = <<>> /\ printed = <<>> /\ \A c \in Clients : client[c] \notin After
    BY <2>1 DEF Order, SetupOrder, SpoolerSetup, Critical, After
  <2>3. Count(client, After) = 0 /\ Unprinted = 0
    BY <2>2, CountNone DEF Unprinted
  <2>4. QED
    BY <2>1, <2>2, <2>3 DEF Space, Used, Told, InPrint, InRelease, Printing, Unprinted
<1>4. CASE UnlockMutex
  <2>1. /\ spooler = "unlock" /\ spooler' = "wait" /\ sem'["signal"] = sem["signal"]
        /\ sem'["count"] = sem["count"] /\ UNCHANGED <<client, ipc, sent, printed>>
    BY <1>4 DEF UnlockMutex, SetSemaphore, SpoolerGo, history, Order, TypeOK
  <2>2. QED
    BY <2>1 DEF Space, Used, Told, InPrint, InRelease, Printing, Unprinted
<1>5. CASE WaitSignal
  <2>1. /\ spooler = "wait" /\ spooler' = "print" /\ sem'["signal"] = sem["signal"] - 1
        /\ sem'["count"] = sem["count"] /\ UNCHANGED <<client, ipc, sent, printed>>
    BY <1>5 DEF WaitSignal, P, SpoolerGo, history, Order, TypeOK
  <2>2. QED
    BY <2>1 DEF Space, Used, Told, InPrint, InRelease, Printing, Unprinted
<1>6. CASE PrintString
  <2>1. /\ spooler = "print" /\ spooler' = "advance" /\ Len(printed') = Len(printed) + 1
        /\ UNCHANGED <<sem, client, ipc, sent>>
    BY <1>6 DEF PrintString, SpoolerGo, Order, TypeOK
  <2>2. QED
    <3>1. /\ sem["signal"] + 1 + Count(client, After) <= Unprinted
          /\ Unprinted' = Unprinted - 1 /\ Unprinted \in Int
      BY <2>1 DEF Space, Used, Told, InPrint, InRelease, Printing, Unprinted
    <3>2. Len(printed') <= Len(sent')
      BY <3>1 DEF Unprinted
    <3>3. "signal" \in ipc =>
             sem["count"] + Count(client, Before) + Unprinted <= MaxBuffers
      BY <2>1 DEF Space, Used, Told, InPrint, InRelease
    <3>4. InRelease' = 1 /\ InPrint' = 0
      BY <2>1 DEF InPrint, InRelease
    <3>5. /\ sem' = sem /\ client' = client /\ ipc' = ipc
      BY <2>1
    <3>6. "signal" \in ipc' =>
             sem'["count"] + InRelease' + Count(client', Before)
                 + Unprinted' <= MaxBuffers
      BY <3>1, <3>3, <3>4, <3>5
    <3>7. sem'["signal"] + InPrint' + Count(client', After) <= Unprinted'
      BY <3>1, <3>4, <3>5
    <3>8. QED
      BY <3>2, <3>6, <3>7 DEF Space, Used, Told
<1>7. CASE AdvancePrintIndex
  <2>1. /\ spooler = "advance" /\ spooler' = "release"
        /\ UNCHANGED <<sem, client, ipc, sent, printed>>
    BY <1>7 DEF AdvancePrintIndex, SpoolerGo, history
  <2>2. QED
    BY <2>1 DEF Space, Used, Told, InPrint, InRelease, Printing, Unprinted
<1>8. CASE ReleaseBuffer
  <2>1. /\ spooler = "release" /\ spooler' = "wait" /\ sem'["count"] = sem["count"] + 1
        /\ sem'["signal"] = sem["signal"] /\ UNCHANGED <<client, ipc, sent, printed>>
    BY <1>8 DEF ReleaseBuffer, V, SpoolerGo, history, Order, TypeOK
  <2>2. QED
    BY <2>1 DEF Space, Used, Told, InPrint, InRelease, Printing, Unprinted
<1>9. CASE KillSpooler
  <2>1. spooler' = "killed" /\ UNCHANGED <<ipc, sem, client, sent, printed>>
    BY <1>9 DEF KillSpooler, history
  <2>2. /\ InRelease' = 0 /\ spooler' \notin {"unlock"} \cup Printing
        /\ InRelease \in 0..1
    BY <2>1 DEF InPrint, InRelease, Printing
  <2>3. QED
    BY <2>1, <2>2 DEF Space, Used, Told, Unprinted
<1>10. QED
  BY <1>1, <1>2, <1>3, <1>4, <1>5, <1>6, <1>7, <1>8, <1>9 DEF SpoolerStep

LEMMA ClientSpace ==
    ASSUME Order, Space, NEW c \in Clients, Client(c) \/ KillClient(c)
    PROVE  Space'
<1>0. /\ sem["count"] \in Nat /\ sem["signal"] \in Nat /\ MaxBuffers \in Nat
      /\ Count(client, Before) \in Nat /\ Count(client, After) \in Nat
  BY Numbers
<1>type. client \in [Clients -> ClientStates] /\ Len(sent) \in Nat /\ Len(printed) \in Nat
  BY Numbers
<1> USE DEF ClientGo
<1>1. CASE Attach(c) \/ ReadLine(c) \/ EndOfInput(c)
  <2>0. /\ Moves(client, client', c) /\ client[c] \in {"attach", "input"}
        /\ client'[c] \in {"input", "failed", "getbuffer", "done"}
    BY <1>type, <1>1 DEF Attach, ReadLine, EndOfInput, Moves
  <2>1. /\ Count(client', Before) = Count(client, Before)
        /\ Count(client', After) = Count(client, After)
    BY <2>0, States, CountStay
  <2>2. UNCHANGED <<spooler, sem, ipc, sent, printed>>
    BY <1>1 DEF Attach, ReadLine, EndOfInput, history
  <2>3. /\ InRelease' = InRelease /\ InRelease \in 0..1
        /\ InPrint' = InPrint /\ InPrint \in 0..1
    BY <2>2 DEF InRelease, InPrint
  <2>4. Unprinted' = Unprinted /\ Unprinted \in Int
    BY <1>type, <2>2 DEF Unprinted
  <2>5. Used' = Used
    BY <1>0, <2>1, <2>2, <2>3, <2>4 DEF Used
  <2>6. Told' = Told
    BY <1>0, <2>1, <2>2, <2>3, <2>4 DEF Told
  <2>7. QED
    BY <1>0, <1>type, <2>2, <2>4, <2>5, <2>6 DEF Space
<1>2. CASE GetBuffer(c)
  <2>0. Moves(client, client', c) /\ client[c] = "getbuffer" /\ client'[c] = "lock"
    BY <1>type, <1>2 DEF GetBuffer, Moves
  <2>1. /\ Count(client', Before) = Count(client, Before) + 1
        /\ Count(client', After) = Count(client, After)
    BY <2>0, States, CountEnter, CountStay
  <2>2. /\ sem'["count"] = sem["count"] - 1 /\ sem'["signal"] = sem["signal"]
        /\ UNCHANGED <<spooler, ipc, sent, printed>>
    BY <1>2 DEF GetBuffer, P, history, Order, TypeOK
  <2>3. /\ InRelease' = InRelease /\ InRelease \in 0..1
        /\ InPrint' = InPrint /\ InPrint \in 0..1
    BY <2>2 DEF InRelease, InPrint
  <2>4. Unprinted' = Unprinted /\ Unprinted \in Int
    BY <1>type, <2>2 DEF Unprinted
  <2>5. Used' = Used
    BY <1>0, <2>1, <2>2, <2>3, <2>4 DEF Used
  <2>6. Told' = Told
    BY <1>0, <2>1, <2>2, <2>3, <2>4 DEF Told
  <2>7. QED
    BY <1>0, <1>type, <2>2, <2>4, <2>5, <2>6 DEF Space
<1>3. CASE ClientLock(c)
  <2>0. Moves(client, client', c) /\ client[c] = "lock" /\ client'[c] = "write"
    BY <1>type, <1>3 DEF ClientLock, Moves
  <2>1. /\ Count(client', Before) = Count(client, Before)
        /\ Count(client', After) = Count(client, After)
    BY <2>0, States, CountStay
  <2>2. /\ sem'["count"] = sem["count"] /\ sem'["signal"] = sem["signal"]
        /\ UNCHANGED <<spooler, ipc, sent, printed>>
    BY <1>3 DEF ClientLock, P, history, Order, TypeOK
  <2>3. /\ InRelease' = InRelease /\ InRelease \in 0..1
        /\ InPrint' = InPrint /\ InPrint \in 0..1
    BY <2>2 DEF InRelease, InPrint
  <2>4. Unprinted' = Unprinted /\ Unprinted \in Int
    BY <1>type, <2>2 DEF Unprinted
  <2>5. Used' = Used
    BY <1>0, <2>1, <2>2, <2>3, <2>4 DEF Used
  <2>6. Told' = Told
    BY <1>0, <2>1, <2>2, <2>3, <2>4 DEF Told
  <2>7. QED
    BY <1>0, <1>type, <2>2, <2>4, <2>5, <2>6 DEF Space
<1>4. CASE WriteString(c)
  <2>0. Moves(client, client', c) /\ client[c] = "write" /\ client'[c] = "advance"
    BY <1>type, <1>4 DEF WriteString, Moves
  <2>1. /\ Count(client', Before) = Count(client, Before) - 1
        /\ Count(client', After) = Count(client, After) + 1
    BY <2>0, States, CountEnter, CountLeave
  <2>2. Len(sent') = Len(sent) + 1 /\ UNCHANGED <<spooler, sem, ipc, printed>>
    BY <1>4 DEF WriteString, Order, TypeOK
  <2>same. sem' = sem
    BY <2>2
  <2>3. /\ InRelease' = InRelease /\ InRelease \in 0..1
        /\ InPrint' = InPrint /\ InPrint \in 0..1
    BY <2>2 DEF InRelease, InPrint
  <2>4. Unprinted' = Unprinted + 1 /\ Unprinted \in Int
    BY <1>type, <2>2 DEF Unprinted
  <2>5. Used' = Used
    BY <1>0, <2>1, <2>3, <2>4, <2>same DEF Used
  <2>6. Told' = Told + 1 /\ Told \in Int
    BY <1>0, <2>1, <2>3, <2>4, <2>same DEF Told
  <2>7. QED
    BY <1>0, <1>type, <2>2, <2>4, <2>5, <2>6 DEF Space
<1>5. CASE AdvanceIndex(c)
  <2>0. Moves(client, client', c) /\ client[c] = "advance" /\ client'[c] = "unlock"
    BY <1>type, <1>5 DEF AdvanceIndex, Moves
  <2>1. /\ Count(client', Before) = Count(client, Before)
        /\ Count(client', After) = Count(client, After)
    BY <2>0, States, CountStay
  <2>2. UNCHANGED <<spooler, sem, ipc, sent, printed>>
    BY <1>5 DEF AdvanceIndex, history
  <2>3. /\ InRelease' = InRelease /\ InRelease \in 0..1
        /\ InPrint' = InPrint /\ InPrint \in 0..1
    BY <2>2 DEF InRelease, InPrint
  <2>4. Unprinted' = Unprinted /\ Unprinted \in Int
    BY <1>type, <2>2 DEF Unprinted
  <2>5. Used' = Used
    BY <1>0, <2>1, <2>2, <2>3, <2>4 DEF Used
  <2>6. Told' = Told
    BY <1>0, <2>1, <2>2, <2>3, <2>4 DEF Told
  <2>7. QED
    BY <1>0, <1>type, <2>2, <2>4, <2>5, <2>6 DEF Space
<1>6. CASE ClientUnlock(c)
  <2>0. Moves(client, client', c) /\ client[c] = "unlock" /\ client'[c] = "signal"
    BY <1>type, <1>6 DEF ClientUnlock, Moves
  <2>1. /\ Count(client', Before) = Count(client, Before)
        /\ Count(client', After) = Count(client, After)
    BY <2>0, States, CountStay
  <2>2. /\ sem'["count"] = sem["count"] /\ sem'["signal"] = sem["signal"]
        /\ UNCHANGED <<spooler, ipc, sent, printed>>
    BY <1>6 DEF ClientUnlock, V, history, Order, TypeOK
  <2>3. /\ InRelease' = InRelease /\ InRelease \in 0..1
        /\ InPrint' = InPrint /\ InPrint \in 0..1
    BY <2>2 DEF InRelease, InPrint
  <2>4. Unprinted' = Unprinted /\ Unprinted \in Int
    BY <1>type, <2>2 DEF Unprinted
  <2>5. Used' = Used
    BY <1>0, <2>1, <2>2, <2>3, <2>4 DEF Used
  <2>6. Told' = Told
    BY <1>0, <2>1, <2>2, <2>3, <2>4 DEF Told
  <2>7. QED
    BY <1>0, <1>type, <2>2, <2>4, <2>5, <2>6 DEF Space
<1>7. CASE SignalSpooler(c)
  <2>0. Moves(client, client', c) /\ client[c] = "signal" /\ client'[c] = "input"
    BY <1>type, <1>7 DEF SignalSpooler, Moves
  <2>1. /\ Count(client', Before) = Count(client, Before)
        /\ Count(client', After) = Count(client, After) - 1
    BY <2>0, States, CountLeave, CountStay
  <2>2. /\ sem'["count"] = sem["count"] /\ sem'["signal"] = sem["signal"] + 1
        /\ UNCHANGED <<spooler, ipc, sent, printed>>
    BY <1>7 DEF SignalSpooler, V, history, Order, TypeOK
  <2>3. /\ InRelease' = InRelease /\ InRelease \in 0..1
        /\ InPrint' = InPrint /\ InPrint \in 0..1
    BY <2>2 DEF InRelease, InPrint
  <2>4. Unprinted' = Unprinted /\ Unprinted \in Int
    BY <1>type, <2>2 DEF Unprinted
  <2>5. Used' = Used
    BY <1>0, <2>1, <2>2, <2>3, <2>4 DEF Used
  <2>6. Told' = Told
    BY <1>0, <2>1, <2>2, <2>3, <2>4 DEF Told
  <2>7. QED
    BY <1>0, <1>type, <2>2, <2>4, <2>5, <2>6 DEF Space
<1>8. CASE KillClient(c)
  <2>1. /\ Count(client', Before) <= Count(client, Before)
        /\ Count(client', After) <= Count(client, After)
        /\ Count(client', Before) \in Int /\ Count(client', After) \in Int
    <3>1. Moves(client, client', c) /\ client'[c] = "killed"
      BY <1>type, <1>8 DEF KillClient, Moves
    <3>2. Count(client', Before) \in {Count(client, Before), Count(client, Before) - 1}
      BY <3>1, States, CountStay, CountLeave
    <3>3. Count(client', After) \in {Count(client, After), Count(client, After) - 1}
      BY <3>1, States, CountStay, CountLeave
    <3>4. QED
      BY <1>0, <3>2, <3>3
  <2>2. UNCHANGED <<spooler, sem, ipc, sent, printed>>
    BY <1>8 DEF KillClient, history
  <2>3. /\ InRelease' = InRelease /\ InRelease \in 0..1
        /\ InPrint' = InPrint /\ InPrint \in 0..1
    BY <2>2 DEF InRelease, InPrint
  <2>4. Unprinted' = Unprinted /\ Unprinted \in Int
    BY <1>type, <2>2 DEF Unprinted
  <2>5. Used' <= Used /\ Used' \in Int /\ Used \in Int
    BY <1>0, <2>1, <2>2, <2>3, <2>4 DEF Used
  <2>6. Told' <= Told /\ Told' \in Int /\ Told \in Int
    BY <1>0, <2>1, <2>2, <2>3, <2>4 DEF Told
  <2>7. QED
    BY <1>0, <1>type, <2>2, <2>4, <2>5, <2>6 DEF Space
<1>9. QED
  BY <1>1, <1>2, <1>3, <1>4, <1>5, <1>6, <1>7, <1>8 DEF Client, Deliver
LEMMA StutterSpace == Space /\ UNCHANGED vars => Space'
  BY DEF vars, history, Space, Used, Told, Unprinted, InPrint, InRelease

-----------------------------------------------------------------------------
(* Third layer: the slots of the ring. *)

LEMMA RingFacts ==
    ASSUME NEW p \in Slots, NEW k \in 0..(MaxBuffers - 1)
    PROVE  /\ Ahead(p, k) \in Slots /\ Wrap(p) \in Slots
           /\ Ahead(p, 0) = p
           /\ Ahead(Wrap(p), k) = Ahead(p, k + 1)
           /\ Wrap(Ahead(p, k)) = Ahead(p, k + 1)
  BY SpoolerAssumption DEF Slots, Ahead, Wrap

LEMMA RingDistinct ==
    ASSUME NEW p \in Slots, NEW k \in 0..(MaxBuffers - 1), NEW i \in 0..(k - 1)
    PROVE  Ahead(p, i) # Ahead(p, k)
  BY SpoolerAssumption DEF Slots, Ahead

LEMMA PrintSlotType == Order => PrintSlot \in Slots
  BY SpoolerAssumption DEF Order, TypeOK, PrintSlot, Wrap, Slots

LEMMA UnprintedType ==
    ASSUME Order, Space, spooler \notin SpoolerSetup \cup {"killed"}
    PROVE  Unprinted \in 0..MaxBuffers
<1>1. "signal" \in ipc
  BY DEF Order, TypeOK, SetupOrder, SpoolerStates, Printing
<1>2. InRelease \in Nat
  BY DEF InRelease
<1>3. Unprinted \in Nat /\ Used <= MaxBuffers
  BY <1>1, Numbers DEF Space, Unprinted
<1>4. QED
  BY <1>2, <1>3, Numbers DEF Used

LEMMA InitRing == Init => Ring
  BY DEF Init, Ring, Unprinted

LEMMA SpoolerRing ==
    ASSUME Order, Space, Ring, Order', SpoolerStep \/ KillSpooler
    PROVE  Ring'
<1> USE Numbers
<1>1. CASE spooler' \in SpoolerSetup
  <2>1. sent' = <<>> /\ printed' = <<>> /\ Unprinted' = 0
    BY <1>1 DEF Order, SetupOrder, Unprinted
  <2>2. \A c \in Clients : client'[c] \notin Critical
    BY <1>1 DEF Order, SetupOrder
  <2>3. "signal" \in ipc' => sem'["mutex"] = 0
    BY <1>1 DEF Order, SetupOrder, Unfinished, SpoolerSetup
  <2>4. QED
    BY <2>1, <2>2, <2>3 DEF Ring, Critical
<1>2. CASE UnlockMutex
  <2>1. /\ spooler = "unlock" /\ spooler' = "wait" /\ UNCHANGED <<client, ipc, memory, history>>
    BY <1>2 DEF UnlockMutex, SetSemaphore, SpoolerGo
  <2>2. /\ buffer_index = 0 /\ buffer_print_index = 0 /\ Unprinted = 0
        /\ \A c \in Clients : client[c] \notin Critical
    BY <2>1 DEF Order, SetupOrder, SpoolerSetup, Unprinted
  <2>3. Ahead(0, 0) = 0
    BY RingFacts DEF Ahead
  <2>4. QED
    BY <2>1, <2>2, <2>3 DEF Ring, Unprinted, PrintSlot, memory, history, Critical
<1>3. CASE WaitSignal
  <2>1. /\ spooler = "wait" /\ spooler' = "print" /\ sem'["mutex"] = sem["mutex"]
        /\ UNCHANGED <<client, ipc, memory, history>>
    BY <1>3 DEF WaitSignal, P, SpoolerGo, Order, TypeOK
  <2>2. QED
    BY <2>1 DEF Ring, Unprinted, PrintSlot, memory, history
<1>4. CASE PrintString
  <2>1. /\ spooler = "print" /\ spooler' = "advance"
        /\ printed' = Append(printed, buf[buffer_print_index])
        /\ UNCHANGED <<client, ipc, sem, memory, sent>>
    BY <1>4 DEF PrintString, SpoolerGo
  <2>2. /\ Len(printed') = Len(printed) + 1 /\ Unprinted' = Unprinted - 1
        /\ Unprinted \in 1..MaxBuffers
    <3>1. Unprinted \in 0..MaxBuffers
      BY <2>1, UnprintedType DEF SpoolerSetup
    <3>2. 1 + sem["signal"] + Count(client, After) <= Unprinted
      BY <2>1 DEF Space, Used, Told, Printing, InPrint, InRelease, Unprinted
    <3>3. QED
      BY <2>1, <3>1, <3>2 DEF Unprinted, Order, TypeOK
  <2>3. /\ PrintSlot = buffer_print_index /\ PrintSlot \in Slots
        /\ PrintSlot' = Wrap(PrintSlot)
    BY <2>1, PrintSlotType DEF PrintSlot, memory
  <2>4. \A k \in 0..(Unprinted' - 1) :
            buf'[Ahead(PrintSlot', k)] = sent'[Len(printed') + 1 + k]
    <3>1. TAKE k \in 0..(Unprinted' - 1)
    <3>2. k + 1 \in 0..(Unprinted - 1) /\ k \in 0..(MaxBuffers - 1)
      BY <2>2
    <3>3. Ahead(PrintSlot', k) = Ahead(PrintSlot, k + 1)
      BY <2>3, <3>2, RingFacts
    <3>4. buf[Ahead(PrintSlot, k + 1)] = sent[Len(printed) + 1 + (k + 1)]
      BY <2>1, <3>2 DEF Ring
    <3>5. QED
      BY <2>1, <2>2, <3>2, <3>3, <3>4 DEF memory
  <2>5. Ahead(PrintSlot', Unprinted') = Ahead(PrintSlot, Unprinted)
    <3>1. Unprinted' \in 0..(MaxBuffers - 1) /\ Unprinted' + 1 = Unprinted
      BY <2>2
    <3>2. QED
      BY <2>3, <3>1, RingFacts
  <2>6. QED
    BY <2>1, <2>4, <2>5 DEF Ring, memory
<1>5. CASE AdvancePrintIndex
  <2>1. /\ spooler = "advance" /\ spooler' = "release"
        /\ buffer_print_index' = Wrap(buffer_print_index)
        /\ UNCHANGED <<client, ipc, sem, buf, buffer_index, history>>
    BY <1>5 DEF AdvancePrintIndex, SpoolerGo
  <2>2. PrintSlot' = PrintSlot /\ Unprinted' = Unprinted
    BY <2>1 DEF PrintSlot, Unprinted, history
  <2>3. QED
    BY <2>1, <2>2 DEF Ring, history
<1>6. CASE ReleaseBuffer
  <2>1. /\ spooler = "release" /\ spooler' = "wait" /\ sem'["mutex"] = sem["mutex"]
        /\ UNCHANGED <<client, ipc, memory, history>>
    BY <1>6 DEF ReleaseBuffer, V, SpoolerGo, Order, TypeOK
  <2>2. QED
    BY <2>1 DEF Ring, Unprinted, PrintSlot, memory, history
<1>7. CASE KillSpooler
  BY <1>7 DEF KillSpooler, Ring
<1>8. QED
  BY <1>1, <1>2, <1>3, <1>4, <1>5, <1>6, <1>7
     DEF SpoolerStep, GetMutex, LockMutex, GetMemory, ResetIndices, GetCount, SetCount,
         GetSignal, SetSignal, GetSemaphore, SetSemaphore, SpoolerGo, SpoolerSetup

LEMMA ClientRing ==
    ASSUME Order, Space, Ring, NEW c \in Clients, Client(c) \/ KillClient(c),
           spooler # "killed"
    PROVE  Ring'
<1> USE Numbers
<1>1. CASE Attach(c) \/ ReadLine(c) \/ EndOfInput(c) \/ GetBuffer(c) \/ SignalSpooler(c)
            \/ KillClient(c)
  <2>1. /\ UNCHANGED <<spooler, ipc, memory, history>> /\ sem'["mutex"] = sem["mutex"]
        /\ \A d \in Clients : client'[d] \in Critical => client'[d] = client[d]
    BY <1>1 DEF Attach, ReadLine, EndOfInput, GetBuffer, SignalSpooler, KillClient, ClientGo,
                P, V, Critical, Order, TypeOK
  <2>2. QED
    BY <2>1 DEF Ring, Unprinted, PrintSlot, memory, history, Critical
<1>2. CASE ClientLock(c)
  <2>1. /\ sem["mutex"] = 1 /\ "signal" \in ipc
        /\ \A d \in Clients : client[d] \notin Critical
    <3>1. client[c] = "lock" /\ sem["mutex"] > 0
      BY <1>2 DEF ClientLock, P, ClientGo
    <3>2. "signal" \in ipc
      BY <3>1 DEF Order, SetupOrder
    <3>3. QED
      BY <3>1, <3>2 DEF Order, MutexFree
  <2>2. /\ client' = [client EXCEPT ![c] = "write"]
        /\ UNCHANGED <<spooler, ipc, memory, history>>
    BY <1>2 DEF ClientLock, ClientGo
  <2>3. \A d \in Clients : client'[d] \in Critical => client'[d] = "write"
    BY <2>1, <2>2
  <2>4. QED
    BY <2>1, <2>2, <2>3 DEF Ring, Unprinted, PrintSlot, memory, history, Critical
<1>3. CASE WriteString(c)
  <2>1. /\ client[c] = "write" /\ client' = [client EXCEPT ![c] = "advance"]
        /\ buf' = [buf EXCEPT ![buffer_index] = <<c, typed[c]>>]
        /\ sent' = Append(sent, <<c, typed[c]>>)
        /\ UNCHANGED <<spooler, ipc, sem, buffer_index, buffer_print_index, printed>>
    BY <1>3 DEF WriteString, ClientGo
  <2>2. /\ "signal" \in ipc /\ sem["mutex"] # 1
        /\ \A d \in Clients \ {c} : client[d] \notin Critical
    BY <2>1 DEF Order, SetupOrder, MutexFree, OneProducer, Critical
  <2>3. Unprinted \in 0..(MaxBuffers - 1)
    <3>1. Count(client, Before) > 0
      BY <2>1, CountSome, States
    <3>2. InRelease \in Nat
      BY DEF InPrint, InRelease
    <3>3. Used <= MaxBuffers
      BY <2>2, <3>1 DEF Space
    <3>4. Unprinted \in Nat
      BY DEF Space, Unprinted
    <3>5. QED
      BY <3>1, <3>2, <3>3, <3>4 DEF Used
  <2>4. /\ Len(sent') = Len(sent) + 1 /\ Unprinted' = Unprinted + 1
        /\ sent'[Len(sent) + 1] = <<c, typed[c]>>
        /\ \A i \in 1..Len(sent) : sent'[i] = sent[i]
    <3>1. sent \in Seq(Message)
      BY DEF Order, TypeOK
    <3>2. QED
      BY <2>1, <3>1 DEF Unprinted
  <2>5. PrintSlot' = PrintSlot /\ PrintSlot \in Slots
    BY <2>1, PrintSlotType DEF PrintSlot
  <2>6. buffer_index = Ahead(PrintSlot, Unprinted)
    BY <2>1, <2>2 DEF Ring
  <2>7. \A k \in 0..(Unprinted' - 1) :
            buf'[Ahead(PrintSlot', k)] = sent'[Len(printed') + 1 + k]
    <3>1. TAKE k \in 0..(Unprinted' - 1)
    <3>2. CASE k = Unprinted
      <4>1. Len(printed') + 1 + k = Len(sent) + 1
        BY <2>1, <3>2 DEF Unprinted
      <4>2. Ahead(PrintSlot', k) = buffer_index /\ buffer_index \in Slots
        BY <2>5, <2>6, <3>2 DEF Order, TypeOK
      <4>3. QED
        BY <2>1, <2>4, <4>1, <4>2 DEF Order, TypeOK
    <3>3. CASE k # Unprinted
      <4>1. k \in 0..(Unprinted - 1) /\ k \in 0..(MaxBuffers - 1)
        <5>1. k \in 0..Unprinted /\ Unprinted \in Int /\ MaxBuffers \in Int
          BY <2>3, <2>4
        <5>2. QED
          BY <2>3, <3>3, <5>1
      <4>2. Ahead(PrintSlot, k) \in Slots /\ Ahead(PrintSlot, k) # buffer_index
        <5>1. Ahead(PrintSlot, k) \in Slots
          BY <2>5, <4>1, RingFacts
        <5>2. Ahead(PrintSlot, k) # Ahead(PrintSlot, Unprinted)
          BY <2>3, <2>5, <4>1, RingDistinct
        <5>3. QED
          BY <2>6, <5>1, <5>2
      <4>3. buf[Ahead(PrintSlot, k)] = sent[Len(printed) + 1 + k]
        BY <2>1, <4>1, <1>3 DEF Ring
      <4>4. Len(printed) + 1 + k \in 1..Len(sent)
        BY <4>1 DEF Unprinted
      <4>5. QED
        BY <2>1, <2>4, <2>5, <4>2, <4>3, <4>4 DEF Order, TypeOK
    <3>4. QED
      BY <3>2, <3>3
  <2>8. Wrap(buffer_index') = Ahead(PrintSlot', Unprinted')
    BY <2>1, <2>3, <2>4, <2>5, <2>6, RingFacts
  <2>9. \A d \in Clients : client'[d] \in Critical => d = c /\ client'[d] = "advance"
    BY <2>1, <2>2 DEF Order, TypeOK
  <2>10. QED
    BY <2>1, <2>2, <2>7, <2>8, <2>9 DEF Ring, Critical
<1>4. CASE AdvanceIndex(c)
  <2>1. /\ client[c] = "advance" /\ client' = [client EXCEPT ![c] = "unlock"]
        /\ buffer_index' = Wrap(buffer_index)
        /\ UNCHANGED <<spooler, ipc, sem, buf, buffer_print_index, history>>
    BY <1>4 DEF AdvanceIndex, ClientGo
  <2>2. \A d \in Clients : client'[d] \in Critical => client'[d] = "unlock"
    BY <2>1 DEF Order, OneProducer, Critical, TypeOK
  <2>3. QED
    BY <2>1, <2>2 DEF Ring, Unprinted, PrintSlot, history, Critical
<1>5. CASE ClientUnlock(c)
  <2>1. /\ client[c] = "unlock" /\ client' = [client EXCEPT ![c] = "signal"]
        /\ UNCHANGED <<spooler, ipc, memory, history>>
    BY <1>5 DEF ClientUnlock, ClientGo
  <2>2. "signal" \in ipc /\ \A d \in Clients : client'[d] \notin Critical
    BY <2>1 DEF Order, SetupOrder, OneProducer, Critical, TypeOK
  <2>3. QED
    BY <2>1, <2>2 DEF Ring, Unprinted, PrintSlot, memory, history, Critical
<1>6. QED
  BY <1>1, <1>2, <1>3, <1>4, <1>5 DEF Client, Deliver
LEMMA StutterRing == Ring /\ UNCHANGED vars => Ring'
  BY DEF vars, memory, history, Ring, Unprinted, PrintSlot

-----------------------------------------------------------------------------
(* Fourth layer: the accounts. *)

LEMMA InitAccounts == Init => Accounts
  BY DEF Init, Accounts, Printing

LEMMA SpoolerAccounts ==
    ASSUME Order, Accounts, SpoolerStep \/ KillSpooler
    PROVE  Accounts'
<1>0. /\ sem["count"] \in Nat /\ sem["signal"] \in Nat /\ kills \in Nat /\ MaxBuffers \in Nat
      /\ Count(client, Holding) \in Nat
  BY Numbers
<1> USE <1>0
<1>1. CASE spooler' \in Unfinished \cup {"killed"}
  BY <1>1 DEF Accounts, Unfinished, SpoolerSetup, Printing
<1>2. CASE GetSignal
  <2>1. /\ spooler = "getsignal" /\ spooler' = "setsignal" /\ UNCHANGED <<client, kills>>
        /\ sem["count"] = MaxBuffers /\ sem'["count"] = sem["count"]
    BY <1>2, Created DEF GetSignal, GetSemaphore, SpoolerGo, Order, SetupOrder
  <2>2. \A c \in Clients : client[c] \notin Holding
    BY <2>1 DEF Order, SetupOrder, SpoolerSetup, Unfinished, Holding, Critical
  <2>3. Count(client, Holding) = 0
    BY <2>2, CountNone
  <2>4. QED
    BY <2>1, <2>3 DEF Accounts, Accounted, Announced, InSpooler
<1>3. CASE SetSignal
  <2>1. /\ spooler = "setsignal" /\ spooler' = "unlock" /\ sem'["signal"] = 0
        /\ sem'["count"] = sem["count"] /\ UNCHANGED <<client, kills>>
    BY <1>3 DEF SetSignal, SetSemaphore, SpoolerGo, Order, TypeOK
  <2>2. QED
    BY <2>1 DEF Accounts, Accounted, Announced, InSpooler
<1>4. CASE UnlockMutex
  <2>1. /\ spooler = "unlock" /\ spooler' = "wait" /\ sem'["signal"] = sem["signal"]
        /\ sem'["count"] = sem["count"] /\ UNCHANGED <<client, kills>>
    BY <1>4 DEF UnlockMutex, SetSemaphore, SpoolerGo, Order, TypeOK
  <2>2. QED
    BY <2>1 DEF Accounts, Accounted, Announced, InSpooler
<1>5. CASE WaitSignal
  <2>1. /\ spooler = "wait" /\ spooler' = "print" /\ sem'["signal"] = sem["signal"] - 1
        /\ sem'["count"] = sem["count"] /\ UNCHANGED <<client, kills>>
    BY <1>5 DEF WaitSignal, P, SpoolerGo, Order, TypeOK
  <2>2. InSpooler = 0 /\ InSpooler' = 1
    BY <2>1 DEF InSpooler
  <2>3. Announced = sem["signal"] /\ Announced' = Announced - 1
    BY <2>1 DEF Announced
  <2>4. Accounted' = Accounted
    BY <2>1, <2>2, <2>3 DEF Accounted
  <2>5. QED
    BY <2>1, <2>4 DEF Accounts, Printing
<1>6. CASE PrintString \/ AdvancePrintIndex
  <2>1. /\ spooler \in {"print", "advance"} /\ spooler' \in {"advance", "release"}
        /\ UNCHANGED <<sem, client, kills>>
    BY <1>6 DEF PrintString, AdvancePrintIndex, SpoolerGo
  <2>2. QED
    BY <2>1 DEF Accounts, Accounted, Announced, InSpooler, Printing
<1>7. CASE ReleaseBuffer
  <2>1. /\ spooler = "release" /\ spooler' = "wait" /\ sem'["count"] = sem["count"] + 1
        /\ sem'["signal"] = sem["signal"] /\ UNCHANGED <<client, kills>>
    BY <1>7 DEF ReleaseBuffer, V, SpoolerGo, Order, TypeOK
  <2>2. InSpooler = 1 /\ InSpooler' = 0
    BY <2>1 DEF InSpooler
  <2>3. Announced' = Announced
    BY <2>1 DEF Announced
  <2>4. Accounted' = Accounted
    BY <2>1, <2>2, <2>3 DEF Accounted, Announced
  <2>5. QED
    BY <2>1, <2>4 DEF Accounts, Printing
<1>8. QED
  BY <1>1, <1>2, <1>3, <1>4, <1>5, <1>6, <1>7
     DEF SpoolerStep, GetMutex, LockMutex, GetMemory, ResetIndices, GetCount, SetCount,
         GetSemaphore, SetSemaphore, SpoolerGo, SpoolerSetup, Unfinished, KillSpooler

LEMMA ClientAccounts ==
    ASSUME Order, Accounts, NEW c \in Clients, Client(c) \/ KillClient(c)
    PROVE  Accounts'
<1>0. /\ sem["count"] \in Nat /\ sem["signal"] \in Nat /\ kills \in Nat /\ MaxBuffers \in Nat
      /\ Count(client, Holding) \in Nat
  BY Numbers
<1>1. CASE Attach(c) \/ ReadLine(c) \/ EndOfInput(c)
  <2>1. /\ Moves(client, client', c) /\ client[c] \in {"attach", "input"}
        /\ client'[c] \in {"input", "failed", "getbuffer", "done"}
        /\ UNCHANGED <<spooler, sem, kills>>
    BY <1>1 DEF Attach, ReadLine, EndOfInput, ClientGo, Moves, Order, TypeOK
  <2>2. Count(client', Holding) = Count(client, Holding)
    BY <2>1, States, CountStay
  <2>3. QED
    BY <1>0, <2>1, <2>2 DEF Accounts, Accounted, Announced, InSpooler
<1>2. CASE GetBuffer(c)
  <2>1. /\ Moves(client, client', c) /\ client[c] = "getbuffer" /\ client'[c] = "lock"
        /\ sem'["count"] = sem["count"] - 1 /\ sem'["signal"] = sem["signal"]
        /\ UNCHANGED <<spooler, kills>>
    BY <1>2 DEF GetBuffer, P, ClientGo, Moves, Order, TypeOK
  <2>2. Count(client', Holding) = Count(client, Holding) + 1
    BY <2>1, States, CountEnter
  <2>3. InSpooler' = InSpooler /\ InSpooler \in 0..1
    BY <2>1 DEF InSpooler
  <2>4. Announced' = Announced /\ Announced \in Nat
    BY <1>0, <2>1 DEF Announced
  <2>5. Accounted' = Accounted
    BY <1>0, <2>1, <2>2, <2>3, <2>4 DEF Accounted
  <2>6. QED
    BY <1>0, <2>1, <2>5 DEF Accounts
<1>3. CASE ClientLock(c) \/ WriteString(c) \/ AdvanceIndex(c) \/ ClientUnlock(c)
  <2>1. /\ Moves(client, client', c) /\ client[c] \in {"lock", "write", "advance", "unlock"}
        /\ client'[c] \in {"write", "advance", "unlock", "signal"}
        /\ sem'["count"] = sem["count"] /\ sem'["signal"] = sem["signal"]
        /\ UNCHANGED <<spooler, kills>>
    BY <1>3 DEF ClientLock, WriteString, AdvanceIndex, ClientUnlock, P, V, ClientGo, Moves,
                Order, TypeOK
  <2>2. Count(client', Holding) = Count(client, Holding)
    BY <2>1, States, CountStay
  <2>3. QED
    BY <1>0, <2>1, <2>2 DEF Accounts, Accounted, Announced, InSpooler
<1>4. CASE SignalSpooler(c)
  <2>1. /\ Moves(client, client', c) /\ client[c] = "signal" /\ client'[c] = "input"
        /\ sem'["count"] = sem["count"] /\ sem'["signal"] = sem["signal"] + 1
        /\ UNCHANGED <<spooler, kills>>
    BY <1>4 DEF SignalSpooler, V, ClientGo, Moves, Order, TypeOK
  <2>2. spooler \notin SpoolerSetup /\ Count(client', Holding) = Count(client, Holding) - 1
    BY <2>1, States, CountLeave DEF Order, SetupOrder
  <2>3. QED
    <3>1. InSpooler' = InSpooler /\ InSpooler \in 0..1
      BY <2>1 DEF InSpooler
    <3>2. Announced' = Announced + 1 /\ Announced \in Nat
      BY <1>0, <2>1, <2>2 DEF Announced, SpoolerSetup
    <3>3. Accounted' = Accounted
      BY <1>0, <2>1, <2>2, <3>1, <3>2 DEF Accounted
    <3>4. QED
      BY <1>0, <2>1, <3>3 DEF Accounts
<1>5. CASE KillClient(c)
  <2>1. /\ Moves(client, client', c) /\ client'[c] = "killed" /\ kills' = kills + 1
        /\ UNCHANGED <<spooler, sem>>
    BY <1>5 DEF KillClient, Moves, Order, TypeOK
  <2>2. Count(client', Holding) \in {Count(client, Holding), Count(client, Holding) - 1}
    BY <2>1, States, CountStay, CountLeave
  <2>3. InSpooler' = InSpooler /\ InSpooler \in 0..1
    BY <2>1 DEF InSpooler
  <2>4. Announced' = Announced /\ Announced \in Nat
    BY <1>0, <2>1 DEF Announced
  <2>5. Accounted' \in {Accounted, Accounted - 1} /\ Accounted \in Nat
    BY <1>0, <2>1, <2>2, <2>3, <2>4 DEF Accounted
  <2>6. QED
    BY <1>0, <2>1, <2>5 DEF Accounts
<1>6. QED
  BY <1>1, <1>2, <1>3, <1>4, <1>5 DEF Client, Deliver

-----------------------------------------------------------------------------
LEMMA StepIInv == IInv /\ [Next]_vars => IInv'
<1> SUFFICES ASSUME IInv, [Next]_vars PROVE IInv'
  OBVIOUS
<1>1. CASE SpoolerStep \/ KillSpooler
  <2>1. Order'
    BY <1>1, SpoolerOrder DEF IInv
  <2>2. QED
    BY <1>1, <2>1, SpoolerSpace, SpoolerRing, SpoolerAccounts DEF IInv
<1>2. ASSUME NEW c \in Clients, Client(c) \/ KillClient(c) PROVE IInv'
  <2>1. CASE spooler # "killed"
    BY <1>2, <2>1, ClientOrder, ClientSpace, ClientRing, ClientAccounts DEF IInv
  <2>2. CASE spooler = "killed"
    <3>1. Order' /\ Space' /\ Accounts'
      BY <1>2, ClientOrder, ClientSpace, ClientAccounts DEF IInv
    <3>2. UNCHANGED spooler
      BY <1>2 DEF Client, KillClient, Deliver, Attach, ReadLine, EndOfInput, GetBuffer,
                  ClientLock, WriteString, AdvanceIndex, ClientUnlock, SignalSpooler, ClientGo
    <3>3. QED
      BY <2>2, <3>1, <3>2 DEF IInv, Ring
  <2>3. QED
    BY <2>1, <2>2
<1>3. CASE UNCHANGED vars
  <2>1. Accounts'
    BY <1>3 DEF vars, IInv, Accounts, Accounted, Announced, InSpooler
  <2>2. QED
    BY <1>3, <2>1, StutterOrder, StutterSpace, StutterRing DEF IInv
<1>4. QED
  BY <1>1, <1>2, <1>3 DEF Next

THEOREM InductiveInvariant == Spec => []IInv
<1>1. Init => IInv
  BY InitOrder, InitSpace, InitRing, InitAccounts DEF IInv
<1>2. QED
  BY <1>1, StepIInv, PTL DEF Spec

(* Every variable stays in its type.                                        *)
THEOREM TypeCorrect == Spec => []TypeOK
<1>1. IInv => TypeOK
  BY DEF IInv, Order
<1>2. QED
  BY <1>1, InductiveInvariant, PTL

(* One client at a time between P(mutex) and V(mutex), none before the      *)
(* initialization is over, whoever is killed when.                          *)
THEOREM Exclusion == Spec => []MutualExclusion
<1>1. IInv => MutualExclusion
  BY DEF IInv, Order, SetupOrder, MutualExclusion
<1>2. QED
  BY <1>1, InductiveInvariant, PTL

(* The spooler prints without the mutex, and yet nobody writes the buffer   *)
(* it prints: with k strings unprinted, 0 < k < MAX_BUFFERS, the writer is   *)
(* k slots ahead.                                                           *)
THEOREM NoRace == Spec => []NoBufferRace
<1>1. IInv => NoBufferRace
  <2> SUFFICES ASSUME IInv, NEW c \in Clients, spooler = "print", client[c] = "write"
               PROVE  buffer_index # buffer_print_index
    BY DEF NoBufferRace
  <2> USE DEF IInv
  <2>1. "signal" \in ipc /\ PrintSlot = buffer_print_index /\ PrintSlot \in Slots
    BY PrintSlotType DEF Order, SetupOrder, Printing, PrintSlot
  <2>2. buffer_index = Ahead(PrintSlot, Unprinted)
    BY <2>1 DEF Ring
  <2>3. Unprinted \in 1..(MaxBuffers - 1)
    <3>1. Count(client, Before) > 0
      BY CountSome, States
    <3>2. 1 + sem["signal"] + Count(client, After) <= Unprinted
      BY Numbers DEF Space, Used, Told, Printing, InPrint, InRelease, Unprinted
    <3>3. sem["count"] + Count(client, Before) + Unprinted <= MaxBuffers
      BY <2>1, Numbers DEF Space, Used, Told, InPrint, InRelease, Unprinted
    <3>4. /\ Unprinted \in Int /\ MaxBuffers \in Nat
          /\ sem["count"] \in Nat /\ sem["signal"] \in Nat
          /\ Count(client, Before) \in Nat /\ Count(client, After) \in Nat
      BY Numbers DEF Unprinted
    <3>5. QED
      BY <3>1, <3>2, <3>3, <3>4
  <2>4. Ahead(PrintSlot, 0) = PrintSlot /\ Ahead(PrintSlot, 0) # Ahead(PrintSlot, Unprinted)
    BY <2>1, <2>3, RingFacts, RingDistinct
  <2>5. QED
    BY <2>1, <2>2, <2>4
<1>2. QED
  BY <1>1, InductiveInvariant, PTL

(* No buffer is ever gained, and each process killed loses at most one.     *)
THEOREM BuffersAccounted == Spec => []BufferAccounting
<1>1. IInv => BufferAccounting
  <2> SUFFICES ASSUME IInv, spooler \notin SpoolerSetup \cup {"killed"}
               PROVE  BufferAccounting
    BY DEF BufferAccounting
  <2>1. Holders = Among(client, Holding)
    BY DEF Holders, Among, Holding
  <2>2. InHand = Count(client, Holding) + InSpooler /\ InSpooler \in 0..1
    BY <2>1 DEF InHand, Count, InSpooler
  <2>3. spooler \in Printing
    BY DEF IInv, Order, TypeOK, SpoolerStates, Printing
  <2>4. Announced = sem["signal"]
    BY <2>3 DEF Announced, Printing
  <2>5. Accounted = sem["count"] + sem["signal"] + InHand
    BY <2>2, <2>4, Numbers DEF IInv, Accounted
  <2>6. QED
    BY <2>3, <2>5 DEF IInv, Accounts, BufferAccounting
<1>2. QED
  BY <1>1, InductiveInvariant, PTL

-----------------------------------------------------------------------------
(* Refinement. *)

LEMMA StepRefines ==
    ASSUME IInv, [Next]_vars
    PROVE  [Channel!Next]_(Channel!vars)
<1> USE Numbers DEF Channel!vars, history, IInv
<1>1. CASE UNCHANGED vars
  BY <1>1 DEF vars
<1>2. CASE PrintString
  <2>1. /\ spooler = "print" /\ printed' = Append(printed, buf[buffer_print_index])
        /\ UNCHANGED sent
    BY <1>2 DEF PrintString, SpoolerGo
  <2>2. Unprinted \in Int /\ Unprinted > 0
    BY <2>1 DEF Space, Used, Told, Printing, InPrint, InRelease, Unprinted
  <2>3. PrintSlot = buffer_print_index /\ PrintSlot \in Slots
    BY <2>1, PrintSlotType DEF PrintSlot
  <2>4. Ahead(PrintSlot, 0) = PrintSlot
    BY <2>3, RingFacts
  <2>5. buf[Ahead(PrintSlot, 0)] = sent[Len(printed) + 1 + 0]
    BY <2>1, <2>2 DEF Ring
  <2>6. Channel!Deliver
    BY <2>1, <2>2, <2>3, <2>4, <2>5 DEF Channel!Deliver, Unprinted
  <2>7. QED
    BY <2>6 DEF Channel!Next
<1>3. ASSUME NEW c \in Clients, WriteString(c)
      PROVE  Channel!Next
  <2>1. /\ client[c] = "write" /\ sent' = Append(sent, <<c, typed[c]>>) /\ UNCHANGED printed
    BY <1>3 DEF WriteString, ClientGo
  <2>2. <<c, typed[c]>> \in Message
    BY <2>1 DEF Order, TypeOK, LinesRead, Holding, Critical, Message
  <2>3. Unprinted \in Int /\ Unprinted < MaxBuffers
    <3>1. "signal" \in ipc /\ Count(client, Before) > 0
      BY <2>1, CountSome, States DEF Order, SetupOrder
    <3>2. InRelease \in Nat
      BY DEF InPrint, InRelease
    <3>3. Used <= MaxBuffers
      BY <3>1 DEF Space
    <3>4. QED
      BY <3>1, <3>2, <3>3 DEF Used, Unprinted
  <2>4. Channel!Send(<<c, typed[c]>>)
    BY <2>1, <2>3 DEF Channel!Send, Unprinted
  <2>5. QED
    BY <2>2, <2>4 DEF Channel!Next
<1>4. CASE (SpoolerStep /\ ~PrintString) \/ KillSpooler
  BY <1>4 DEF SpoolerStep, KillSpooler, GetMutex, LockMutex, GetMemory, ResetIndices, GetCount,
              SetCount, GetSignal, SetSignal, UnlockMutex, GetSemaphore, SetSemaphore,
              WaitSignal, AdvancePrintIndex, ReleaseBuffer
<1>5. ASSUME NEW c \in Clients, Client(c) \/ KillClient(c), ~WriteString(c)
      PROVE  UNCHANGED Channel!vars
  BY <1>5 DEF Client, KillClient, Deliver, Attach, ReadLine, EndOfInput, GetBuffer, ClientLock,
              AdvanceIndex, ClientUnlock, SignalSpooler
<1>6. QED
  BY <1>1, <1>2, <1>3, <1>4, <1>5 DEF Next

(* What the spooler prints is what the clients wrote, each string once,     *)
(* whole and in order, and never is a string overwritten before it is       *)
(* printed.                                                                 *)
THEOREM Refinement == Spec => ImplementsChannel
<1>1. Init => Channel!Init
  BY DEF Init, Channel!Init
<1>2. QED
  BY <1>1, StepRefines, InductiveInvariant, PTL
     DEF Spec, ImplementsChannel, Channel!Spec
=============================================================================
