-------------------------------- MODULE Ipc ---------------------------------
(***************************************************************************)
(* The message table of the kernel: kernel_service_ipc_send and            *)
(* kernel_service_ipc_receive (kernel/service.c), kernel/init/ipc.c.       *)
(*                                                                         *)
(* A call runs with interrupts masked on one processor, under              *)
(* ipc_semaphore.  The clock, time_rtc, is advanced by the interrupt       *)
(* handler of the bootstrap processor: at any time while that processor is *)
(* not in a call.  The age of an entry, ttl - time_rtc, is all that        *)
(* matters of both; it is kept as left[i], with -1 for every age below     *)
(* zero.  At age 0 an entry is neither free nor available.                 *)
(***************************************************************************)
EXTENDS Integers, FiniteSets

CONSTANTS
  Process,     \* the processes, named by their pid
  Type,        \* message types; AnyType asks for any of them
  AnyType,
  IpcLimit,    \* KERNEL_IPC_limit
  Ttl,         \* KERNEL_IPC_ttl
  Traffic,     \* the messages processes may send
  None

ASSUME IpcAssumption ==
  /\ IpcLimit \in Nat \ {0}
  /\ Ttl \in Nat \ {0}
  /\ None \notin Process
  /\ AnyType \notin Type

Slot == 0 .. IpcLimit - 1

ASSUME TrafficAssumption ==
  /\ Traffic \subseteq [source : Process, target : Process, type : Type]
  /\ None \notin Traffic

VARIABLES
  left,           \* age of each entry
  message,        \* what each entry holds
  ipc_semaphore,  \* who holds the lock
  pc,
  at,             \* `i' of the call a process makes
  parcel,         \* the message a process is sending
  wanted,         \* the type a process is asking for
  got,            \* the message a process received last
  bsp             \* the process that runs on the bootstrap processor

tableVars == <<left, message, ipc_semaphore>>
callVars  == <<pc, at, parcel, wanted, got, bsp>>
vars      == <<tableVars, callVars>>

Label == {"user", "send", "seek", "sent",
          "receive", "look", "take", "missed", "leave"}

TypeOK ==
  /\ left \in [Slot -> -1 .. Ttl]
  /\ message \in [Slot -> Traffic \union {None}]
  /\ ipc_semaphore \in Process \union {None}
  /\ pc \in [Process -> Label]
  /\ at \in [Process -> 0 .. IpcLimit]
  /\ \A p \in Process : pc[p] \in {"seek", "take"} => at[p] \in Slot
  /\ parcel \in [Process -> Traffic \union {None}]
  /\ wanted \in [Process -> Type \union {AnyType}]
  /\ got \in [Process -> Traffic \union {None}]
  /\ bsp \in Process \union {None}

(* The table is cleared memory: ttl is 0, and so may the clock be. *)
Init ==
  /\ \E age \in {-1, 0} : left = [i \in Slot |-> age]
  /\ message = [i \in Slot |-> None]
  /\ ipc_semaphore = None
  /\ pc = [p \in Process |-> "user"]
  /\ at = [p \in Process |-> 0]
  /\ parcel = [p \in Process |-> None]
  /\ wanted = [p \in Process |-> AnyType]
  /\ got = [p \in Process |-> None]
  /\ bsp = None

-----------------------------------------------------------------------------
Goto(p, from, to) ==
  /\ pc[p] = from
  /\ pc' = [pc EXCEPT ![p] = to]

Free(i)      == left[i] < 0
Available(i) == left[i] > 0

(* The end of a call: the lock is free, the processor may run something    *)
(* else, and the locals of the call are no more.                           *)
Return(p) ==
  /\ pc' = [pc EXCEPT ![p] = "user"]
  /\ ipc_semaphore' = None
  /\ bsp' = IF bsp = p THEN None ELSE bsp
  /\ at' = [at EXCEPT ![p] = 0]
  /\ parcel' = [parcel EXCEPT ![p] = None]
  /\ wanted' = [wanted EXCEPT ![p] = AnyType]
  /\ UNCHANGED <<left, message, got>>

(* Mutant: the clock stands still during any call. *)
TickBetweenCalls ==
  /\ \A p \in Process : pc[p] = "user"
  /\ \E i \in Slot : left[i] >= 0
  /\ left' = [i \in Slot |-> IF left[i] >= 0 THEN left[i] - 1 ELSE -1]
  /\ UNCHANGED <<message, ipc_semaphore, callVars>>

(* The clock ticks, unless the bootstrap processor is in a call. *)
Tick ==
  /\ bsp = None
  /\ \E i \in Slot : left[i] >= 0
  /\ left' = [i \in Slot |-> IF left[i] >= 0 THEN left[i] - 1 ELSE -1]
  /\ UNCHANGED <<message, ipc_semaphore, callVars>>

(* Process p makes a call, on the bootstrap processor or on another. *)
Boarding(p) == {bsp} \union {q \in {p} : bsp = None}

(* kernel_service_ipc_send *)
SendCall(p) ==
  \E m \in Traffic, q \in Boarding(p) :
    /\ Goto(p, "user", "send")
    /\ m.source = p
    /\ parcel' = [parcel EXCEPT ![p] = m]
    /\ bsp' = q
    /\ UNCHANGED <<tableVars, at, wanted, got>>

(* Mutant: the lock is not taken. *)
SendUnlocked(p) ==
  /\ Goto(p, "send", "seek")
  /\ at' = [at EXCEPT ![p] = 0]
  /\ UNCHANGED <<tableVars, parcel, wanted, got, bsp>>

SendLock(p) ==
  /\ Goto(p, "send", "seek")
  /\ ipc_semaphore = None
  /\ ipc_semaphore' = p
  /\ at' = [at EXCEPT ![p] = 0]
  /\ UNCHANGED <<left, message, parcel, wanted, got, bsp>>

(* The search goes round until an entry is free. *)
SeekNext(p) ==
  /\ pc[p] = "seek"
  /\ ~ Free(at[p])
  /\ at' = [at EXCEPT ![p] = (@ + 1) % IpcLimit]
  /\ UNCHANGED <<tableVars, pc, parcel, wanted, got, bsp>>

(* Only the clock changes an entry besides the holder of the lock, and it  *)
(* keeps a free entry free: the entry is checked and filled in one step.   *)
SendStore(p) ==
  /\ Goto(p, "seek", "sent")
  /\ Free(at[p])
  /\ left' = [left EXCEPT ![at[p]] = Ttl]
  /\ message' = [message EXCEPT ![at[p]] = parcel[p]]
  /\ UNCHANGED <<ipc_semaphore, at, parcel, wanted, got, bsp>>

SendReturn(p) == pc[p] = "sent" /\ Return(p)

-----------------------------------------------------------------------------
(* kernel_service_ipc_receive *)
ReceiveCall(p) ==
  \E t \in Type \union {AnyType}, q \in Boarding(p) :
    /\ Goto(p, "user", "receive")
    /\ wanted' = [wanted EXCEPT ![p] = t]
    /\ bsp' = q
    /\ UNCHANGED <<tableVars, at, parcel, got>>

ReceiveLock(p) ==
  /\ Goto(p, "receive", "look")
  /\ ipc_semaphore = None
  /\ ipc_semaphore' = p
  /\ at' = [at EXCEPT ![p] = 0]
  /\ UNCHANGED <<left, message, parcel, wanted, got, bsp>>

ForMe(p, i) ==
  /\ Available(i)
  /\ wanted[p] \in {AnyType, message[i].type}
  /\ message[i].target = p

(* Mutant: the search begins with the second entry. *)
LookNextFirst(p) ==
  /\ pc[p] = "look"
  /\ at[p] < IpcLimit
  /\ at[p] > 0 => ~ ForMe(p, at[p])
  /\ at' = [at EXCEPT ![p] = @ + 1]
  /\ UNCHANGED <<tableVars, pc, parcel, wanted, got, bsp>>

LookNext(p) ==
  /\ pc[p] = "look"
  /\ at[p] < IpcLimit
  /\ ~ ForMe(p, at[p])
  /\ at' = [at EXCEPT ![p] = @ + 1]
  /\ UNCHANGED <<tableVars, pc, parcel, wanted, got, bsp>>

LookFound(p) ==
  /\ Goto(p, "look", "take")
  /\ at[p] < IpcLimit
  /\ ForMe(p, at[p])
  /\ UNCHANGED <<tableVars, at, parcel, wanted, got, bsp>>

(* The entry may expire between the look and the copy. *)
Take(p) ==
  /\ Goto(p, "take", "leave")
  /\ got' = [got EXCEPT ![p] = message[at[p]]]
  /\ left' = [left EXCEPT ![at[p]] = -1]
  /\ UNCHANGED <<message, ipc_semaphore, at, parcel, wanted, bsp>>

LookEnd(p) ==
  /\ Goto(p, "look", "missed")
  /\ at[p] = IpcLimit
  /\ UNCHANGED <<tableVars, at, parcel, wanted, got, bsp>>

(* Both ways of leaving: with a message and without. *)
ReceiveReturn(p) == pc[p] \in {"leave", "missed"} /\ Return(p)

-----------------------------------------------------------------------------
Sending(p) == SeekNext(p) \/ SendStore(p) \/ SendReturn(p)

Receiving(p) ==
  LookNext(p) \/ LookFound(p) \/ Take(p) \/ LookEnd(p) \/ ReceiveReturn(p)

Locking(p) == SendLock(p) \/ ReceiveLock(p)

Call(p) == SendCall(p) \/ ReceiveCall(p)

Next ==
  Tick \/ \E p \in Process :
            Call(p) \/ Locking(p) \/ Sending(p) \/ Receiving(p)

Spec == Init /\ [][Next]_vars

(* The holder of the lock keeps executing (interrupts are masked) and the  *)
(* clock keeps ticking when it can.  Nothing makes a process call, and a   *)
(* processor may lose the race for the lock for ever.                      *)
FairSpec ==
  /\ Spec
  /\ WF_vars(Tick)
  /\ \A p \in Process : WF_vars(Sending(p) \/ Receiving(p))
-----------------------------------------------------------------------------
(***************************************************************************)
(* Properties.                                                             *)
(***************************************************************************)

(* A receive that returns FALSE does so when no entry holds an available   *)
(* message of the wanted type for the caller (service.c:101-128).          *)
EmptyMeansNone ==
  \A p \in Process : pc[p] = "missed" => \A i \in Slot : ~ ForMe(p, i)

(* A full table stalls a sender until an entry expires, not for ever,      *)
(* provided the clock ticks: a call on the bootstrap processor that waits  *)
(* for the table stops the clock, and all senders with it (service.c:62,   *)
(* KERNEL_IPC_ttl).                                                        *)
SenderProceeds ==
  \A p \in Process : pc[p] = "seek" ~> (pc[p] = "user" \/ bsp # None)

(* The table implements the mailbox.  A message is delivered when the      *)
(* receiver finds it: from then on it cannot expire.                       *)
Found(p, i) == pc[p] = "take" /\ at[p] = i

MailOf(m) ==
  {i \in Slot : Available(i) /\ message[i] = m /\ \A p \in Process : ~ Found(p, i)}

TargetOf(m) == m.target

Mail == INSTANCE Mailbox WITH
  Message <- Traffic,
  Target <- TargetOf,
  box    <- [m \in Traffic |-> Cardinality(MailOf(m))],
  inbox  <- [p \in Process |->
               IF pc[p] = "take" THEN message[at[p]] ELSE got[p]]

(* Messages are delivered at most once, whole, and to their target only.   *)
DeliversMail == Mail!MailboxSpec
=============================================================================
