------------------------------ MODULE IpcProofs ------------------------------
(***************************************************************************)
(* Theorems about the message table, for any number of processes, entries, *)
(* messages and ticks: an empty answer means that there is no message, and *)
(* the table implements the mailbox.                                       *)
(*                                                                         *)
(* The invariant is IpcInv.  Whoever is inside the table is alone there,   *)
(* but for the clock, which only makes entries older: an entry that was    *)
(* passed over stays so, and an entry that was found keeps its message.    *)
(***************************************************************************)
EXTENDS Ipc, FiniteSetTheorems, TLAPS

Inside(p) == pc[p] \in {"seek", "sent", "look", "take", "missed", "leave"}

Alone == \A p \in Process : Inside(p) => ipc_semaphore = p

(* What a process has looked at was not for it, and still is not.          *)
PassedOver(p) == \A i \in Slot : i < at[p] => ~ ForMe(p, i)

Searched ==
  \A p \in Process :
    /\ pc[p] \in {"look", "missed"} => PassedOver(p)
    /\ pc[p] = "missed" => at[p] = IpcLimit

(* There is a message where one is read.                                   *)
Whole ==
  /\ \A i \in Slot : Available(i) => message[i] \in Traffic
  /\ \A p \in Process : pc[p] \in {"send", "seek"} => parcel[p] \in Traffic
  /\ \A p \in Process : pc[p] = "take" =>
       message[at[p]] \in Traffic /\ message[at[p]].target = p

IpcInv == TypeOK /\ Alone /\ Searched /\ Whole

-----------------------------------------------------------------------------
(* The table is empty and nobody is inside.                                *)
LEMMA IpcInit == Init => IpcInv
<1> SUFFICES ASSUME Init PROVE IpcInv
  OBVIOUS
<1> USE IpcAssumption DEF Init
<1>1. TypeOK
  BY DEF TypeOK, Label, Slot
<1>2. Alone /\ Searched
  BY DEF Alone, Inside, Searched
<1>3. Whole
  BY DEF Whole, Available
<1>4. QED
  BY <1>1, <1>2, <1>3 DEF IpcInv

(* The clock makes entries older.                                          *)
LEMMA TickStep == ASSUME IpcInv, Tick PROVE IpcInv'
<1> USE DEF Tick, callVars
<1>1. TypeOK /\ Ttl \in Nat \ {0}
  BY IpcAssumption DEF IpcInv
<1>2. TypeOK'
  <2>1. left' \in [Slot -> -1 .. Ttl]
    BY <1>1 DEF TypeOK
  <2>2. QED
    BY <1>1, <2>1 DEF TypeOK
<1>3. \A i \in Slot : Available(i)' => Available(i)
  BY <1>1 DEF TypeOK, Available
<1>4. Alone' /\ Searched' /\ Whole'
  BY <1>3 DEF IpcInv, Alone, Inside, Searched, PassedOver, ForMe, Whole
<1>5. QED
  BY <1>2, <1>4 DEF IpcInv

(* Whoever goes in finds nobody there.                                     *)
LEMMA LockingStep == ASSUME IpcInv, NEW p \in Process, Locking(p) PROVE IpcInv'
<1> USE DEF Goto
<1>1. /\ pc[p] \in {"send", "receive"} /\ pc' = [pc EXCEPT ![p] = pc'[p]]
      /\ pc[p] = "send" => pc'[p] = "seek"
      /\ pc[p] = "receive" => pc'[p] = "look"
      /\ ipc_semaphore = None /\ ipc_semaphore' = p
      /\ at' = [at EXCEPT ![p] = 0]
      /\ UNCHANGED <<left, message, parcel, wanted, got, bsp>>
  BY DEF Locking, SendLock, ReceiveLock, IpcInv, TypeOK
<1>2. TypeOK /\ 0 \in Slot /\ 0 \in 0 .. IpcLimit
  BY IpcAssumption DEF IpcInv, Slot
<1>3. \A q \in Process : ~ Inside(q)
  BY <1>1, IpcAssumption DEF IpcInv, Alone
<1>4. TypeOK'
  BY <1>1, <1>2 DEF TypeOK, Label
<1>5. Alone'
  BY <1>1, <1>2, <1>3 DEF TypeOK, Alone, Inside
<1>6. Searched'
  BY <1>1, <1>2, <1>3 DEF TypeOK, Searched, PassedOver, Inside, Slot
<1>7. Whole'
  BY <1>1, <1>2, <1>3 DEF IpcInv, TypeOK, Whole, Available, Inside
<1>8. QED
  BY <1>4, <1>5, <1>6, <1>7 DEF IpcInv

(* A process that makes a call is not inside yet.                          *)
LEMMA CallStep == ASSUME IpcInv, NEW p \in Process, Call(p) PROVE IpcInv'
<1> USE DEF Goto
<1>1. /\ pc[p] = "user" /\ pc' = [pc EXCEPT ![p] = pc'[p]]
      /\ pc'[p] \in {"send", "receive"}
      /\ bsp' \in Process \union {None}
      /\ \A q \in Process \ {p} : parcel'[q] = parcel[q] /\ wanted'[q] = wanted[q]
      /\ parcel' \in [Process -> Traffic \union {None}]
      /\ wanted' \in [Process -> Type \union {AnyType}]
      /\ pc'[p] = "send" => parcel'[p] \in Traffic
      /\ UNCHANGED <<tableVars, at, got>>
  BY DEF Call, SendCall, ReceiveCall, Boarding, IpcInv, TypeOK
<1>2. TypeOK'
  BY <1>1 DEF IpcInv, TypeOK, tableVars, Label
<1>3. \A q \in Process : q # p => pc'[q] = pc[q]
  BY <1>1 DEF IpcInv, TypeOK
<1>4. Alone' /\ Searched' /\ Whole'
  BY <1>1, <1>3 DEF IpcInv, Alone, Inside, Searched, PassedOver, ForMe, Whole,
                    Available, tableVars
<1>5. QED
  BY <1>2, <1>4 DEF IpcInv

(* The search for a free entry.                                            *)
LEMMA SeekStep == ASSUME IpcInv, NEW p \in Process, SeekNext(p) PROVE IpcInv'
<1>1. /\ pc[p] = "seek" /\ at' = [at EXCEPT ![p] = (at[p] + 1) % IpcLimit]
      /\ UNCHANGED <<left, message, ipc_semaphore, pc, parcel, wanted, got, bsp>>
  BY DEF SeekNext, tableVars
<1>2. (at[p] + 1) % IpcLimit \in Slot
  <2>1. at[p] + 1 \in Nat /\ IpcLimit \in Nat \ {0}
    BY <1>1, IpcAssumption DEF IpcInv, TypeOK, Slot
  <2>2. QED
    BY <2>1 DEF Slot
<1>3. TypeOK'
  <2>1. Slot \subseteq 0 .. IpcLimit
    BY IpcAssumption DEF Slot
  <2>2. at' \in [Process -> 0 .. IpcLimit]
    BY <1>1, <1>2, <2>1 DEF IpcInv, TypeOK
  <2>3. \A q \in Process : pc'[q] \in {"seek", "take"} => at'[q] \in Slot
    BY <1>1, <1>2 DEF IpcInv, TypeOK
  <2>4. QED
    BY <1>1, <2>2, <2>3 DEF IpcInv, TypeOK
<1>4. Alone' /\ Searched' /\ Whole'
  BY <1>1 DEF IpcInv, TypeOK, Alone, Inside, Searched, PassedOver, ForMe, Whole,
              Available
<1>5. QED
  BY <1>3, <1>4 DEF IpcInv

(* Only whoever is inside stores a message: nobody is looking.             *)
LEMMA StoreStep == ASSUME IpcInv, NEW p \in Process, SendStore(p) PROVE IpcInv'
<1>1. /\ pc[p] = "seek" /\ pc' = [pc EXCEPT ![p] = "sent"]
      /\ left' = [left EXCEPT ![at[p]] = Ttl]
      /\ message' = [message EXCEPT ![at[p]] = parcel[p]]
      /\ UNCHANGED <<ipc_semaphore, at, parcel, wanted, got, bsp>>
      /\ at[p] \in Slot /\ parcel[p] \in Traffic /\ TypeOK
  BY DEF SendStore, Goto, IpcInv, TypeOK, Whole
<1>2. \A q \in Process \ {p} : ~ Inside(q)
  BY <1>1 DEF IpcInv, Alone, Inside
<1>3. TypeOK'
  BY <1>1, IpcAssumption DEF TypeOK, Label
<1>4. Alone' /\ Searched'
  BY <1>1, <1>2 DEF IpcInv, TypeOK, Alone, Inside, Searched
<1>5. Whole'
  BY <1>1, <1>2 DEF IpcInv, TypeOK, Whole, Available, Inside
<1>6. QED
  BY <1>3, <1>4, <1>5 DEF IpcInv

(* Whoever looks passes over what is not for it.                           *)
LEMMA LookStep ==
  ASSUME IpcInv, NEW p \in Process, LookNext(p) \/ LookFound(p) \/ LookEnd(p)
  PROVE  IpcInv'
<1> USE DEF Goto
<1>1. TypeOK /\ pc[p] = "look" /\ PassedOver(p)
  BY DEF LookNext, LookFound, LookEnd, IpcInv, Searched
<1>2. \A q \in Process \ {p} : ~ Inside(q)
  BY <1>1 DEF IpcInv, Alone, Inside
<1>3. UNCHANGED <<left, message, ipc_semaphore, parcel, wanted, got, bsp>>
  BY DEF LookNext, LookFound, LookEnd, tableVars
<1>4. CASE LookNext(p)
  <2>1. /\ pc' = pc /\ at' = [at EXCEPT ![p] = at[p] + 1]
        /\ at[p] < IpcLimit /\ ~ ForMe(p, at[p])
    BY <1>4 DEF LookNext
  <2>2. at[p] \in Nat /\ at[p] + 1 \in 0 .. IpcLimit
    BY <1>1, <2>1, IpcAssumption DEF TypeOK
  <2>3. TypeOK'
    BY <1>1, <1>3, <2>1, <2>2 DEF TypeOK
  <2>4. PassedOver(p)'
    BY <1>1, <1>3, <2>1, <2>2 DEF TypeOK, PassedOver, ForMe, Available, Slot
  <2>5. Alone' /\ Searched' /\ Whole'
    BY <1>1, <1>2, <1>3, <2>1, <2>4
       DEF IpcInv, TypeOK, Alone, Inside, Searched, Whole, Available
  <2>6. QED
    BY <2>3, <2>5 DEF IpcInv
<1>5. CASE LookFound(p)
  <2>1. /\ pc' = [pc EXCEPT ![p] = "take"] /\ at' = at
        /\ at[p] < IpcLimit /\ ForMe(p, at[p])
    BY <1>5 DEF LookFound
  <2>2. at[p] \in Slot
    BY <1>1, <2>1, IpcAssumption DEF TypeOK, Slot
  <2>3. TypeOK'
    BY <1>1, <1>3, <2>1, <2>2 DEF TypeOK, Label
  <2>4. Alone' /\ Searched' /\ Whole'
    BY <1>1, <1>2, <1>3, <2>1, <2>2
       DEF IpcInv, TypeOK, Alone, Inside, Searched, Whole, Available, ForMe
  <2>5. QED
    BY <2>3, <2>4 DEF IpcInv
<1>6. CASE LookEnd(p)
  <2>1. pc' = [pc EXCEPT ![p] = "missed"] /\ at' = at /\ at[p] = IpcLimit
    BY <1>6 DEF LookEnd
  <2>2. TypeOK'
    BY <1>1, <1>3, <2>1 DEF TypeOK, Label
  <2>3. PassedOver(p)'
    BY <1>1, <1>3, <2>1 DEF PassedOver, ForMe, Available
  <2>4. Alone' /\ Searched' /\ Whole'
    BY <1>1, <1>2, <1>3, <2>1, <2>3
       DEF IpcInv, TypeOK, Alone, Inside, Searched, Whole, Available
  <2>5. QED
    BY <2>2, <2>4 DEF IpcInv
<1>7. QED
  BY <1>4, <1>5, <1>6

(* What is taken is released.                                              *)
LEMMA TakeStep == ASSUME IpcInv, NEW p \in Process, Take(p) PROVE IpcInv'
<1>1. /\ pc[p] = "take" /\ pc' = [pc EXCEPT ![p] = "leave"]
      /\ got' = [got EXCEPT ![p] = message[at[p]]]
      /\ left' = [left EXCEPT ![at[p]] = -1]
      /\ UNCHANGED <<message, ipc_semaphore, at, parcel, wanted, bsp>>
      /\ at[p] \in Slot /\ message[at[p]] \in Traffic /\ TypeOK
  BY DEF Take, Goto, IpcInv, TypeOK, Whole
<1>2. \A q \in Process \ {p} : ~ Inside(q)
  BY <1>1 DEF IpcInv, Alone, Inside
<1>3. TypeOK'
  BY <1>1, IpcAssumption DEF TypeOK, Label
<1>4. Alone' /\ Searched'
  BY <1>1, <1>2 DEF IpcInv, TypeOK, Alone, Inside, Searched
<1>5. Whole'
  BY <1>1, <1>2 DEF IpcInv, TypeOK, Whole, Available, Inside
<1>6. QED
  BY <1>3, <1>4, <1>5 DEF IpcInv

(* Whoever leaves was the only one inside.                                 *)
LEMMA ReturnStep ==
  ASSUME IpcInv, NEW p \in Process, SendReturn(p) \/ ReceiveReturn(p)
  PROVE  IpcInv'
<1>1. /\ pc[p] \in {"sent", "leave", "missed"} /\ pc' = [pc EXCEPT ![p] = "user"]
      /\ ipc_semaphore' = None
      /\ bsp' = IF bsp = p THEN None ELSE bsp
      /\ at' = [at EXCEPT ![p] = 0]
      /\ parcel' = [parcel EXCEPT ![p] = None]
      /\ wanted' = [wanted EXCEPT ![p] = AnyType]
      /\ UNCHANGED <<left, message, got>>
      /\ TypeOK
  BY DEF SendReturn, ReceiveReturn, Return, IpcInv
<1>2. \A q \in Process \ {p} : ~ Inside(q)
  BY <1>1 DEF IpcInv, Alone, Inside
<1>3. TypeOK'
  BY <1>1, IpcAssumption DEF TypeOK, Label
<1>4. Alone' /\ Searched'
  BY <1>1, <1>2 DEF IpcInv, TypeOK, Alone, Inside, Searched
<1>5. Whole'
  BY <1>1, <1>2 DEF IpcInv, TypeOK, Whole, Available, Inside
<1>6. QED
  BY <1>3, <1>4, <1>5 DEF IpcInv

LEMMA IpcStep == IpcInv /\ [Next]_vars => IpcInv'
<1> SUFFICES ASSUME IpcInv, [Next]_vars PROVE IpcInv'
  OBVIOUS
<1>1. CASE UNCHANGED vars
  BY <1>1 DEF vars, tableVars, callVars, IpcInv, TypeOK, Alone, Inside, Searched,
              PassedOver, ForMe, Available, Whole
<1>2. CASE Next
  BY <1>2, TickStep, LockingStep, CallStep, SeekStep, StoreStep, LookStep,
     TakeStep, ReturnStep
     DEF Next, Sending, Receiving
<1>3. QED
  BY <1>1, <1>2

LEMMA IpcInvariant == Spec => []IpcInv
  BY IpcInit, IpcStep, PTL DEF Spec

(* Type correctness of the table and of the calls (service.c:56-135).      *)
THEOREM IpcTypes == Spec => []TypeOK
  BY IpcInvariant, PTL DEF IpcInv

(* A receive returns FALSE only when there is no message for its caller,   *)
(* though entries become older while it looks (service.c:101-128).         *)
THEOREM EmptyIsNone == Spec => []EmptyMeansNone
<1>1. IpcInv => EmptyMeansNone
  BY DEF IpcInv, TypeOK, Searched, PassedOver, EmptyMeansNone, Slot
<1>2. QED
  BY <1>1, IpcInvariant, PTL

-----------------------------------------------------------------------------
(* The mailbox, under the mapping of Ipc.                                  *)
Box   == [m \in Traffic |-> Cardinality(MailOf(m))]
Inbox == [p \in Process |-> IF pc[p] = "take" THEN message[at[p]] ELSE got[p]]

(* The entries with a message are as many as there are entries at most.    *)
LEMMA MailIsFinite ==
  ASSUME NEW m
  PROVE  IsFiniteSet(MailOf(m)) /\ Cardinality(MailOf(m)) \in Nat
<1>1. IsFiniteSet(Slot)
  BY FS_Interval, IpcAssumption DEF Slot
<1>2. MailOf(m) \in SUBSET Slot
  BY DEF MailOf
<1>3. IsFiniteSet(MailOf(m))
  BY <1>1, <1>2, FS_Subset
<1>4. QED
  BY <1>3, FS_CardinalityType

(* Whoever has found a message is alone in the table: in the entries that  *)
(* others see nothing else is found.                                       *)
LEMMA FoundAlone ==
  ASSUME IpcInv, NEW p \in Process, Inside(p), NEW q \in Process \ {p}
  PROVE  pc[q] # "take"
  BY DEF IpcInv, Alone, Inside

LEMMA MailInit == Init => Mail!MailboxInit
<1> SUFFICES ASSUME Init PROVE Mail!MailboxInit
  OBVIOUS
<1>1. \A m \in Traffic : MailOf(m) = {}
  BY DEF Init, MailOf, Available
<1>2. \A m \in Traffic : Cardinality(MailOf(m)) = 0
  BY <1>1, FS_EmptySet
<1>3. QED
  BY <1>2 DEF Mail!MailboxInit, Init

(* A message that is stored is sent.                                       *)
LEMMA StoreSends ==
  ASSUME IpcInv, NEW p \in Process, SendStore(p)
  PROVE  \E m \in Traffic : Mail!Send(m)
<1> DEFINE m == parcel[p]
           i == at[p]
<1>1. /\ pc[p] = "seek" /\ pc' = [pc EXCEPT ![p] = "sent"]
      /\ left' = [left EXCEPT ![i] = Ttl] /\ left[i] < 0
      /\ message' = [message EXCEPT ![i] = m]
      /\ UNCHANGED <<ipc_semaphore, at, parcel, wanted, got, bsp>>
      /\ i \in Slot /\ m \in Traffic /\ TypeOK
  BY DEF SendStore, Goto, Free, IpcInv, TypeOK, Whole
<1>2. \A q \in Process : pc[q] # "take" /\ pc'[q] # "take"
  BY <1>1, FoundAlone DEF Inside, TypeOK
<1>3. Inbox' = Inbox
  BY <1>1, <1>2 DEF Inbox
<1>4. i \notin MailOf(m) /\ MailOf(m)' = MailOf(m) \cup {i}
  BY <1>1, <1>2, IpcAssumption DEF MailOf, Found, Available, TypeOK
<1>5. \A n \in Traffic \ {m} : MailOf(n)' = MailOf(n)
  BY <1>1, <1>2 DEF MailOf, Found, Available, TypeOK
<1>6. Cardinality(MailOf(m)') = Cardinality(MailOf(m)) + 1
  BY <1>4, MailIsFinite, FS_AddElement
<1>7. Box' = [Box EXCEPT ![m] = @ + 1]
  BY <1>1, <1>5, <1>6 DEF Box
<1>8. QED
  BY <1>1, <1>3, <1>7 DEF Mail!Send, Box, Inbox

(* A message that is found is delivered: to the process it names.          *)
LEMMA FoundDelivers ==
  ASSUME IpcInv, NEW p \in Process, LookFound(p)
  PROVE  \E m \in Traffic : Mail!Deliver(m)
<1> DEFINE i == at[p]
           m == message[i]
<1>1. /\ pc[p] = "look" /\ pc' = [pc EXCEPT ![p] = "take"]
      /\ UNCHANGED <<left, message, ipc_semaphore, at, parcel, wanted, got, bsp>>
      /\ left[i] > 0 /\ m.target = p /\ TypeOK
  BY DEF LookFound, Goto, ForMe, Available, IpcInv, tableVars
<1>2. i \in Slot /\ m \in Traffic
  BY <1>1, IpcAssumption DEF LookFound, IpcInv, TypeOK, Slot, Whole, Available
<1>3. \A q \in Process : pc[q] # "take" /\ (pc'[q] = "take" <=> q = p)
  BY <1>1, FoundAlone DEF Inside, TypeOK
<1>4. Inbox' = [Inbox EXCEPT ![m.target] = m]
  BY <1>1, <1>3 DEF Inbox
<1>5. i \in MailOf(m) /\ MailOf(m)' = MailOf(m) \ {i}
  BY <1>1, <1>2, <1>3 DEF MailOf, Found, Available
<1>6. \A n \in Traffic \ {m} : MailOf(n)' = MailOf(n)
  BY <1>1, <1>2, <1>3 DEF MailOf, Found, Available
<1>7. /\ Cardinality(MailOf(m)') = Cardinality(MailOf(m)) - 1
      /\ Cardinality(MailOf(m)) > 0
  BY <1>5, MailIsFinite, FS_RemoveElement, FS_EmptySet
<1>8. Box' = [Box EXCEPT ![m] = @ - 1] /\ Box[m] > 0
  BY <1>1, <1>2, <1>6, <1>7 DEF Box
<1>9. QED
  BY <1>2, <1>4, <1>8 DEF Mail!Deliver, Box, Inbox, TargetOf

(* What becomes too old expires.                                           *)
LEMMA TickExpires == ASSUME IpcInv, Tick PROVE Mail!Expire
<1>1. UNCHANGED <<message, pc, at, got>> /\ TypeOK
  BY DEF Tick, callVars, IpcInv
<1>2. \A m \in Traffic : MailOf(m)' \subseteq MailOf(m)
  BY <1>1 DEF Tick, MailOf, Found, Available, TypeOK
<1>3. \A m \in Traffic : Cardinality(MailOf(m)') <= Cardinality(MailOf(m))
  BY <1>2, MailIsFinite, FS_Subset
<1>4. Inbox' = Inbox
  BY <1>1 DEF Inbox
<1>5. DOMAIN Box' = Traffic /\ \A m \in Traffic : Box'[m] <= Box[m]
  BY <1>3 DEF Box
<1>6. QED
  BY <1>4, <1>5 DEF Mail!Expire, Box, Inbox

(* Copying what was found changes nothing for others.                      *)
LEMMA TakeStutters ==
  ASSUME IpcInv, NEW p \in Process, Take(p)
  PROVE  Box' = Box /\ Inbox' = Inbox
<1> DEFINE i == at[p]
<1>1. /\ pc[p] = "take" /\ pc' = [pc EXCEPT ![p] = "leave"]
      /\ got' = [got EXCEPT ![p] = message[i]]
      /\ left' = [left EXCEPT ![i] = -1]
      /\ UNCHANGED <<message, at>>
      /\ i \in Slot /\ TypeOK
  BY DEF Take, Goto, IpcInv, TypeOK
<1>2. \A q \in Process : pc'[q] # "take" /\ (pc[q] = "take" <=> q = p)
  BY <1>1, FoundAlone DEF Inside, TypeOK
<1>3. Inbox' = Inbox
  BY <1>1, <1>2 DEF Inbox, TypeOK
<1>4. \A m \in Traffic : MailOf(m)' = MailOf(m)
  BY <1>1, <1>2 DEF MailOf, Found, Available, TypeOK
<1>5. QED
  BY <1>3, <1>4 DEF Box

(* Nor does anything else.                                                 *)
LEMMA OthersStutter ==
  ASSUME IpcInv, NEW p \in Process,
         \/ Call(p) \/ Locking(p) \/ SeekNext(p) \/ LookNext(p) \/ LookEnd(p)
         \/ SendReturn(p) \/ ReceiveReturn(p)
  PROVE  Box' = Box /\ Inbox' = Inbox
<1>1. /\ UNCHANGED <<left, message, got>>
      /\ pc[p] # "take" /\ pc'[p] # "take"
      /\ \A q \in Process \ {p} : pc'[q] = pc[q] /\ at'[q] = at[q]
  BY DEF IpcInv, TypeOK, Call, SendCall, ReceiveCall, Locking, SendLock, ReceiveLock,
         SeekNext, LookNext, LookEnd, SendReturn, ReceiveReturn, Return, Goto,
         tableVars
<1>2. Inbox' = Inbox
  BY <1>1 DEF Inbox
<1>3. \A m \in Traffic : MailOf(m)' = MailOf(m)
  BY <1>1 DEF MailOf, Found, Available
<1>4. QED
  BY <1>2, <1>3 DEF Box

(* Every step of the table is one of the mailbox, or none.                 *)
LEMMA MailStep ==
  IpcInv /\ [Next]_vars => [Mail!MailboxNext]_<<Box, Inbox>>
<1> SUFFICES ASSUME IpcInv, [Next]_vars
             PROVE  [Mail!MailboxNext]_<<Box, Inbox>>
  OBVIOUS
<1>1. CASE UNCHANGED vars
  BY <1>1 DEF vars, tableVars, callVars, Box, Inbox, MailOf, Found, Available
<1>2. CASE Next
  <2>1. CASE Tick
    BY <2>1, TickExpires DEF Mail!MailboxNext
  <2>2. ASSUME NEW p \in Process, SendStore(p) \/ LookFound(p)
        PROVE  Mail!MailboxNext
    BY <2>2, StoreSends, FoundDelivers DEF Mail!MailboxNext
  <2>3. ASSUME NEW p \in Process,
               Call(p) \/ Locking(p) \/ Sending(p) \/ Receiving(p),
               ~ SendStore(p), ~ LookFound(p)
        PROVE  UNCHANGED <<Box, Inbox>>
    BY <2>3, TakeStutters, OthersStutter DEF Sending, Receiving
  <2>4. QED
    BY <1>2, <2>1, <2>2, <2>3 DEF Next
<1>3. QED
  BY <1>1, <1>2

(* The table implements the mailbox, however many processes use it and     *)
(* whatever the clock does: a message is delivered at most once, unaltered *)
(* and to its target only (service.c:56-135).                              *)
THEOREM TableIsMailbox == Spec => DeliversMail
  BY MailInit, MailStep, IpcInvariant, PTL
     DEF Spec, DeliversMail, Mail!MailboxSpec, Box, Inbox
=============================================================================
