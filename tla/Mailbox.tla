------------------------------ MODULE Mailbox -------------------------------
(***************************************************************************)
(* What the message service of the kernel promises to processes: a message *)
(* that was sent is delivered at most once, unaltered, and to the process  *)
(* it names only, until it is too old.  Nothing is promised about order,   *)
(* nor that a message is delivered before it expires.                      *)
(***************************************************************************)
EXTENDS Naturals

CONSTANTS Message, Process, Target(_), None

VARIABLES
  box,     \* how many copies of each message wait
  inbox    \* the message each process received last

MailboxTypeOK ==
  /\ box \in [Message -> Nat]
  /\ inbox \in [Process -> Message \union {None}]

MailboxInit ==
  /\ box = [m \in Message |-> 0]
  /\ inbox = [p \in Process |-> None]

Send(m) ==
  /\ box' = [box EXCEPT ![m] = @ + 1]
  /\ UNCHANGED inbox

Deliver(m) ==
  /\ box[m] > 0
  /\ box' = [box EXCEPT ![m] = @ - 1]
  /\ inbox' = [inbox EXCEPT ![Target(m)] = m]

(* Any number of messages expire at once. *)
Expire ==
  /\ DOMAIN box' = Message
  /\ \A m \in Message : box'[m] <= box[m]
  /\ UNCHANGED inbox

MailboxNext ==
  \/ \E m \in Message : Send(m) \/ Deliver(m)
  \/ Expire

MailboxSpec == MailboxInit /\ [][MailboxNext]_<<box, inbox>>
=============================================================================
