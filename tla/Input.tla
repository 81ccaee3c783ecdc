-------------------------------- MODULE Input --------------------------------
(***************************************************************************)
(* The keyboard and the mouse: kernel/driver/ps2.c.  The controller hands  *)
(* out a byte at a time, in an interrupt on the bootstrap processor; the   *)
(* manager of the frame buffer reads keys and the position of the pointer, *)
(* on the same processor, where no interrupt comes during the call, or on  *)
(* another.                                                                *)
(***************************************************************************)
EXTENDS Integers, Sequences, SequencesExt

CONSTANTS
  CacheLimit,   \* DRIVER_PS2_KEYBOARD_CACHE_limit
  Width,        \* kernel -> framebuffer_width_pixel
  Height,       \* kernel -> framebuffer_height_pixel
  Users         \* bound: what the user does, and where the reader runs

(* The frame buffer's sizes are uint16_t.  The mouse reports nine bits in  *)
(* two's complement; it reports no overflow.                               *)
ASSUME InputAssumption ==
  /\ CacheLimit \in Nat \ {0} /\ Width \in Nat \ {0} /\ Height \in Nat \ {0}
  /\ Width < 65536 /\ Height < 65536
  /\ Users \subseteq
       [keys : Nat, packets : Nat, draws : Nat, scan : SUBSET STRING,
        prefixes : SUBSET {"0xE0", "0xE1"},
        motion : SUBSET ((-256 .. 255) \X (-256 .. 255)),
        apart : BOOLEAN, waits : BOOLEAN, clients : SUBSET STRING, ends : SUBSET STRING]

VARIABLES
  user,         \* the keys and packets left, the keys and movements there
                \* are, and whether the reader has another processor
  mouse,        \* packet, status, x, y; and the packet that is on its way
  board,        \* driver_ps2_keyboard_storage, _matrix, driver_ps2_scancode
  reader,       \* where driver_ps2_keyboard_key_read is
  typed, read   \* the keys the driver composed, the keys it handed out (history)

input == <<user, mouse, board, reader, typed, read>>

NoKey == <<>>
Cell  == 1 .. CacheLimit + 1

(* driver_ps2_init leaves the pointer in the middle. *)
InputInit ==
  /\ user \in Users
  /\ mouse  = [packet |-> 0, status |-> {}, sent |-> <<0, 0>>,
               x |-> Width \div 2, y |-> Height \div 2]
  /\ board  = [storage |-> [c \in Cell |-> NoKey], matrix |-> FALSE, scancode |-> "none"]
  /\ reader = [pc |-> "idle", i |-> 1, key |-> NoKey, next |-> NoKey]
  /\ typed  = <<>>
  /\ read   = <<>>

-----------------------------------------------------------------------------
(* Mutant: one past the edge. *)
UpToEdge(position, value, edge) ==
  IF position + value <= edge THEN (position + value) % 65536 ELSE edge

(* int8_t packet *)
Narrow(value) == ((value + 128) % 256) - 128

(* driver_ps2_mouse, on one axis: the position, a uint16_t, moves up by    *)
(* the value and is kept below the edge, or down and is kept from 0.       *)
UpTo(position, value, edge) ==
  IF position + value < edge THEN (position + value) % 65536 ELSE edge - 1

DownTo(position, value) ==
  IF position - value < 0 THEN 0 ELSE (position - value) % 65536

(* The driver takes eight bits of the nine, and, if the ninth, the sign,   *)
(* was in the status, their two's complement.                              *)
Packet(value, negative) == IF negative THEN Narrow(- Narrow(value)) ELSE Narrow(value)

Sign(move) == {s \in {"x", "y"} : move[IF s = "x" THEN 1 ELSE 2] < 0}

(* The status is known before the movement. *)
MouseStatus ==
  /\ mouse.packet = 0
  /\ user.packets > 0
  /\ user' = [user EXCEPT !.packets = @ - 1]
  /\ \E move \in user.motion, buttons \in SUBSET {"left"} :
       mouse' = [mouse EXCEPT !.packet = 1, !.sent = move,
                              !.status = buttons \union Sign(move)]

MouseX ==
  /\ mouse.packet = 1
  /\ UNCHANGED user
  /\ mouse' = [mouse EXCEPT !.packet = 2,
                 !.x = IF "x" \in mouse.status
                       THEN DownTo(@, Packet(mouse.sent[1], TRUE))
                       ELSE UpTo(@, Packet(mouse.sent[1], FALSE), Width)]

(* The y axis of the mouse goes up. *)
MouseY ==
  /\ mouse.packet = 2
  /\ UNCHANGED user
  /\ mouse' = [mouse EXCEPT !.packet = 0, !.sent = <<0, 0>>,
                 !.y = IF "y" \in mouse.status
                       THEN UpTo(@, Packet(mouse.sent[2], TRUE), Height)
                       ELSE DownTo(@, Packet(mouse.sent[2], FALSE))]

MouseByte ==
  /\ MouseStatus \/ MouseX \/ MouseY
  /\ UNCHANGED <<board, reader, typed, read>>

(* The matrices: a key has a code for each, the same for those that print  *)
(* nothing; a key they do not know has none, of which only the release is  *)
(* stored, as a bare flag.                                                 *)
Code(scan) ==
  IF ~ board.matrix THEN scan
  ELSE CASE scan = "a" -> "A" [] scan = "\\" -> "|" [] OTHER -> scan

(* A code after 0xE0 is no letter, but the modifiers have the codes the    *)
(* matrices have for them.                                                 *)
Extended(scan) == IF scan \in {"shift", "alt"} THEN scan ELSE "extended"

Toggles(code, press) == code = "shift" \/ (code = "caps" /\ press)

(* Mutant: in the last free entry. *)
InsertedLast(storage, key) ==
  LET free == {c \in 1 .. CacheLimit : storage[c] = NoKey} IN
  IF free = {} THEN storage
  ELSE [storage EXCEPT ![CHOOSE c \in free : \A x \in free : x <= c] = key]

(* In the first free entry of the buffer; there may be none. *)
Inserted(storage, key) ==
  LET free == {c \in 1 .. CacheLimit : storage[c] = NoKey} IN
  IF free = {} THEN storage
  ELSE [storage EXCEPT ![CHOOSE c \in free : \A x \in free : c <= x] = key]

Compose(scan, press) ==
  LET code == CASE board.scancode = "0xE0" -> Extended(scan)
                [] board.scancode = "0xE1" -> "extended"
                [] OTHER -> Code(scan)
      key  == IF code = "none" /\ press THEN NoKey ELSE <<code, press>>
  IN /\ board' = [board EXCEPT !.scancode = "none",
                               !.matrix = IF Toggles(code, press) THEN ~ @ ELSE @,
                               !.storage = Inserted(@, key)]
     /\ typed' = IF key = NoKey THEN typed ELSE Append(typed, key)

(* driver_ps2_keyboard *)
KeyByte ==
  /\ user.keys > 0
  /\ user' = [user EXCEPT !.keys = @ - 1]
  /\ \/ \E prefix \in user.prefixes :
          /\ board.scancode = "none"
          /\ board' = [board EXCEPT !.scancode = prefix]
          /\ UNCHANGED typed
     \/ \E scan \in user.scan, press \in BOOLEAN : Compose(scan, press)
  /\ UNCHANGED <<mouse, reader, read>>

Interrupt == MouseByte \/ KeyByte

-----------------------------------------------------------------------------
(* driver_ps2_keyboard_key_read: the first key is taken and the others     *)
(* move up, one after the other.                                           *)
HandedOut(key) == IF key = NoKey THEN read ELSE Append(read, key)

KeyFetch ==
  /\ reader.pc = "idle"
  /\ user.apart
  /\ reader' = [reader EXCEPT !.pc = "load", !.i = 1, !.key = board.storage[1]]
  /\ UNCHANGED <<user, mouse, board, typed, read>>

KeyLoad ==
  /\ reader.pc = "load"
  /\ reader' = [reader EXCEPT !.pc = "store", !.next = board.storage[reader.i + 1]]
  /\ UNCHANGED <<user, mouse, board, typed, read>>

(* Mutant: the last entry does not move up. *)
KeyStoreShort ==
  LET on == reader.i < CacheLimit - 1 IN
  /\ reader.pc = "store"
  /\ board' = [board EXCEPT !.storage[reader.i] = reader.next]
  /\ reader' = IF on THEN [reader EXCEPT !.pc = "load", !.i = @ + 1, !.next = NoKey]
                     ELSE [reader EXCEPT !.pc = "done", !.i = 1, !.next = NoKey]
  /\ read' = IF on THEN read ELSE HandedOut(reader.key)
  /\ UNCHANGED <<user, mouse, typed>>

KeyStore ==
  /\ reader.pc = "store"
  /\ board' = [board EXCEPT !.storage[reader.i] = reader.next]
  /\ reader' = IF reader.i < CacheLimit
               THEN [reader EXCEPT !.pc = "load", !.i = @ + 1, !.next = NoKey]
               ELSE [reader EXCEPT !.pc = "done", !.i = 1, !.next = NoKey]
  /\ read' = IF reader.i < CacheLimit THEN read ELSE HandedOut(reader.key)
  /\ UNCHANGED <<user, mouse, typed>>

(* What the reader returns with.  On the processor the interrupts come to  *)
(* it is one step.                                                         *)
KeyCall == IF user.apart THEN reader.key ELSE board.storage[1]

KeyReturn ==
  IF user.apart
  THEN /\ reader.pc = "done"
       /\ reader' = [reader EXCEPT !.pc = "idle", !.key = NoKey]
       /\ UNCHANGED <<board, read>>
  ELSE /\ board' = [board EXCEPT !.storage =
                      [c \in Cell |-> @[IF c <= CacheLimit THEN c + 1 ELSE c]]]
       /\ read' = HandedOut(board.storage[1])
       /\ UNCHANGED reader

-----------------------------------------------------------------------------
(* The driver with a manager that reads keys at any time. *)
KeyRead == KeyReturn /\ UNCHANGED <<user, mouse, typed>>

InputNext == Interrupt \/ KeyFetch \/ KeyLoad \/ KeyStore \/ KeyRead

InputSpec == InputInit /\ [][InputNext]_input

-----------------------------------------------------------------------------
(* The keys read are some of those typed, one after the other. *)
InOrder ==
  \E f \in [DOMAIN read -> DOMAIN typed] :
    /\ \A i \in DOMAIN read : read[i] = typed[f[i]]
    /\ \A i, j \in DOMAIN read : i < j => f[i] < f[j]

(* On the processor the interrupts come to, keys are handed out in the     *)
(* order they were typed in, none twice and none that was not typed: one   *)
(* may be lost when the buffer is full (ps2.c:333-338, 396-399).           *)
KeysInOrder == ~ user.apart => InOrder

(* On another, where keys arrive while the buffer moves up, a key may be   *)
(* lost, but still none is handed out twice, and none that was not typed.  *)
KeysOnce ==
  \E f \in Injection(DOMAIN read, DOMAIN typed) :
    \A i \in DOMAIN read : read[i] = typed[f[i]]

(* What is handed out is the "first key code in buffer" (ps2.c:333), where *)
(* keys are put "in first free space" (ps2.c:396).  Not so on another      *)
(* processor, where the space of a key that is lost may be the first one.  *)
FirstKeyFirst == InOrder

(* The mouse never reports more than eight bits hold. *)
Small  == (-127 .. 127) \X (-127 .. 127)
Gentle == user.motion \subseteq Small

PointerIsKept == mouse.x \in 0 .. Width - 1 /\ mouse.y \in 0 .. Height - 1

(* However a mouse that is moved gently moves, and between any two bytes   *)
(* of it, the pointer is on the screen, where wm_object_find relies on it  *)
(* (ps2.c:278-320).                                                        *)
PointerOnScreen == Gentle => PointerIsKept

(* The driver says of both edges of both axes that it is to "keep offset"  *)
(* (ps2.c:280, 287, 303, 310): the pointer stays on the screen.  A fast    *)
(* movement, whose ninth bit is not its eighth, takes it off: the offset   *)
(* is kept at the edge the sign bit names, and the narrowed value leads    *)
(* past the other.                                                         *)
OffsetIsKept == PointerIsKept
=============================================================================
