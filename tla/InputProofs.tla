---------------------------- MODULE InputProofs ----------------------------
(***************************************************************************)
(* Theorems about the keyboard and the mouse, alone and below the window   *)
(* manager: the pointer stays on the screen, and keys are handed out in    *)
(* order, or, to another processor, at most once.                          *)
(*                                                                         *)
(* The invariant numbers the keys.  On one processor the buffer is a queue *)
(* without gaps, and what was read, with the buffer behind it, is an       *)
(* increasing choice of the keys typed.  On two, every key that is held,   *)
(* in an entry, in the hands of the reader, or read, has a number of its   *)
(* own; the entries that the reader is about to overwrite hold none.       *)
(***************************************************************************)
EXTENDS Windows, WellFoundedInduction, TLAPS

Key == (STRING \union {"A", "|", "extended"}) \X BOOLEAN

Motion == (-256 .. 255) \X (-256 .. 255)

UserType ==
  [keys : Nat, packets : Nat, draws : Nat, scan : SUBSET STRING,
   prefixes : SUBSET {"0xE0", "0xE1"}, motion : SUBSET Motion,
   apart : BOOLEAN, waits : BOOLEAN, clients : SUBSET STRING, ends : SUBSET STRING]

Word == {n \in Nat : n < 65536}

MouseType ==
  [packet : 0 .. 2, status : SUBSET {"left", "x", "y"}, sent : Motion,
   x : Word, y : Word]

BoardType ==
  [storage : [Cell -> Key \union {NoKey}], matrix : BOOLEAN,
   scancode : {"none", "0xE0", "0xE1"}]

ReaderType ==
  [pc : {"idle", "load", "store", "done"}, i : 1 .. CacheLimit,
   key : Key \union {NoKey}, next : Key \union {NoKey}]

InputTypes ==
  /\ user \in UserType
  /\ mouse \in MouseType
  /\ board \in BoardType
  /\ reader \in ReaderType
  /\ typed \in Seq(Key)
  /\ read \in Seq(Key)

(* The sign bits are those of the movement that is on its way.             *)
Signed == mouse.packet # 0 => mouse.status \ {"left"} = Sign(mouse.sent)

SmallSent == Gentle => mouse.sent \in Small

(* The drawing programs count down the same bound.                         *)
Drawing ==
  /\ \E n \in Nat : user' = [user EXCEPT !.draws = n]
  /\ UNCHANGED <<mouse, board, reader, typed, read>>

InputStep == InputNext \/ Drawing \/ UNCHANGED input

-----------------------------------------------------------------------------
LEMMA InputTypesInit == InputInit => InputTypes /\ Signed /\ SmallSent /\ PointerOnScreen
<1> SUFFICES ASSUME InputInit PROVE InputTypes /\ Signed /\ SmallSent /\ PointerOnScreen
  OBVIOUS
<1> USE InputAssumption DEF InputInit
<1>1. user \in UserType
  BY DEF UserType, Motion
<1>2. mouse \in MouseType
  <2>1. /\ Width \div 2 \in 0 .. Width - 1 /\ Height \div 2 \in 0 .. Height - 1
        /\ Width \div 2 \in Word /\ Height \div 2 \in Word
    BY DEF Word
  <2>2. <<0, 0>> \in Motion
    BY DEF Motion
  <2>3. QED
    BY <2>1, <2>2 DEF MouseType
<1>3. board \in BoardType /\ reader \in ReaderType
  BY DEF BoardType, ReaderType
<1>4. typed \in Seq(Key) /\ read \in Seq(Key)
  OBVIOUS
<1>5. Signed /\ SmallSent /\ PointerOnScreen
  <2>1. Width \div 2 \in 0 .. Width - 1 /\ Height \div 2 \in 0 .. Height - 1
    OBVIOUS
  <2>2. QED
    BY <2>1 DEF Signed, SmallSent, Small, PointerOnScreen, PointerIsKept
<1>6. QED
  BY <1>1, <1>2, <1>3, <1>4, <1>5 DEF InputTypes

(* The buffer has room for a key. *)
LEMMA CacheHolds == CacheLimit \in Nat \ {0}
BY InputAssumption

(* What is left of a movement in eight bits, and where it leads: not past  *)
(* an edge, if it fitted.                                                  *)
LEMMA PacketBits ==
  ASSUME NEW value \in -256 .. 255
  PROVE  /\ Packet(value, TRUE) \in Int /\ Packet(value, FALSE) \in Int
         /\ value \in -127 .. 127 =>
              Packet(value, TRUE) = - value /\ Packet(value, FALSE) = value
<1>1. ASSUME NEW v \in Int PROVE Narrow(v) \in Int
  BY DEF Narrow
<1>2. ASSUME NEW v \in -127 .. 127 PROVE Narrow(v) = v
  BY DEF Narrow
<1>3. value \in Int /\ (value \in -127 .. 127 => - value \in -127 .. 127)
  OBVIOUS
<1>4. QED
  BY <1>1, <1>2, <1>3 DEF Packet

LEMMA MovesAlong ==
  ASSUME NEW position \in Word, NEW value \in Int, NEW edge \in Word, edge > 0
  PROVE  /\ UpTo(position, value, edge) \in Word
         /\ DownTo(position, value) \in Word
         /\ position < edge /\ value >= 0 =>
              /\ UpTo(position, value, edge) \in 0 .. edge - 1
              /\ DownTo(position, value) \in 0 .. edge - 1
<1>1. ASSUME NEW n \in Int
      PROVE  n % 65536 \in Word /\ (n \in Word => n % 65536 = n)
  BY DEF Word
<1> DEFINE up == (position + value) % 65536
           down == (position - value) % 65536
<1>2. /\ position \in Nat /\ position < 65536 /\ edge \in Nat /\ edge < 65536
      /\ position + value \in Int /\ position - value \in Int
  BY DEF Word
<1>3. /\ up \in Nat /\ up < 65536 /\ down \in Nat /\ down < 65536
      /\ 0 <= position + value /\ position + value < 65536 => up = position + value
      /\ 0 <= position - value /\ position - value < 65536 => down = position - value
  BY <1>1, <1>2 DEF Word
<1>4. /\ UpTo(position, value, edge) = IF position + value < edge THEN up ELSE edge - 1
      /\ DownTo(position, value) = IF position - value < 0 THEN 0 ELSE down
  BY DEF UpTo, DownTo
<1> HIDE DEF up, down
<1>5. QED
  BY <1>2, <1>3, <1>4 DEF Word

LEMMA MouseMoves ==
  ASSUME InputTypes, Signed, MouseByte, SmallSent
  PROVE  /\ user' \in UserType /\ mouse' \in MouseType /\ Signed'
         /\ user'.motion = user.motion /\ user'.apart = user.apart /\ SmallSent'
         /\ PointerOnScreen => PointerOnScreen'
<1>1. /\ user \in UserType /\ mouse \in MouseType
      /\ mouse.packet \in 0 .. 2 /\ mouse.status \in SUBSET {"left", "x", "y"}
      /\ mouse.sent \in Motion
      /\ mouse.sent[1] \in -256 .. 255 /\ mouse.sent[2] \in -256 .. 255
      /\ mouse.x \in Word /\ mouse.y \in Word
      /\ user.packets \in Nat /\ user.motion \in SUBSET Motion
  BY DEF InputTypes, UserType, MouseType, Motion
<1>2. mouse = [packet |-> mouse.packet, status |-> mouse.status,
               sent |-> mouse.sent, x |-> mouse.x, y |-> mouse.y]
  BY <1>1 DEF MouseType
<1>3. CASE MouseStatus
  <2>1. user.packets > 0 /\ user' = [user EXCEPT !.packets = @ - 1]
    BY <1>3 DEF MouseStatus
  <2>2. PICK move \in user.motion, buttons \in SUBSET {"left"} :
          mouse' = [mouse EXCEPT !.packet = 1, !.sent = move,
                                 !.status = buttons \union Sign(move)]
    BY <1>3, Zenon DEF MouseStatus
  <2>3. Sign(move) \in SUBSET {"x", "y"} /\ move \in Motion
    BY <1>1 DEF Sign
  <2>4. /\ user' \in UserType
        /\ user'.motion = user.motion /\ user'.apart = user.apart
    BY <1>1, <2>1 DEF UserType
  <2>5. mouse' = [packet |-> 1, status |-> buttons \union Sign(move),
                  sent |-> move, x |-> mouse.x, y |-> mouse.y]
    BY <1>2, <2>2
  <2>6. mouse' \in MouseType
    <3>1. buttons \union Sign(move) \in SUBSET {"left", "x", "y"}
      BY <2>3
    <3>2. QED
      BY <1>1, <2>3, <2>5, <3>1 DEF MouseType
  <2>7. Signed'
    BY <2>3, <2>5 DEF Signed, Sign
  <2>8. SmallSent' /\ (PointerOnScreen => PointerOnScreen')
    BY <2>4, <2>5 DEF SmallSent, PointerOnScreen, PointerIsKept, Gentle
  <2>9. QED
    BY <2>4, <2>6, <2>7, <2>8
<1>4. CASE MouseX
  <2> DEFINE to == IF "x" \in mouse.status THEN DownTo(mouse.x, Packet(mouse.sent[1], TRUE))
                   ELSE UpTo(mouse.x, Packet(mouse.sent[1], FALSE), Width)
  <2>1. user' = user /\ mouse.packet = 1 /\ mouse' = [mouse EXCEPT !.packet = 2, !.x = to]
    BY <1>4 DEF MouseX
  <2>2. ("x" \in mouse.status) <=> mouse.sent[1] < 0
    BY <1>1, <2>1 DEF Signed, Sign
  <2>3. /\ to \in Word
        /\ mouse.sent[1] \in -127 .. 127 /\ mouse.x \in 0 .. Width - 1 => to \in 0 .. Width - 1
    <3> DEFINE down == Packet(mouse.sent[1], TRUE)
               up == Packet(mouse.sent[1], FALSE)
    <3>1. /\ down \in Int /\ up \in Int
          /\ mouse.sent[1] \in -127 .. 127 => down = - mouse.sent[1] /\ up = mouse.sent[1]
      BY <1>1, PacketBits
    <3> HIDE DEF down, up
    <3>2. Width \in Word /\ Width > 0
      BY InputAssumption DEF Word
    <3>3. /\ UpTo(mouse.x, up, Width) \in Word /\ DownTo(mouse.x, down) \in Word
          /\ mouse.x < Width /\ up >= 0 => UpTo(mouse.x, up, Width) \in 0 .. Width - 1
          /\ mouse.x < Width /\ down >= 0 => DownTo(mouse.x, down) \in 0 .. Width - 1
      BY <1>1, <3>1, <3>2, MovesAlong
    <3>4. to = IF "x" \in mouse.status THEN DownTo(mouse.x, down)
               ELSE UpTo(mouse.x, up, Width)
      BY DEF down, up
    <3>5. mouse.x \in Nat /\ Width \in Nat
      BY <1>1, <3>2 DEF Word
    <3> HIDE DEF to
    <3>6. QED
      BY <1>1, <2>2, <3>1, <3>3, <3>4, <3>5
  <2> HIDE DEF to
  <2>4. mouse' = [packet |-> 2, status |-> mouse.status, sent |-> mouse.sent,
                  x |-> to, y |-> mouse.y]
    BY <1>2, <2>1
  <2>5. mouse' \in MouseType
    BY <1>1, <2>3, <2>4 DEF MouseType
  <2>6. Signed'
    BY <2>1, <2>4 DEF Signed, Sign
  <2>7. SmallSent' /\ (PointerOnScreen => PointerOnScreen')
    <3>1. mouse'.sent \in {mouse.sent} /\ mouse'.x = to /\ mouse'.y = mouse.y
      BY <2>4
    <3>2. Gentle' = Gentle /\ (mouse.sent \in Small => mouse.sent[1] \in -127 .. 127)
      BY <2>1 DEF Gentle, Small
    <3>3. SmallSent'
      BY <3>1, <3>2 DEF SmallSent
    <3>4. ASSUME PointerOnScreen, Gentle' PROVE PointerIsKept'
      BY <2>3, <3>1, <3>2, <3>4 DEF SmallSent, PointerOnScreen, PointerIsKept
    <3>5. QED
      BY <3>3, <3>4 DEF PointerOnScreen
  <2>8. QED
    BY <1>1, <2>1, <2>5, <2>6, <2>7
<1>5. CASE MouseY
  <2> DEFINE to == IF "y" \in mouse.status THEN UpTo(mouse.y, Packet(mouse.sent[2], TRUE), Height)
                   ELSE DownTo(mouse.y, Packet(mouse.sent[2], FALSE))
  <2>1. /\ user' = user /\ mouse.packet = 2
        /\ mouse' = [mouse EXCEPT !.packet = 0, !.sent = <<0, 0>>, !.y = to]
    BY <1>5 DEF MouseY
  <2>2. ("y" \in mouse.status) <=> mouse.sent[2] < 0
    BY <1>1, <2>1 DEF Signed, Sign
  <2>3. /\ to \in Word
        /\ mouse.sent[2] \in -127 .. 127 /\ mouse.y \in 0 .. Height - 1 => to \in 0 .. Height - 1
    <3> DEFINE up == Packet(mouse.sent[2], TRUE)
               down == Packet(mouse.sent[2], FALSE)
    <3>1. /\ down \in Int /\ up \in Int
          /\ mouse.sent[2] \in -127 .. 127 => up = - mouse.sent[2] /\ down = mouse.sent[2]
      BY <1>1, PacketBits
    <3> HIDE DEF down, up
    <3>2. Height \in Word /\ Height > 0
      BY InputAssumption DEF Word
    <3>3. /\ UpTo(mouse.y, up, Height) \in Word /\ DownTo(mouse.y, down) \in Word
          /\ mouse.y < Height /\ up >= 0 => UpTo(mouse.y, up, Height) \in 0 .. Height - 1
          /\ mouse.y < Height /\ down >= 0 => DownTo(mouse.y, down) \in 0 .. Height - 1
      BY <1>1, <3>1, <3>2, MovesAlong
    <3>4. to = IF "y" \in mouse.status THEN UpTo(mouse.y, up, Height)
               ELSE DownTo(mouse.y, down)
      BY DEF down, up
    <3>5. mouse.y \in Nat /\ Height \in Nat
      BY <1>1, <3>2 DEF Word
    <3> HIDE DEF to
    <3>6. QED
      BY <1>1, <2>2, <3>1, <3>3, <3>4, <3>5
  <2> HIDE DEF to
  <2>4. mouse' = [packet |-> 0, status |-> mouse.status, sent |-> <<0, 0>>,
                  x |-> mouse.x, y |-> to]
    BY <1>2, <2>1
  <2>5. <<0, 0>> \in Motion /\ <<0, 0>> \in Small
    BY DEF Motion, Small
  <2>6. mouse' \in MouseType
    BY <1>1, <2>3, <2>4, <2>5 DEF MouseType
  <2>7. SmallSent' /\ (PointerOnScreen => PointerOnScreen')
    <3>1. mouse'.sent \in {mouse.sent, <<0, 0>>} /\ mouse'.y = to /\ mouse'.x = mouse.x
      BY <2>4
    <3>2. Gentle' = Gentle /\ (mouse.sent \in Small => mouse.sent[2] \in -127 .. 127)
      BY <2>1 DEF Gentle, Small
    <3>3. SmallSent'
      BY <2>5, <3>1, <3>2 DEF SmallSent
    <3>4. ASSUME PointerOnScreen, Gentle' PROVE PointerIsKept'
      BY <2>3, <3>1, <3>2, <3>4 DEF SmallSent, PointerOnScreen, PointerIsKept
    <3>5. QED
      BY <3>3, <3>4 DEF PointerOnScreen
  <2>8. QED
    BY <1>1, <2>1, <2>4, <2>6, <2>7 DEF Signed
<1>6. QED
  BY <1>3, <1>4, <1>5 DEF MouseByte

-----------------------------------------------------------------------------
(* A set of numbers that is not empty has a least one. *)
LEMMA LeastNumber ==
  ASSUME NEW S \in SUBSET Nat, S # {}
  PROVE  \E x \in S : \A y \in S : x <= y
<1>1. PICK x \in S : \A y \in S : ~ (<<y, x>> \in OpToRel(<, Nat))
  BY WFMin, NatLessThanWellFounded
<1>2. \A y \in S : ~ (y < x)
  BY <1>1 DEF OpToRel
<1>3. QED
  BY <1>2

(* The last cell is always empty: what moves up from it is nothing. *)
LastEmpty == board.storage[CacheLimit + 1] = NoKey

(* A key goes into the first entry that is free, if there is one. *)
Placed(key) ==
  \/ /\ \A c \in 1 .. CacheLimit : board.storage[c] # NoKey
     /\ board'.storage = board.storage
  \/ \E c \in 1 .. CacheLimit :
       /\ board.storage[c] = NoKey
       /\ \A d \in 1 .. CacheLimit : d < c => board.storage[d] # NoKey
       /\ board'.storage = [board.storage EXCEPT ![c] = key]

LEMMA InsertedPlaces ==
  ASSUME InputTypes, NEW key,
         board'.storage = Inserted(board.storage, key)
  PROVE  Placed(key)
<1> DEFINE free == {c \in 1 .. CacheLimit : board.storage[c] = NoKey}
<1>1. CASE free = {}
  BY <1>1 DEF Inserted, Placed
<1>2. CASE free # {}
  <2>1. free \in SUBSET Nat
    BY CacheHolds
  <2> DEFINE first == CHOOSE c \in free : \A x \in free : c <= x
  <2>2. \E c \in free : \A x \in free : c <= x
    <3> HIDE DEF free
    <3>1. QED
      BY <1>2, <2>1, LeastNumber
  <2>3. first \in free /\ \A x \in free : first <= x
    BY <2>2
  <2>4. board'.storage = [board.storage EXCEPT ![first] = key]
    BY <1>2 DEF Inserted
  <2> HIDE DEF first
  <2>5. /\ first \in 1 .. CacheLimit /\ board.storage[first] = NoKey
        /\ \A d \in 1 .. CacheLimit : d < first => board.storage[d] # NoKey
    BY <2>3, CacheHolds
  <2>6. QED
    BY <2>4, <2>5 DEF Placed
<1>3. QED
  BY <1>1, <1>2

(* What a byte of the keyboard does to the buffer.                         *)
LEMMA KeyComes ==
  ASSUME InputTypes, KeyByte
  PROVE  /\ user' \in UserType /\ user'.apart = user.apart
         /\ board' \in BoardType
         /\ \/ typed' = typed /\ board'.storage = board.storage
            \/ \E key \in Key : typed' = Append(typed, key) /\ Placed(key)
<1>1. /\ user \in UserType /\ board \in BoardType
      /\ user.keys \in Nat /\ user.scan \in SUBSET STRING
      /\ user.prefixes \in SUBSET {"0xE0", "0xE1"}
      /\ board.storage \in [Cell -> Key \union {NoKey}] /\ board.matrix \in BOOLEAN
      /\ CacheLimit \in Nat \ {0} /\ 1 .. CacheLimit \subseteq Cell
  BY CacheHolds DEF InputTypes, UserType, BoardType, Cell
<1>2. user' \in UserType /\ user'.apart = user.apart
  <2>1. user.keys > 0 /\ user' = [user EXCEPT !.keys = @ - 1]
    BY DEF KeyByte
  <2>2. QED
    BY <1>1, <2>1 DEF UserType
<1>3. board = [storage |-> board.storage, matrix |-> board.matrix,
               scancode |-> board.scancode]
  BY <1>1 DEF BoardType
<1>4. CASE \E prefix \in user.prefixes :
             /\ board' = [board EXCEPT !.scancode = prefix]
             /\ UNCHANGED typed
  <2>1. PICK prefix \in user.prefixes : board' = [board EXCEPT !.scancode = prefix]
    BY <1>4
  <2>2. board' = [storage |-> board.storage, matrix |-> board.matrix,
                  scancode |-> prefix]
    BY <1>3, <2>1
  <2>3. board' \in BoardType
    BY <1>1, <2>2 DEF BoardType
  <2>4. QED
    BY <1>2, <1>4, <2>2, <2>3
<1>5. CASE \E scan \in user.scan, press \in BOOLEAN : Compose(scan, press)
  <2>1. PICK scan \in user.scan, press \in BOOLEAN : Compose(scan, press)
    BY <1>5
  <2> DEFINE code == CASE board.scancode = "0xE0" -> Extended(scan)
                       [] board.scancode = "0xE1" -> "extended"
                       [] OTHER -> Code(scan)
             key  == IF code = "none" /\ press THEN NoKey ELSE <<code, press>>
             turn == IF Toggles(code, press) THEN ~ board.matrix ELSE board.matrix
  <2>2. scan \in STRING
    BY <1>1
  <2>3. code \in STRING \union {"A", "|", "extended"}
    <3>1. Extended(scan) \in STRING \union {"extended"}
      BY <2>2 DEF Extended
    <3>2. Code(scan) \in STRING \union {"A", "|"}
      BY <2>2 DEF Code
    <3>3. CASE board.scancode = "0xE0"
      BY <3>1, <3>3
    <3>4. CASE board.scancode = "0xE1"
      BY <3>4
    <3>5. CASE board.scancode # "0xE0" /\ board.scancode # "0xE1"
      BY <3>2, <3>5
    <3>6. QED
      BY <3>3, <3>4, <3>5
  <2>4. turn \in BOOLEAN
    BY <1>1
  <2>5. /\ board' = [board EXCEPT !.scancode = "none", !.matrix = turn,
                                  !.storage = Inserted(@, key)]
        /\ typed' = IF key = NoKey THEN typed ELSE Append(typed, key)
    BY <2>1 DEF Compose
  <2> HIDE DEF turn
  <2>6. key \in Key \union {NoKey}
    BY <2>3 DEF Key
  <2> HIDE DEF code, key
  <2>7. board' = [storage |-> Inserted(board.storage, key), matrix |-> turn,
                  scancode |-> "none"]
    BY <1>3, <2>5
  <2>8. Placed(key)
    BY <2>7, InsertedPlaces
  <2>9. board'.storage \in [Cell -> Key \union {NoKey}]
    BY <1>1, <2>6, <2>8 DEF Placed
  <2>10. board' \in BoardType
    BY <2>4, <2>7, <2>9 DEF BoardType
  <2>11. CASE key = NoKey
    <3>1. board'.storage = board.storage
      BY <1>1, <2>8, <2>11 DEF Placed
    <3>2. QED
      BY <1>2, <2>5, <2>10, <2>11, <3>1
  <2>12. CASE key # NoKey
    BY <1>2, <2>5, <2>6, <2>8, <2>10, <2>12
  <2>13. QED
    BY <2>11, <2>12
<1>6. QED
  BY <1>4, <1>5 DEF KeyByte

(* The types are kept.                                                     *)
LEMMA InputTypesStep ==
  ASSUME InputTypes, Signed, SmallSent, LastEmpty, InputStep
  PROVE  /\ InputTypes' /\ Signed' /\ LastEmpty'
         /\ user'.apart = user.apart
<1> USE CacheHolds
<1>1. /\ user \in UserType /\ board \in BoardType /\ reader \in ReaderType
      /\ board.storage \in [Cell -> Key \union {NoKey}]
      /\ reader.i \in 1 .. CacheLimit /\ reader.key \in Key \union {NoKey}
      /\ reader.next \in Key \union {NoKey}
      /\ typed \in Seq(Key) /\ read \in Seq(Key)
      /\ reader.i \in Cell /\ reader.i + 1 \in Cell
      /\ 1 \in Cell /\ CacheLimit + 1 \in Cell
  BY DEF InputTypes, UserType, BoardType, ReaderType, Cell
<1>2. \A key \in Key \union {NoKey} : HandedOut(key) \in Seq(Key)
  BY <1>1 DEF HandedOut
<1>3. CASE MouseByte
  <2>1. /\ user' \in UserType /\ mouse' \in MouseType /\ Signed'
        /\ user'.apart = user.apart
    BY <1>3, MouseMoves
  <2>2. board' = board /\ reader' = reader /\ typed' = typed /\ read' = read
    BY <1>3 DEF MouseByte
  <2>3. QED
    BY <2>1, <2>2 DEF InputTypes, LastEmpty
<1>4. CASE KeyByte
  <2>1. /\ user' \in UserType /\ user'.apart = user.apart /\ board' \in BoardType
        /\ \/ typed' = typed /\ board'.storage = board.storage
           \/ \E key \in Key : typed' = Append(typed, key) /\ Placed(key)
    BY <1>4, KeyComes
  <2>2. mouse' = mouse /\ reader' = reader /\ read' = read
    BY <1>4 DEF KeyByte
  <2>3. typed' \in Seq(Key)
    BY <1>1, <2>1
  <2>4. LastEmpty'
    <3>1. ASSUME NEW key, Placed(key) PROVE board'.storage[CacheLimit + 1] = NoKey
      <4>1. CASE board'.storage = board.storage
        BY <4>1 DEF LastEmpty
      <4>2. ASSUME NEW c \in 1 .. CacheLimit,
                   board'.storage = [board.storage EXCEPT ![c] = key]
            PROVE  board'.storage[CacheLimit + 1] = NoKey
        <5>1. CacheLimit + 1 # c /\ CacheLimit + 1 \in DOMAIN board.storage
          BY <1>1
        <5>2. QED
          BY <4>2, <5>1 DEF LastEmpty
      <4>3. QED
        BY <3>1, <4>1, <4>2 DEF Placed
    <3>2. QED
      BY <2>1, <3>1 DEF LastEmpty
  <2>5. QED
    BY <2>1, <2>2, <2>3, <2>4 DEF InputTypes, Signed
<1>5. CASE KeyFetch
  <2>1. reader' \in ReaderType
    <3>1. reader' = [reader EXCEPT !.pc = "load", !.i = 1, !.key = board.storage[1]]
      BY <1>5 DEF KeyFetch
    <3>2. board.storage[1] \in Key \union {NoKey} /\ 1 \in 1 .. CacheLimit
      BY <1>1
    <3>3. QED
      BY <1>1, <3>1, <3>2 DEF ReaderType
  <2>2. QED
    BY <1>5, <2>1 DEF KeyFetch, InputTypes, Signed, LastEmpty
<1>6. CASE KeyLoad
  <2>1. reader' \in ReaderType
    <3>1. reader' = [reader EXCEPT !.pc = "store", !.next = board.storage[reader.i + 1]]
      BY <1>6 DEF KeyLoad
    <3>2. board.storage[reader.i + 1] \in Key \union {NoKey}
      BY <1>1
    <3>3. QED
      BY <1>1, <3>1, <3>2 DEF ReaderType
  <2>2. QED
    BY <1>6, <2>1 DEF KeyLoad, InputTypes, Signed, LastEmpty
<1>7. CASE KeyStore
  <2>1. /\ board' = [board EXCEPT !.storage[reader.i] = reader.next]
        /\ reader' = IF reader.i < CacheLimit
                     THEN [reader EXCEPT !.pc = "load", !.i = @ + 1, !.next = NoKey]
                     ELSE [reader EXCEPT !.pc = "done", !.i = 1, !.next = NoKey]
        /\ read' = IF reader.i < CacheLimit THEN read ELSE HandedOut(reader.key)
        /\ user' = user /\ mouse' = mouse /\ typed' = typed
    BY <1>7 DEF KeyStore
  <2>2. board' \in BoardType
    BY <1>1, <2>1 DEF BoardType
  <2>3. reader' \in ReaderType
    <3>1. reader.i < CacheLimit => reader.i + 1 \in 1 .. CacheLimit
      BY <1>1
    <3>2. 1 \in 1 .. CacheLimit
      OBVIOUS
    <3>3. CASE reader.i < CacheLimit
      BY <1>1, <2>1, <3>1, <3>3 DEF ReaderType
    <3>4. CASE ~ (reader.i < CacheLimit)
      <4>1. reader' = [reader EXCEPT !.pc = "done", !.i = 1, !.next = NoKey]
        BY <2>1, <3>4
      <4>2. QED
        BY <1>1, <3>2, <4>1 DEF ReaderType
    <3>5. QED
      BY <3>3, <3>4
  <2>4. read' \in Seq(Key)
    BY <1>1, <1>2, <2>1
  <2>5. LastEmpty'
    BY <1>1, <2>1 DEF LastEmpty, BoardType
  <2>6. QED
    BY <2>1, <2>2, <2>3, <2>4, <2>5 DEF InputTypes, Signed
<1>8. CASE KeyRead
  <2>1. user' = user /\ mouse' = mouse /\ typed' = typed
    BY <1>8 DEF KeyRead
  <2>2. CASE user.apart
    <3>1. /\ reader' = [reader EXCEPT !.pc = "idle", !.key = NoKey]
          /\ board' = board /\ read' = read
      BY <1>8, <2>2 DEF KeyRead, KeyReturn
    <3>2. reader' \in ReaderType
      <4>1. reader = [pc |-> reader.pc, i |-> reader.i, key |-> reader.key,
                      next |-> reader.next]
        BY <1>1 DEF ReaderType
      <4>2. reader' = [pc |-> "idle", i |-> reader.i, key |-> NoKey,
                       next |-> reader.next]
        BY <3>1, <4>1
      <4>3. QED
        BY <1>1, <4>2 DEF ReaderType
    <3>3. QED
      BY <2>1, <3>1, <3>2 DEF InputTypes, Signed, LastEmpty
  <2>3. CASE ~ user.apart
    <3> DEFINE up == [c \in Cell |-> board.storage[IF c <= CacheLimit THEN c + 1 ELSE c]]
    <3>1. /\ board' = [board EXCEPT !.storage = up]
          /\ read' = HandedOut(board.storage[1]) /\ reader' = reader
      BY <1>8, <2>3 DEF KeyRead, KeyReturn
    <3>2. up \in [Cell -> Key \union {NoKey}]
      BY <1>1 DEF Cell
    <3>3. up[CacheLimit + 1] = NoKey
      BY <1>1 DEF LastEmpty
    <3> HIDE DEF up
    <3>4. board' \in BoardType /\ LastEmpty'
      BY <1>1, <3>1, <3>2, <3>3 DEF BoardType, LastEmpty
    <3>5. read' \in Seq(Key)
      BY <1>1, <1>2, <3>1
    <3>6. QED
      BY <2>1, <3>1, <3>4, <3>5 DEF InputTypes, Signed
  <2>4. QED
    BY <2>2, <2>3
<1>9. CASE Drawing
  <2>1. PICK n \in Nat : user' = [user EXCEPT !.draws = n]
    BY <1>9 DEF Drawing
  <2>2. user' \in UserType /\ user'.apart = user.apart
    BY <1>1, <2>1 DEF UserType
  <2>3. QED
    BY <1>9, <2>2 DEF Drawing, InputTypes, Signed, LastEmpty
<1>10. CASE UNCHANGED input
  BY <1>10 DEF input, InputTypes, Signed, LastEmpty
<1>11. QED
  BY <1>3, <1>4, <1>5, <1>6, <1>7, <1>8, <1>9, <1>10 DEF InputStep, InputNext, Interrupt

(* Only bytes of the mouse move the pointer. *)
LEMMA PointerStep ==
  ASSUME InputTypes, Signed, SmallSent, PointerOnScreen, InputStep
  PROVE  SmallSent' /\ PointerOnScreen'
<1>1. CASE MouseByte
  BY <1>1, MouseMoves
<1>2. ASSUME mouse' = mouse, user'.motion = user.motion
      PROVE  SmallSent' /\ PointerOnScreen'
  BY <1>2 DEF SmallSent, PointerOnScreen, PointerIsKept, Gentle
<1>3. user \in UserType
  BY DEF InputTypes
<1>4. CASE KeyByte
  BY <1>2, <1>3, <1>4 DEF KeyByte, UserType
<1>5. CASE KeyFetch \/ KeyLoad \/ KeyStore \/ KeyRead \/ UNCHANGED input
  BY <1>2, <1>5 DEF KeyFetch, KeyLoad, KeyStore, KeyRead, input
<1>6. CASE Drawing
  BY <1>2, <1>3, <1>6 DEF Drawing, UserType
<1>7. QED
  BY <1>1, <1>4, <1>5, <1>6 DEF InputStep, InputNext, Interrupt

-----------------------------------------------------------------------------
(* The first n entries hold keys, the others none; f chooses, of the keys  *)
(* typed, those that were read and then those in the buffer.               *)
Ordered(n, f) ==
  /\ \A c \in Cell : board.storage[c] # NoKey <=> c <= n
  /\ f \in [1 .. Len(read) + n -> 1 .. Len(typed)]
  /\ \A i, j \in 1 .. Len(read) + n : i < j => f[i] < f[j]
  /\ \A i \in 1 .. Len(read) : read[i] = typed[f[i]]
  /\ \A c \in 1 .. n : board.storage[c] = typed[f[Len(read) + c]]

Order ==
  ~ user.apart =>
    /\ reader.pc = "idle"
    /\ \E n \in 0 .. CacheLimit : \E f : Ordered(n, f)

LEMMA OrderInit == InputInit => Order
<1> SUFFICES ASSUME InputInit PROVE \E n \in 0 .. CacheLimit : \E f : Ordered(n, f)
  BY DEF InputInit, Order
<1> DEFINE f == [i \in 1 .. 0 |-> 0]
<1>1. Ordered(0, f)
  <2>1. /\ Len(read) = 0 /\ Len(typed) = 0
        /\ \A c \in Cell : board.storage[c] = NoKey /\ ~ (c <= 0)
    BY CacheHolds DEF InputInit, Cell
  <2>2. f \in [1 .. Len(read) + 0 -> 1 .. Len(typed)]
    BY <2>1
  <2>3. QED
    BY <2>1, <2>2 DEF Ordered
<1>2. QED
  BY <1>1, CacheHolds

LEMMA KeyIsSome == \A key \in Key : key # NoKey
BY DEF Key, NoKey

LEMMA AppendedKey ==
  ASSUME NEW s \in Seq(Key), NEW key \in Key
  PROVE  /\ Len(s) \in Nat /\ Len(Append(s, key)) = Len(s) + 1
         /\ Append(s, key)[Len(s) + 1] = key
         /\ \A i \in 1 .. Len(s) : Append(s, key)[i] = s[i]
OBVIOUS

(* A key that is typed is put behind the others, or lost.                  *)
LEMMA TypedIsLast ==
  ASSUME InputTypes, LastEmpty, NEW n \in 0 .. CacheLimit, NEW f, Ordered(n, f),
         NEW key \in Key, typed' = Append(typed, key), Placed(key), read' = read
  PROVE  \E m \in 0 .. CacheLimit : \E g : Ordered(m, g)'
<1> DEFINE r == Len(read)
           t == Len(typed)
<1>1. r \in Nat /\ t \in Nat /\ CacheLimit \in Nat \ {0} /\ n \in Nat
  <2>1. typed \in Seq(Key) /\ read \in Seq(Key)
    BY DEF InputTypes
  <2>2. QED
    BY <2>1, CacheHolds
<1>2. /\ Len(typed') = t + 1 /\ typed'[t + 1] = key
      /\ \A i \in 1 .. t : typed'[i] = typed[i]
  BY AppendedKey DEF InputTypes
<1>3. f \in [1 .. r + n -> 1 .. t]
  BY DEF Ordered
<1>4. \A i, j \in 1 .. r + n : i < j => f[i] < f[j]
  BY DEF Ordered
<1>5. \A i \in 1 .. r : i \in 1 .. r + n /\ read[i] = typed[f[i]]
  BY <1>1 DEF Ordered
<1>6. \A c \in 1 .. n : r + c \in 1 .. r + n /\ board.storage[c] = typed[f[r + c]]
  <2>1. \A c \in 1 .. n : r + c \in 1 .. r + n
    BY <1>1
  <2>2. \A c \in 1 .. n : board.storage[c] = typed[f[r + c]]
    BY DEF Ordered
  <2>3. QED
    BY <2>1, <2>2
<1>7. \A c \in Cell : board.storage[c] # NoKey <=> c <= n
  BY DEF Ordered
<1>8. \A c \in Cell : c \in Nat \ {0} /\ c <= CacheLimit + 1
  BY <1>1 DEF Cell
<1>9. read' = read /\ Len(read') = r
  OBVIOUS
<1>10. CASE board'.storage = board.storage
  <2>1. f \in [1 .. r + n -> 1 .. Len(typed')]
    BY <1>1, <1>2, <1>3
  <2>2. \A i \in 1 .. r + n : typed'[f[i]] = typed[f[i]]
    BY <1>2, <1>3
  <2>3. \A i \in 1 .. r : read[i] = typed'[f[i]]
    BY <1>5, <2>2
  <2>4. \A c \in 1 .. n : board'.storage[c] = typed'[f[r + c]]
    BY <1>6, <1>10, <2>2
  <2>5. Ordered(n, f)'
    BY <1>4, <1>7, <1>9, <1>10, <2>1, <2>3, <2>4 DEF Ordered
  <2>6. QED
    BY <2>5
<1>11. ASSUME NEW c \in 1 .. CacheLimit,
              board.storage[c] = NoKey,
              \A d \in 1 .. CacheLimit : d < c => board.storage[d] # NoKey,
              board'.storage = [board.storage EXCEPT ![c] = key]
       PROVE  \E m \in 0 .. CacheLimit : \E g : Ordered(m, g)'
  <2>1. c = n + 1
    <3>1. c \in Cell /\ c \in Nat /\ ~ (c <= n)
      BY <1>1, <1>7, <1>11 DEF Cell
    <3>2. CASE c = 1
      BY <1>1, <3>1, <3>2
    <3>3. CASE c # 1
      <4>1. c - 1 \in 1 .. CacheLimit /\ c - 1 < c /\ c - 1 \in Cell
        BY <1>1, <3>3 DEF Cell
      <4>2. c - 1 <= n
        BY <1>7, <1>11, <4>1
      <4>3. QED
        BY <1>1, <3>1, <4>2
    <3>4. QED
      BY <3>2, <3>3
  <2> DEFINE last == r + n + 1
  <2>0. PICK g : g = [i \in 1 .. last |-> IF i = last THEN t + 1 ELSE f[i]]
    OBVIOUS
  <2>2. /\ last \in Nat /\ r + (n + 1) = last /\ last \in 1 .. last
        /\ \A i \in 1 .. last : i # last => i \in 1 .. r + n
        /\ \A i \in 1 .. r + n : i \in 1 .. last /\ i # last
    BY <1>1
  <2>3. \A i \in 1 .. r + n : f[i] \in 1 .. t
    BY <1>3
  <2>4. g[last] = t + 1 /\ \A i \in 1 .. r + n : g[i] = f[i]
    BY <2>2, <2>0
  <2>5. g \in [1 .. last -> 1 .. t + 1]
    <3>1. \A i \in 1 .. last : g[i] \in 1 .. t + 1
      <4> SUFFICES ASSUME NEW i \in 1 .. last PROVE g[i] \in 1 .. t + 1
        OBVIOUS
      <4>1. CASE i = last
        BY <1>1, <2>4, <4>1
      <4>2. CASE i # last
        <5>1. g[i] = f[i] /\ f[i] \in 1 .. t
          BY <2>2, <2>3, <2>4, <4>2
        <5>2. QED
          BY <1>1, <5>1
      <4>3. QED
        BY <4>1, <4>2
    <3>2. QED
      BY <2>0, <3>1
  <2>6. \A i, j \in 1 .. last : i < j => g[i] < g[j]
    <3> SUFFICES ASSUME NEW i \in 1 .. last, NEW j \in 1 .. last, i < j
                 PROVE  g[i] < g[j]
      OBVIOUS
    <3>1. i \in 1 .. r + n
      BY <1>1
    <3>2. CASE j = last
      BY <1>1, <2>3, <2>4, <3>1, <3>2
    <3>3. CASE j # last
      BY <1>4, <2>2, <2>4, <3>1, <3>3
    <3>4. QED
      BY <3>2, <3>3
  <2>7. \A i \in 1 .. r + n : typed'[g[i]] = typed[f[i]]
    BY <1>2, <2>3, <2>4
  <2>8. \A i \in 1 .. r : read[i] = typed'[g[i]]
    BY <1>5, <2>7
  <2>9. board'.storage[c] = key /\ \A d \in Cell : d # c => board'.storage[d] = board.storage[d]
    <3>1. board.storage \in [Cell -> Key \union {NoKey}] /\ c \in Cell
      BY <1>1 DEF InputTypes, BoardType, Cell
    <3>2. QED
      BY <1>11, <3>1
  <2>10. \A d \in 1 .. n + 1 : board'.storage[d] = typed'[g[r + d]]
    <3> SUFFICES ASSUME NEW d \in 1 .. n + 1 PROVE board'.storage[d] = typed'[g[r + d]]
      OBVIOUS
    <3>1. CASE d = n + 1
      BY <1>1, <1>2, <2>1, <2>2, <2>4, <2>9, <3>1
    <3>2. CASE d # n + 1
      <4>1. d \in 1 .. n /\ d \in Cell /\ d # c
        BY <1>1, <2>1, <3>2 DEF Cell
      <4>2. QED
        BY <1>6, <2>7, <2>9, <4>1
    <3>3. QED
      BY <3>1, <3>2
  <2>11. \A d \in Cell : board'.storage[d] # NoKey <=> d <= n + 1
    <3> SUFFICES ASSUME NEW d \in Cell PROVE board'.storage[d] # NoKey <=> d <= n + 1
      OBVIOUS
    <3>1. CASE d = c
      BY <1>1, <2>1, <2>9, <3>1, KeyIsSome
    <3>2. CASE d # c
      BY <1>1, <1>7, <1>8, <2>1, <2>9, <3>2
    <3>3. QED
      BY <3>1, <3>2
  <2>12. n + 1 \in 0 .. CacheLimit
    BY <1>1, <2>1
  <2>13. Ordered(n + 1, g)'
    <3>1. Len(read') + (n + 1) = last
      BY <1>9, <2>2
    <3>2. g \in [1 .. Len(read') + (n + 1) -> 1 .. Len(typed')]
      BY <1>2, <2>5, <3>1
    <3>3. \A i, j \in 1 .. Len(read') + (n + 1) : i < j => g[i] < g[j]
      BY <2>6, <3>1
    <3>4. \A i \in 1 .. Len(read') : read'[i] = typed'[g[i]]
      BY <1>9, <2>8
    <3>5. \A d \in 1 .. n + 1 : board'.storage[d] = typed'[g[Len(read') + d]]
      BY <1>9, <2>10
    <3>6. QED
      BY <2>11, <3>2, <3>3, <3>4, <3>5 DEF Ordered
  <2>14. QED
    BY <2>12, <2>13
<1>12. QED
  BY <1>10, <1>11 DEF Placed

(* The first key of the buffer goes behind those that were read.           *)
LEMMA FirstIsRead ==
  ASSUME InputTypes, LastEmpty, NEW n \in 0 .. CacheLimit, NEW f, Ordered(n, f),
         typed' = typed, read' = HandedOut(board.storage[1]),
         board'.storage =
           [c \in Cell |-> board.storage[IF c <= CacheLimit THEN c + 1 ELSE c]]
  PROVE  \E m \in 0 .. CacheLimit : Ordered(m, f)'
<1> DEFINE r == Len(read)
<1>1. read \in Seq(Key) /\ r \in Nat /\ n \in Nat /\ CacheLimit \in Nat \ {0}
  BY CacheHolds DEF InputTypes
<1>2. /\ CacheLimit + 1 \in Cell /\ 1 \in Cell
      /\ \A c \in 1 .. CacheLimit : c \in Cell /\ c + 1 \in Cell
      /\ \A c \in Cell : c \in Nat /\ (c \in 1 .. CacheLimit \/ c = CacheLimit + 1)
  BY <1>1 DEF Cell
<1>3. f \in [1 .. r + n -> 1 .. Len(typed)]
  BY DEF Ordered
<1>4. \A i, j \in 1 .. r + n : i < j => f[i] < f[j]
  BY DEF Ordered
<1>5. \A i \in 1 .. r : read[i] = typed[f[i]]
  BY DEF Ordered
<1>6. \A c \in 1 .. n : board.storage[c] = typed[f[r + c]]
  BY DEF Ordered
<1>7. \A c \in Cell : board.storage[c] # NoKey <=> c <= n
  BY DEF Ordered
<1>8. \A c \in 1 .. CacheLimit : board'.storage[c] = board.storage[c + 1]
  BY <1>1, <1>2
<1>9. board'.storage[CacheLimit + 1] = NoKey
  <2>1. board'.storage[CacheLimit + 1] = board.storage[CacheLimit + 1]
    BY <1>1, <1>2
  <2>2. QED
    BY <2>1 DEF LastEmpty
<1>10. CASE n = 0
  <2>1. read' = read
    BY <1>1, <1>2, <1>7, <1>10 DEF HandedOut
  <2>2. \A c \in Cell : board'.storage[c] # NoKey <=> c <= 0
    <3> SUFFICES ASSUME NEW c \in Cell PROVE board'.storage[c] = NoKey /\ ~ (c <= 0)
      OBVIOUS
    <3>1. CASE c = CacheLimit + 1
      BY <1>1, <1>9, <3>1
    <3>2. CASE c \in 1 .. CacheLimit
      <4>1. ~ (c + 1 <= 0) /\ ~ (c <= 0)
        BY <1>1, <3>2
      <4>2. QED
        BY <1>2, <1>7, <1>8, <1>10, <3>2, <4>1
    <3>3. QED
      BY <1>2, <3>1, <3>2
  <2>3. Ordered(0, f)'
    BY <1>1, <1>3, <1>4, <1>5, <1>10, <2>1, <2>2 DEF Ordered
  <2>4. QED
    BY <1>10, <2>3
<1>11. CASE n > 0
  <2>1. board.storage[1] # NoKey
    BY <1>1, <1>2, <1>7, <1>11
  <2>2. board.storage[1] \in Key
    BY <1>2, <2>1 DEF InputTypes, BoardType
  <2>3. read' = Append(read, board.storage[1])
    BY <2>1 DEF HandedOut
  <2>4. /\ Len(read') = r + 1 /\ read'[r + 1] = board.storage[1]
        /\ \A i \in 1 .. r : read'[i] = read[i]
    BY <1>1, <2>2, <2>3, AppendedKey
  <2>5. r + 1 + (n - 1) = r + n /\ n - 1 \in 0 .. CacheLimit /\ 1 \in 1 .. n
    BY <1>1, <1>11
  <2>6. \A i \in 1 .. r + 1 : read'[i] = typed[f[i]]
    <3> SUFFICES ASSUME NEW i \in 1 .. r + 1 PROVE read'[i] = typed[f[i]]
      OBVIOUS
    <3>1. CASE i = r + 1
      BY <1>6, <2>4, <2>5, <3>1
    <3>2. CASE i # r + 1
      <4>1. i \in 1 .. r
        BY <1>1, <3>2
      <4>2. QED
        BY <1>5, <2>4, <4>1
    <3>3. QED
      BY <3>1, <3>2
  <2>7. \A c \in Cell : board'.storage[c] # NoKey <=> c <= n - 1
    <3> SUFFICES ASSUME NEW c \in Cell
                 PROVE  board'.storage[c] # NoKey <=> c <= n - 1
      OBVIOUS
    <3>1. CASE c = CacheLimit + 1
      BY <1>1, <1>9, <3>1
    <3>2. CASE c \in 1 .. CacheLimit
      <4>1. board'.storage[c] # NoKey <=> c + 1 <= n
        BY <1>2, <1>7, <1>8, <3>2
      <4>2. QED
        BY <1>1, <3>2, <4>1
    <3>3. QED
      BY <1>2, <3>1, <3>2
  <2>8. \A c \in 1 .. n - 1 : board'.storage[c] = typed[f[r + 1 + c]]
    <3> SUFFICES ASSUME NEW c \in 1 .. n - 1
                 PROVE  board'.storage[c] = typed[f[r + 1 + c]]
      OBVIOUS
    <3>1. c \in 1 .. CacheLimit /\ c + 1 \in 1 .. n /\ r + 1 + c = r + (c + 1)
      BY <1>1
    <3>2. QED
      BY <1>6, <1>8, <3>1
  <2>9. Ordered(n - 1, f)'
    BY <1>3, <1>4, <2>4, <2>5, <2>6, <2>7, <2>8 DEF Ordered
  <2>10. QED
    BY <2>5, <2>9
<1>12. QED
  BY <1>1, <1>10, <1>11

LEMMA OrderStep ==
  ASSUME InputTypes, Signed, SmallSent, LastEmpty, Order, InputStep
  PROVE  Order'
<1>1. user'.apart = user.apart
  BY InputTypesStep
<1> SUFFICES ASSUME ~ user.apart
             PROVE  /\ reader'.pc = "idle"
                    /\ \E m \in 0 .. CacheLimit : \E g : Ordered(m, g)'
  BY <1>1 DEF Order
<1>2. PICK n \in 0 .. CacheLimit : \E f : Ordered(n, f)
  BY DEF Order
<1>3. PICK f : Ordered(n, f)
  BY <1>2
<1>4. reader.pc = "idle"
  BY DEF Order
<1>5. CASE /\ reader' = reader /\ read' = read /\ typed' = typed
           /\ board'.storage = board.storage
  <2>1. Ordered(n, f)'
    BY <1>3, <1>5 DEF Ordered
  <2>2. QED
    BY <1>4, <1>5, <2>1
<1>6. CASE KeyByte
  <2>1. reader' = reader /\ read' = read
    BY <1>6 DEF KeyByte
  <2>2. \/ typed' = typed /\ board'.storage = board.storage
        \/ \E key \in Key : typed' = Append(typed, key) /\ Placed(key)
    BY <1>6, KeyComes
  <2>3. ASSUME NEW key \in Key, typed' = Append(typed, key), Placed(key)
        PROVE  \E m \in 0 .. CacheLimit : \E g : Ordered(m, g)'
    BY <1>3, <2>1, <2>3, TypedIsLast
  <2>4. QED
    BY <1>4, <1>5, <2>1, <2>2, <2>3
<1>7. CASE KeyRead
  <2>1. /\ typed' = typed /\ reader' = reader
        /\ read' = HandedOut(board.storage[1])
        /\ board' = [board EXCEPT !.storage =
             [c \in Cell |-> board.storage[IF c <= CacheLimit THEN c + 1 ELSE c]]]
    BY <1>7 DEF KeyRead, KeyReturn
  <2>2. board'.storage =
          [c \in Cell |-> board.storage[IF c <= CacheLimit THEN c + 1 ELSE c]]
    BY <2>1 DEF InputTypes, BoardType
  <2>3. \E m \in 0 .. CacheLimit : Ordered(m, f)'
    BY <1>3, <2>1, <2>2, FirstIsRead
  <2>4. QED
    BY <1>4, <2>1, <2>3
<1>8. CASE KeyFetch \/ KeyLoad \/ KeyStore
  BY <1>4, <1>8 DEF KeyFetch, KeyLoad, KeyStore
<1>9. CASE MouseByte \/ Drawing \/ UNCHANGED input
  BY <1>5, <1>9 DEF MouseByte, Drawing, input
<1>10. QED
  BY <1>6, <1>7, <1>8, <1>9 DEF InputStep, InputNext, Interrupt
-----------------------------------------------------------------------------
(* Where keys are held while the reader has a processor of its own.  The   *)
(* entry it is about to overwrite holds none, nor the one it has loaded.   *)
Spot == {"read", "cell", "hand", "next"} \X Nat

Dead(c) ==
  \/ reader.pc \in {"load", "store"} /\ c = reader.i
  \/ reader.pc = "store" /\ c = reader.i + 1

Holds(p) ==
  \/ p[1] = "read" /\ p[2] \in 1 .. Len(read)
  \/ p[1] = "cell" /\ p[2] \in Cell /\ ~ Dead(p[2]) /\ board.storage[p[2]] # NoKey
  \/ p = <<"hand", 0>> /\ reader.pc \in {"load", "store"} /\ reader.key # NoKey
  \/ p = <<"next", 0>> /\ reader.pc = "store" /\ reader.next # NoKey

Content(p) ==
  CASE p[1] = "read" -> read[p[2]]
    [] p[1] = "cell" -> board.storage[p[2]]
    [] p[1] = "hand" -> reader.key
    [] OTHER         -> reader.next

Held == [p \in {q \in Spot : Holds(q)} |-> Content(p)]

(* f numbers the keys that h holds, each with a number of its own in s.    *)
Numbers(f, h, s) ==
  /\ f \in [DOMAIN h -> 1 .. Len(s)]
  /\ \A p, q \in DOMAIN h : f[p] = f[q] => p = q
  /\ \A p \in DOMAIN h : h[p] = s[f[p]]

Once == user.apart => \E f : Numbers(f, Held, typed)

(* A key that moves keeps its number.                                      *)
LEMMA MovedKeepsNumber ==
  ASSUME NEW h, NEW k, NEW s, NEW f, Numbers(f, h, s),
         NEW m \in [DOMAIN k -> DOMAIN h],
         \A p, q \in DOMAIN k : m[p] = m[q] => p = q,
         \A p \in DOMAIN k : k[p] = h[m[p]]
  PROVE  \E g : Numbers(g, k, s)
<1> DEFINE g == [p \in DOMAIN k |-> f[m[p]]]
<1>1. f \in [DOMAIN h -> 1 .. Len(s)]
  BY DEF Numbers
<1>2. \A p \in DOMAIN k : g[p] = f[m[p]] /\ m[p] \in DOMAIN h /\ g[p] \in 1 .. Len(s)
  BY <1>1
<1>3. g \in [DOMAIN k -> 1 .. Len(s)]
  BY <1>2
<1> HIDE DEF g
<1>4. \A p, q \in DOMAIN k : g[p] = g[q] => p = q
  BY <1>2 DEF Numbers
<1>5. \A p \in DOMAIN k : k[p] = s[g[p]]
  BY <1>2 DEF Numbers
<1>6. Numbers(g, k, s)
  BY <1>3, <1>4, <1>5 DEF Numbers
<1>7. QED
  BY <1>6

(* A key that is typed has a number no other has.                          *)
LEMMA TypedHasNumber ==
  ASSUME NEW h, NEW k, NEW s \in Seq(Key), NEW f, Numbers(f, h, s),
         NEW key \in Key, NEW new,
         \A p \in DOMAIN k : p # new => p \in DOMAIN h /\ k[p] = h[p],
         new \in DOMAIN k => k[new] = key
  PROVE  \E g : Numbers(g, k, Append(s, key))
<1> DEFINE g == [p \in DOMAIN k |-> IF p = new THEN Len(s) + 1 ELSE f[p]]
           t == Append(s, key)
<1>1. /\ Len(s) \in Nat /\ Len(t) = Len(s) + 1 /\ t[Len(s) + 1] = key
      /\ \A i \in 1 .. Len(s) : t[i] = s[i]
  BY AppendedKey
<1>2. /\ f \in [DOMAIN h -> 1 .. Len(s)]
      /\ \A p, q \in DOMAIN h : f[p] = f[q] => p = q
      /\ \A p \in DOMAIN h : h[p] = s[f[p]]
  BY DEF Numbers
<1>3. \A p \in DOMAIN k : p # new => g[p] = f[p] /\ f[p] \in 1 .. Len(s)
  BY <1>2
<1>4. \A p \in DOMAIN k : p = new => g[p] = Len(s) + 1
  OBVIOUS
<1> HIDE DEF t
<1>5. g \in [DOMAIN k -> 1 .. Len(t)]
  <2>1. \A p \in DOMAIN k : (IF p = new THEN Len(s) + 1 ELSE f[p]) \in 1 .. Len(t)
    BY <1>1, <1>2
  <2>2. QED
    BY <2>1
<1> HIDE DEF g
<1>6. \A p, q \in DOMAIN k : g[p] = g[q] => p = q
  <2> SUFFICES ASSUME NEW p \in DOMAIN k, NEW q \in DOMAIN k, g[p] = g[q] PROVE p = q
    OBVIOUS
  <2>1. CASE p = new \/ q = new
    BY <1>1, <1>3, <1>4, <2>1
  <2>2. CASE p # new /\ q # new
    BY <1>2, <1>3, <2>2
  <2>3. QED
    BY <2>1, <2>2
<1>7. \A p \in DOMAIN k : k[p] = t[g[p]]
  <2> SUFFICES ASSUME NEW p \in DOMAIN k PROVE k[p] = t[g[p]]
    OBVIOUS
  <2>1. CASE p = new
    BY <1>1, <1>4, <2>1
  <2>2. CASE p # new
    BY <1>1, <1>2, <1>3, <2>2
  <2>3. QED
    BY <2>1, <2>2
<1>8. Numbers(g, k, t)
  BY <1>5, <1>6, <1>7 DEF Numbers
<1>9. QED
  BY <1>8 DEF t

LEMMA HeldIs ==
  /\ DOMAIN Held = {p \in Spot : Holds(p)}
  /\ \A p \in DOMAIN Held : p \in Spot /\ Holds(p) /\ Held[p] = Content(p)
BY DEF Held

LEMMA HeldBecomes ==
  /\ DOMAIN Held' = {p \in Spot : Holds(p)'}
  /\ \A p \in DOMAIN Held' : p \in Spot /\ Holds(p)' /\ Held'[p] = Content(p)'
BY DEF Held

LEMMA OnceInit == InputInit => Once
<1> SUFFICES ASSUME InputInit PROVE \E f : Numbers(f, Held, typed)
  BY DEF Once
<1>1. Len(read) = 0 /\ reader.pc = "idle" /\ \A c \in Cell : board.storage[c] = NoKey
  BY DEF InputInit
<1>2. \A p \in Spot : ~ Holds(p)
  BY <1>1 DEF Holds
<1>3. DOMAIN Held = {}
  BY <1>2, HeldIs
<1> DEFINE f == [p \in {} |-> 0]
<1>4. Numbers(f, Held, typed)
  BY <1>3 DEF Numbers
<1>5. QED
  BY <1>4

(* To fetch the first key takes it from its entry.                         *)
LEMMA FetchMoves ==
  ASSUME InputTypes, KeyFetch, NEW f, Numbers(f, Held, typed)
  PROVE  \E g : Numbers(g, Held', typed')
<1>1. /\ reader.pc = "idle" /\ board' = board /\ typed' = typed /\ read' = read
      /\ reader' = [reader EXCEPT !.pc = "load", !.i = 1, !.key = board.storage[1]]
  BY DEF KeyFetch
<1>2. reader'.pc = "load" /\ reader'.i = 1 /\ reader'.key = board.storage[1]
  BY <1>1 DEF InputTypes, ReaderType
<1>3. 1 \in Cell
  BY CacheHolds DEF Cell
<1> DEFINE from(p) == IF p = <<"hand", 0>> THEN <<"cell", 1>> ELSE p
<1>4. <<"cell", 1>> \notin DOMAIN Held'
  BY <1>2, HeldBecomes DEF Holds, Dead
<1>5. \A p \in DOMAIN Held' : from(p) \in DOMAIN Held /\ Held'[p] = Held[from(p)]
  <2> SUFFICES ASSUME NEW p \in DOMAIN Held'
               PROVE  from(p) \in DOMAIN Held /\ Held'[p] = Held[from(p)]
    OBVIOUS
  <2>1. p \in Spot /\ Holds(p)' /\ Held'[p] = Content(p)'
    BY HeldBecomes
  <2>2. CASE p[1] = "read" \/ p[1] = "cell"
    <3>1. p # <<"hand", 0>>
      BY <2>2
    <3>2. Holds(p) /\ Content(p)' = Content(p)
      BY <1>1, <1>2, <2>1, <2>2 DEF Holds, Dead, Content
    <3>3. QED
      BY <2>1, <3>1, <3>2, HeldIs
  <2>3. CASE p = <<"hand", 0>>
    <3>1. Holds(<<"cell", 1>>) /\ Content(<<"cell", 1>>) = board.storage[1]
      BY <1>1, <1>2, <1>3, <2>1, <2>3 DEF Holds, Dead, Content
    <3>2. <<"cell", 1>> \in Spot
      BY DEF Spot
    <3>3. Content(p)' = board.storage[1]
      BY <1>2, <2>3 DEF Content
    <3>4. QED
      BY <2>1, <2>3, <3>1, <3>2, <3>3, HeldIs
  <2>4. QED
    BY <1>2, <2>1, <2>2, <2>3 DEF Holds
<1>6. PICK m : m = [p \in DOMAIN Held' |-> from(p)]
  OBVIOUS
<1>7. m \in [DOMAIN Held' -> DOMAIN Held] /\ \A p \in DOMAIN Held' : Held'[p] = Held[m[p]]
  BY <1>5, <1>6
<1>8. \A p, q \in DOMAIN Held' : m[p] = m[q] => p = q
  BY <1>4, <1>6
<1>9. QED
  BY <1>1, <1>7, <1>8, MovedKeepsNumber

(* To load the next one takes it from its entry.                           *)
LEMMA LoadMoves ==
  ASSUME InputTypes, KeyLoad, NEW f, Numbers(f, Held, typed)
  PROVE  \E g : Numbers(g, Held', typed')
<1>1. /\ reader.pc = "load" /\ board' = board /\ typed' = typed /\ read' = read
      /\ reader' = [reader EXCEPT !.pc = "store", !.next = board.storage[reader.i + 1]]
  BY DEF KeyLoad
<1>2. /\ reader'.pc = "store" /\ reader'.next = board.storage[reader.i + 1]
      /\ reader'.i = reader.i /\ reader'.key = reader.key
  BY <1>1 DEF InputTypes, ReaderType
<1>3. reader.i + 1 \in Cell /\ reader.i \in Nat /\ reader.i + 1 # reader.i /\ reader.i + 1 \in Nat
  BY CacheHolds DEF InputTypes, ReaderType, Cell
<1> DEFINE from(p) == IF p = <<"next", 0>> THEN <<"cell", reader.i + 1>> ELSE p
<1>4. <<"cell", reader.i + 1>> \notin DOMAIN Held'
  BY <1>2, HeldBecomes DEF Holds, Dead
<1>5. \A p \in DOMAIN Held' : from(p) \in DOMAIN Held /\ Held'[p] = Held[from(p)]
  <2> SUFFICES ASSUME NEW p \in DOMAIN Held'
               PROVE  from(p) \in DOMAIN Held /\ Held'[p] = Held[from(p)]
    OBVIOUS
  <2>1. p \in Spot /\ Holds(p)' /\ Held'[p] = Content(p)'
    BY HeldBecomes
  <2>2. CASE p[1] = "read" \/ p[1] = "cell" \/ p = <<"hand", 0>>
    <3>1. p # <<"next", 0>>
      BY <2>2
    <3>2. Holds(p) /\ Content(p)' = Content(p)
      BY <1>1, <1>2, <2>1, <2>2 DEF Holds, Dead, Content
    <3>3. QED
      BY <2>1, <3>1, <3>2, HeldIs
  <2>3. CASE p = <<"next", 0>>
    <3>1. /\ Holds(<<"cell", reader.i + 1>>)
          /\ Content(<<"cell", reader.i + 1>>) = board.storage[reader.i + 1]
      BY <1>1, <1>2, <1>3, <2>1, <2>3 DEF Holds, Dead, Content
    <3>2. <<"cell", reader.i + 1>> \in Spot
      BY <1>3 DEF Spot
    <3>3. Content(p)' = board.storage[reader.i + 1]
      BY <1>2, <2>3 DEF Content
    <3>4. QED
      BY <2>1, <2>3, <3>1, <3>2, <3>3, HeldIs
  <2>4. QED
    BY <2>1, <2>2, <2>3 DEF Holds
<1>6. PICK m : m = [p \in DOMAIN Held' |-> from(p)]
  OBVIOUS
<1>7. m \in [DOMAIN Held' -> DOMAIN Held] /\ \A p \in DOMAIN Held' : Held'[p] = Held[m[p]]
  BY <1>5, <1>6
<1>8. \A p, q \in DOMAIN Held' : m[p] = m[q] => p = q
  BY <1>4, <1>6
<1>9. QED
  BY <1>1, <1>7, <1>8, MovedKeepsNumber

(* To store it puts it into the entry before; the key in the hands of the  *)
(* reader is handed out with the last one.                                 *)
LEMMA StoreMoves ==
  ASSUME InputTypes, LastEmpty, KeyStore, NEW f, Numbers(f, Held, typed)
  PROVE  \E g : Numbers(g, Held', typed')
<1> DEFINE i == reader.i
           r == Len(read)
<1>1. /\ i \in 1 .. CacheLimit /\ r \in Nat /\ CacheLimit \in Nat /\ i \in Cell
      /\ read \in Seq(Key) /\ reader.key \in Key \union {NoKey}
      /\ board.storage \in [Cell -> Key \union {NoKey}]
  BY CacheHolds DEF InputTypes, ReaderType, BoardType, Cell
<1>2. reader.pc = "store" /\ typed' = typed
  BY DEF KeyStore
<1>3. /\ board'.storage[i] = reader.next
      /\ \A c \in Cell : c # i => board'.storage[c] = board.storage[c]
  <2>1. board'.storage = [board.storage EXCEPT ![i] = reader.next]
    BY DEF KeyStore, InputTypes, BoardType
  <2>2. QED
    BY <1>1, <2>1
<1>4. \/ i < CacheLimit /\ reader'.pc = "load" /\ reader'.i = i + 1 /\ reader'.key = reader.key
      \/ i = CacheLimit /\ reader'.pc = "done"
  BY <1>1 DEF KeyStore, InputTypes, ReaderType
<1>5. \/ read' = read /\ (i < CacheLimit \/ reader.key = NoKey)
      \/ i = CacheLimit /\ reader.key # NoKey /\ read' = Append(read, reader.key)
  BY <1>1 DEF KeyStore, HandedOut
<1>6. \A n \in 1 .. r : n \in 1 .. Len(read') /\ read'[n] = read[n]
  BY <1>1, <1>5, AppendedKey
<1>7. \A n \in 1 .. Len(read') :
        \/ n \in 1 .. r
        \/ n = r + 1 /\ reader.key # NoKey /\ i = CacheLimit /\ read'[n] = reader.key
  <2>1. CASE read' = read
    BY <2>1
  <2>2. CASE i = CacheLimit /\ reader.key # NoKey /\ read' = Append(read, reader.key)
    BY <1>1, <2>2, AppendedKey
  <2>3. QED
    BY <1>5, <2>1, <2>2
<1> DEFINE from(p) == IF p = <<"cell", i>> THEN <<"next", 0>>
                      ELSE IF p = <<"read", r + 1>> THEN <<"hand", 0>> ELSE p
<1>8. <<"next", 0>> \notin DOMAIN Held'
  BY <1>4, HeldBecomes DEF Holds
<1>9. i = CacheLimit => <<"hand", 0>> \notin DOMAIN Held'
  BY <1>1, <1>4, HeldBecomes DEF Holds
<1>10. \A p \in DOMAIN Held' : from(p) \in DOMAIN Held /\ Held'[p] = Held[from(p)]
  <2> SUFFICES ASSUME NEW p \in DOMAIN Held'
               PROVE  from(p) \in DOMAIN Held /\ Held'[p] = Held[from(p)]
    OBVIOUS
  <2>1. p \in Spot /\ Holds(p)' /\ Held'[p] = Content(p)'
    BY HeldBecomes
  <2>2. p = <<p[1], p[2]>> /\ p[2] \in Nat
    BY <2>1 DEF Spot
  <2>3. CASE p[1] = "read" /\ p[2] \in 1 .. r
    <3>1. from(p) = p
      BY <1>1, <2>3
    <3>2. Holds(p) /\ Content(p)' = Content(p)
      BY <1>6, <2>3 DEF Holds, Content
    <3>3. QED
      BY <2>1, <3>1, <3>2, HeldIs
  <2>4. CASE p[1] = "read" /\ p[2] \notin 1 .. r
    <3>1. p[2] \in 1 .. Len(read')
      BY <2>1, <2>4 DEF Holds
    <3>2. p[2] = r + 1 /\ reader.key # NoKey /\ read'[p[2]] = reader.key
      BY <1>7, <2>4, <3>1
    <3>3. from(p) = <<"hand", 0>>
      BY <2>2, <2>4, <3>2
    <3>4. Holds(<<"hand", 0>>) /\ Content(<<"hand", 0>>) = reader.key /\ <<"hand", 0>> \in Spot
      BY <1>2, <3>2 DEF Holds, Content, Spot
    <3>5. Content(p)' = reader.key
      BY <2>4, <3>2 DEF Content
    <3>6. QED
      BY <2>1, <3>3, <3>4, <3>5, HeldIs
  <2>5. CASE p = <<"cell", i>>
    <3>1. reader.next # NoKey /\ Content(p)' = reader.next
      BY <1>3, <2>1, <2>5 DEF Holds, Content
    <3>2. Holds(<<"next", 0>>) /\ Content(<<"next", 0>>) = reader.next /\ <<"next", 0>> \in Spot
      BY <1>2, <3>1 DEF Holds, Content, Spot
    <3>3. QED
      BY <2>1, <2>5, <3>1, <3>2, HeldIs
  <2>6. CASE p[1] = "cell" /\ p[2] # i
    <3>1. from(p) = p
      BY <2>6
    <3>2. p[2] \in Cell /\ board'.storage[p[2]] # NoKey /\ ~ Dead(p[2])'
      BY <2>1, <2>6 DEF Holds
    <3>3. board.storage[p[2]] = board'.storage[p[2]]
      BY <1>3, <2>6, <3>2
    <3>4. p[2] # i + 1
      <4>1. CASE i < CacheLimit
        BY <1>1, <1>4, <3>2, <4>1 DEF Dead
      <4>2. CASE i = CacheLimit
        BY <3>2, <3>3, <4>2 DEF LastEmpty
      <4>3. QED
        BY <1>4, <4>1, <4>2
    <3>5. Holds(p) /\ Content(p)' = Content(p)
      BY <2>6, <3>2, <3>3, <3>4 DEF Holds, Dead, Content
    <3>6. QED
      BY <2>1, <3>1, <3>5, HeldIs
  <2>7. CASE p = <<"hand", 0>>
    <3>1. from(p) = p /\ i < CacheLimit
      BY <1>4, <1>9, <2>7
    <3>2. Holds(p) /\ Content(p)' = Content(p)
      BY <1>1, <1>2, <1>4, <2>1, <2>7, <3>1 DEF Holds, Content
    <3>3. QED
      BY <2>1, <3>1, <3>2, HeldIs
  <2>8. QED
    BY <1>8, <2>1, <2>2, <2>3, <2>4, <2>5, <2>6, <2>7 DEF Holds
<1>11. PICK m : m = [p \in DOMAIN Held' |-> from(p)]
  OBVIOUS
<1>12. m \in [DOMAIN Held' -> DOMAIN Held] /\ \A p \in DOMAIN Held' : Held'[p] = Held[m[p]]
  BY <1>10, <1>11
<1>13. \A p, q \in DOMAIN Held' : m[p] = m[q] => p = q
  <2>1. <<"read", r + 1>> \in DOMAIN Held' => i = CacheLimit
    <3>1. <<"read", r + 1>> \in DOMAIN Held' => r + 1 \in 1 .. Len(read')
      BY HeldBecomes DEF Holds
    <3>2. QED
      BY <1>1, <1>7, <3>1
  <2>2. QED
    BY <1>8, <1>9, <1>11, <2>1
<1>14. QED
  BY <1>2, <1>12, <1>13, MovedKeepsNumber

(* What is handed out already leaves the hands of the reader.              *)
LEMMA ReturnMoves ==
  ASSUME InputTypes, user.apart, KeyRead, NEW f, Numbers(f, Held, typed)
  PROVE  \E g : Numbers(g, Held', typed')
<1>1. /\ reader.pc = "done" /\ board' = board /\ read' = read /\ typed' = typed
      /\ reader' = [reader EXCEPT !.pc = "idle", !.key = NoKey]
  BY DEF KeyRead, KeyReturn
<1>2. reader'.pc = "idle"
  BY <1>1 DEF InputTypes, ReaderType
<1>3. \A p \in Spot : Holds(p)' => Holds(p) /\ Content(p)' = Content(p)
  BY <1>1, <1>2 DEF Holds, Dead, Content
<1>4. PICK m : m = [p \in DOMAIN Held' |-> p]
  OBVIOUS
<1>5. m \in [DOMAIN Held' -> DOMAIN Held] /\ \A p \in DOMAIN Held' : Held'[p] = Held[m[p]]
  BY <1>3, <1>4, HeldIs, HeldBecomes
<1>6. \A p, q \in DOMAIN Held' : m[p] = m[q] => p = q
  BY <1>4
<1>7. QED
  BY <1>1, <1>5, <1>6, MovedKeepsNumber

(* A key that is typed goes into an entry that held none, or is lost.      *)
LEMMA TypedMoves ==
  ASSUME InputTypes, NEW key \in Key, typed' = Append(typed, key), Placed(key),
         reader' = reader, read' = read, NEW f, Numbers(f, Held, typed)
  PROVE  \E g : Numbers(g, Held', typed')
<1>1. /\ typed \in Seq(Key) /\ board.storage \in [Cell -> Key \union {NoKey}]
      /\ 1 .. CacheLimit \subseteq Cell
  BY CacheHolds DEF InputTypes, BoardType, Cell
<1>2. \A p \in Spot : p[1] # "cell" /\ Holds(p)' => Holds(p) /\ Content(p)' = Content(p)
  BY DEF Holds, Content
<1>3. \A p \in Spot :
        /\ p[1] = "cell" /\ Holds(p)'
        /\ board'.storage[p[2]] = board.storage[p[2]]
        => Holds(p) /\ Content(p)' = Content(p)
  BY DEF Holds, Dead, Content
<1>4. CASE board'.storage = board.storage
  <2>1. \A p \in DOMAIN Held' : p \in DOMAIN Held /\ Held'[p] = Held[p]
    BY <1>2, <1>3, <1>4, HeldIs, HeldBecomes
  <2>2. <<"cell", 0>> \notin DOMAIN Held'
    BY HeldBecomes DEF Holds, Cell
  <2>3. QED
    BY <1>1, <2>1, <2>2, TypedHasNumber
<1>5. ASSUME NEW c \in 1 .. CacheLimit, board'.storage = [board.storage EXCEPT ![c] = key]
      PROVE  \E g : Numbers(g, Held', typed')
  <2>1. /\ board'.storage[c] = key
        /\ \A d \in Cell : d # c => board'.storage[d] = board.storage[d]
    BY <1>1, <1>5
  <2>2. \A p \in DOMAIN Held' : p # <<"cell", c>> => p \in DOMAIN Held /\ Held'[p] = Held[p]
    <3> SUFFICES ASSUME NEW p \in DOMAIN Held', p # <<"cell", c>>
                 PROVE  p \in DOMAIN Held /\ Held'[p] = Held[p]
      OBVIOUS
    <3>1. p \in Spot /\ Holds(p)' /\ Held'[p] = Content(p)'
      BY HeldBecomes
    <3>2. p[1] = "cell" => p[2] \in Cell /\ p[2] # c
      <4>1. p = <<p[1], p[2]>>
        BY <3>1 DEF Spot
      <4>2. QED
        BY <3>1, <4>1 DEF Holds
    <3>3. Holds(p) /\ Content(p)' = Content(p)
      BY <1>2, <1>3, <2>1, <3>1, <3>2
    <3>4. QED
      BY <3>1, <3>3, HeldIs
  <2>3. <<"cell", c>> \in DOMAIN Held' => Held'[<<"cell", c>>] = key
    <3>1. Content(<<"cell", c>>)' = key
      BY <2>1 DEF Content
    <3>2. QED
      BY <3>1, HeldBecomes
  <2>4. QED
    BY <1>1, <2>2, <2>3, TypedHasNumber
<1>6. QED
  BY <1>4, <1>5 DEF Placed

LEMMA OnceStep ==
  ASSUME InputTypes, Signed, SmallSent, LastEmpty, Once, InputStep
  PROVE  Once'
<1>1. user'.apart = user.apart
  BY InputTypesStep
<1> SUFFICES ASSUME user.apart PROVE \E g : Numbers(g, Held', typed')
  BY <1>1 DEF Once
<1>2. PICK f : Numbers(f, Held, typed)
  BY DEF Once
<1>3. CASE /\ reader' = reader /\ read' = read /\ typed' = typed
           /\ board'.storage = board.storage
  <2>1. Held' = Held
    BY <1>3 DEF Held, Holds, Dead, Content
  <2>2. QED
    BY <1>2, <1>3, <2>1
<1>4. CASE KeyByte
  <2>1. reader' = reader /\ read' = read
    BY <1>4 DEF KeyByte
  <2>2. \/ typed' = typed /\ board'.storage = board.storage
        \/ \E key \in Key : typed' = Append(typed, key) /\ Placed(key)
    BY <1>4, KeyComes
  <2>3. QED
    BY <1>2, <1>3, <2>1, <2>2, TypedMoves
<1>5. CASE KeyFetch
  BY <1>2, <1>5, FetchMoves
<1>6. CASE KeyLoad
  BY <1>2, <1>6, LoadMoves
<1>7. CASE KeyStore
  BY <1>2, <1>7, StoreMoves
<1>8. CASE KeyRead
  BY <1>2, <1>8, ReturnMoves
<1>9. CASE MouseByte \/ Drawing \/ UNCHANGED input
  BY <1>3, <1>9 DEF MouseByte, Drawing, input
<1>10. QED
  BY <1>4, <1>5, <1>6, <1>7, <1>8, <1>9 DEF InputStep, InputNext, Interrupt

-----------------------------------------------------------------------------
InputInv ==
  InputTypes /\ Signed /\ SmallSent /\ PointerOnScreen /\ LastEmpty /\ Order /\ Once

LEMMA InputInvInit == InputInit => InputInv
<1>1. InputInit => LastEmpty
  BY CacheHolds DEF InputInit, LastEmpty, Cell
<1>2. QED
  BY <1>1, InputTypesInit, OrderInit, OnceInit DEF InputInv

LEMMA InputInvStep == InputInv /\ InputStep => InputInv'
BY InputTypesStep, PointerStep, OrderStep, OnceStep DEF InputInv

LEMMA InvPointer == InputInv => PointerOnScreen
BY DEF InputInv

LEMMA InvOrder == InputInv => KeysInOrder
<1> SUFFICES ASSUME InputInv, ~ user.apart PROVE InOrder
  BY DEF KeysInOrder
<1>1. PICK n \in 0 .. CacheLimit : \E f : Ordered(n, f)
  BY DEF InputInv, Order
<1>2. PICK f : Ordered(n, f)
  BY <1>1
<1>3. /\ DOMAIN read = 1 .. Len(read) /\ DOMAIN typed = 1 .. Len(typed)
      /\ Len(read) \in Nat /\ n \in Nat
  BY CacheHolds DEF InputInv, InputTypes
<1>4. \A i \in DOMAIN read : i \in 1 .. Len(read) + n
  BY <1>3
<1>5. PICK g : g = [i \in DOMAIN read |-> f[i]]
  OBVIOUS
<1>6. g \in [DOMAIN read -> DOMAIN typed]
  <2>1. \A i \in DOMAIN read : f[i] \in DOMAIN typed
    BY <1>2, <1>3, <1>4 DEF Ordered
  <2>2. QED
    BY <1>5, <2>1
<1>7. \A i \in DOMAIN read : read[i] = typed[g[i]]
  BY <1>2, <1>3, <1>5 DEF Ordered
<1>8. \A i, j \in DOMAIN read : i < j => g[i] < g[j]
  BY <1>2, <1>4, <1>5 DEF Ordered
<1>9. QED
  BY <1>6, <1>7, <1>8 DEF InOrder

LEMMA InvOnce == InputInv => KeysOnce
<1> SUFFICES ASSUME InputInv PROVE KeysOnce
  OBVIOUS
<1>1. /\ DOMAIN read = 1 .. Len(read) /\ DOMAIN typed = 1 .. Len(typed)
      /\ Len(read) \in Nat /\ Len(typed) \in Nat
  BY DEF InputInv, InputTypes
<1>2. CASE ~ user.apart
  <2>1. PICK g \in [DOMAIN read -> DOMAIN typed] :
          /\ \A i \in DOMAIN read : read[i] = typed[g[i]]
          /\ \A i, j \in DOMAIN read : i < j => g[i] < g[j]
    BY <1>2, InvOrder DEF KeysInOrder, InOrder
  <2>2. \A i, j \in DOMAIN read : g[i] = g[j] => i = j
    <3> SUFFICES ASSUME NEW i \in DOMAIN read, NEW j \in DOMAIN read, g[i] = g[j]
                 PROVE  i = j
      OBVIOUS
    <3>1. g[i] \in Nat /\ g[j] \in Nat /\ i \in Nat /\ j \in Nat
      BY <1>1
    <3>2. ~ (i < j) /\ ~ (j < i)
      BY <2>1, <3>1
    <3>3. QED
      BY <3>1, <3>2
  <2>3. g \in Injection(DOMAIN read, DOMAIN typed)
    BY <2>2 DEF Injection, IsInjective
  <2>4. QED
    BY <2>1, <2>3 DEF KeysOnce
<1>3. CASE user.apart
  <2>1. PICK f : Numbers(f, Held, typed)
    BY <1>3 DEF InputInv, Once
  <2> DEFINE at(i) == <<"read", i>>
  <2>2. ASSUME NEW i \in DOMAIN read
        PROVE  at(i) \in DOMAIN Held /\ Held[at(i)] = read[i]
    <3>1. at(i) \in Spot /\ Holds(at(i)) /\ Content(at(i)) = read[i]
      BY <1>1 DEF Spot, Holds, Content
    <3>2. QED
      BY <3>1, HeldIs
  <2>3. PICK g : g = [i \in DOMAIN read |-> f[at(i)]]
    OBVIOUS
  <2>4. /\ f \in [DOMAIN Held -> 1 .. Len(typed)]
        /\ \A p, q \in DOMAIN Held : f[p] = f[q] => p = q
        /\ \A p \in DOMAIN Held : Held[p] = typed[f[p]]
    BY <2>1 DEF Numbers
  <2>5. \A i, j \in DOMAIN read : at(i) = at(j) => i = j
    OBVIOUS
  <2> HIDE DEF at
  <2>6. g \in [DOMAIN read -> DOMAIN typed] /\ \A i \in DOMAIN read : read[i] = typed[g[i]]
    BY <1>1, <2>2, <2>3, <2>4
  <2>7. \A i, j \in DOMAIN read : g[i] = g[j] => i = j
    BY <2>2, <2>3, <2>4, <2>5
  <2>8. g \in Injection(DOMAIN read, DOMAIN typed)
    BY <2>6, <2>7 DEF Injection, IsInjective
  <2>9. QED
    BY <2>6, <2>8 DEF KeysOnce
<1>4. QED
  BY <1>2, <1>3

(* The window manager, its threads and its clients leave the driver alone, *)
(* but for the keys that wm_event reads.                                   *)
LEMMA WindowsStep ==
  ASSUME InputInv, [WindowsNext]_WindowsVars
  PROVE  InputStep
<1>1. CASE UNCHANGED WindowsVars
  BY <1>1 DEF WindowsVars, InputStep
<1>2. CASE Interrupt
  BY <1>2 DEF InputStep, InputNext
<1>3. CASE Manager
  <2>1. CASE Reading
    BY <2>1 DEF Reading, InputStep, InputNext
  <2>2. CASE Event
    BY <2>2 DEF Event, KeyRead, InputStep, InputNext
  <2>3. QED
    BY <1>3, <2>1, <2>2 DEF Manager, InputStep
<1>4. ASSUME user.draws > 0, user' = [user EXCEPT !.draws = @ - 1],
             UNCHANGED <<mouse, board, reader, typed, read>>
      PROVE  InputStep
  <2>1. user.draws - 1 \in Nat
    BY <1>4 DEF InputInv, InputTypes, UserType
  <2>2. QED
    BY <1>4, <2>1 DEF Drawing, InputStep
<1>5. CASE Threads
  <2>1. CASE TaskbarClock
    BY <1>4, <2>1 DEF TaskbarClock
  <2>2. QED
    BY <1>5, <2>1 DEF Threads, InputStep
<1>6. CASE Clients
  <2>1. PICK c \in Client : UNCHANGED input \/ Redraw(c)
    BY <1>6 DEF Clients
  <2>2. CASE Redraw(c)
    BY <1>4, <2>2 DEF Redraw
  <2>3. QED
    BY <2>1, <2>2 DEF InputStep
<1>7. QED
  BY <1>1, <1>2, <1>3, <1>5, <1>6 DEF WindowsNext

LEMMA KeyboardInvariant == InputSpec => []InputInv
<1>1. InputInv /\ [InputNext]_input => InputInv'
  BY InputInvStep DEF InputStep
<1>2. QED
  BY <1>1, InputInvInit, PTL DEF InputSpec

LEMMA DesktopInvariant == WindowsSpec => []InputInv
<1>1. WindowsInit => InputInv
  BY InputInvInit DEF WindowsInit
<1>2. InputInv /\ [WindowsNext]_WindowsVars => InputInv'
  BY WindowsStep, InputInvStep
<1>3. QED
  BY <1>1, <1>2, PTL DEF WindowsSpec

(* However a mouse that reports no more than 127 at a time moves, on a     *)
(* screen of any size, and between any two bytes of a packet, the pointer  *)
(* is on the screen (ps2.c:278-320), where wm_object_find has an object    *)
(* for it.                                                                 *)
THEOREM PointerStaysOnScreen == InputSpec \/ WindowsSpec => []PointerOnScreen
BY InvPointer, KeyboardInvariant, DesktopInvariant, PTL

(* With a buffer of any size, whatever is typed between two readings, the  *)
(* reader on the processor of the interrupts has the keys in the order     *)
(* they were typed in (ps2.c:325-345, 396-405).                            *)
THEOREM KeysStayInOrder == InputSpec \/ WindowsSpec => []KeysInOrder
BY InvOrder, KeyboardInvariant, DesktopInvariant, PTL

(* On another processor, where keys are typed while the buffer moves up,   *)
(* it still has each key at most once, and none that was not typed         *)
(* (ps2.c:325-345).                                                        *)
THEOREM KeysAreReadOnce == InputSpec \/ WindowsSpec => []KeysOnce
BY InvOnce, KeyboardInvariant, DesktopInvariant, PTL
=============================================================================
