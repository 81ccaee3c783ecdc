---------------------------- MODULE TerminalProofs ----------------------------
(***************************************************************************)
(* Theorems about what Terminal puts together: the console with its shell, *)
(* where the cursor comes back after a program and a prompt begins a line; *)
(* the disk, from which files are read as they were packed; and a stream,  *)
(* whose markers agree with the count of bytes and whose ring implements   *)
(* the pipe.                                                               *)
(*                                                                         *)
(* What waits in the stream is not shown yet.  The invariant of the        *)
(* console says of it what showing it will do: where the prompt in it      *)
(* stands, and whether it leaves the cursor hidden.  The invariant of the  *)
(* disk says where the bytes of each file are at each stage.               *)
(***************************************************************************)
EXTENDS Console, Vfs, Stream, SequenceTheorems, WellFoundedInduction, TLAPS

Token == STRING \union {"none", " ", "#", "$", "'", "?", ".", "\n", "back", "name", "clear",
                        "show", "hide"}

LooseType ==
  [cell : [Grid -> Token], on : SUBSET Grid, x : Nat, y : Nat, lock : Nat,
   kept : (0 .. Columns - 1) \X (0 .. Lines - 1), clean : BOOLEAN, astray : BOOLEAN]

(* The cursor stays on the screen. *)
Term(t) == t \in LooseType /\ t.x < Columns /\ t.y < Lines

(* The cursor is shown where it is, unless it is locked. *)
Proper(t) == t.on = IF t.lock = 0 THEN {At(t)} ELSE {}

-----------------------------------------------------------------------------
LEMMA AtOnGrid ==
  ASSUME NEW t, Term(t)
  PROVE  At(t) \in Grid
<1> DEFINE x == t.x
           y == t.y
<1>1. x \in Nat /\ y \in Nat /\ x < Columns /\ y < Lines
  BY DEF Term, LooseType
<1>2. Columns \in Nat /\ Lines \in Nat
  BY ConsoleAssumption
<1> HIDE DEF x, y
<1>3. \E m \in Nat : Lines = y + 1 + m
  <2>1. Lines - y - 1 \in Nat
    BY <1>1, <1>2
  <2>2. QED
    BY <2>1, <1>1, <1>2
<1>4. PICK m \in Nat : Lines = y + 1 + m
  BY <1>3
<1>5. Columns * Lines = Columns * y + Columns + Columns * m
  BY <1>1, <1>2, <1>4
<1>6. Columns * m \in Nat /\ Columns * y \in Nat /\ Columns * y = y * Columns
  BY <1>1, <1>2, <1>4
<1>7. y * Columns + x \in Nat /\ y * Columns + x <= Columns * Lines - 1
  BY <1>1, <1>2, <1>5, <1>6
<1>8. Columns * Lines \in Nat
  BY <1>2
<1>9. y * Columns + x \in 0 .. Columns * Lines - 1
  BY <1>7, <1>8
<1>10. QED
  BY <1>9 DEF Grid, At, x, y

LEMMA SwitchFits ==
  ASSUME NEW t, Term(t)
  PROVE  LET s == CursorSwitch(t) IN
         /\ Term(s)
         /\ s.on = (t.on \ {At(t)}) \union ({At(t)} \ t.on)
         /\ s.x = t.x /\ s.y = t.y /\ s.lock = t.lock /\ s.astray = t.astray
<1>1. At(t) \in Grid
  BY AtOnGrid
<1>2. QED
  BY <1>1 DEF CursorSwitch, Term, LooseType

LEMMA LockFits ==
  ASSUME NEW t, Term(t), NEW n \in Nat
  PROVE  LET s == [t EXCEPT !.lock = n] IN
         /\ Term(s) /\ At(s) = At(t)
         /\ s.on = t.on
         /\ s.x = t.x /\ s.y = t.y /\ s.lock = n /\ s.astray = t.astray
BY DEF Term, LooseType, At

LEMMA LockedProper ==
  ASSUME NEW t, t.lock # 0
  PROVE  Proper(t) <=> t.on = {}
BY DEF Proper

LEMMA DisableFits ==
  ASSUME NEW t, Term(t)
  PROVE  LET s == CursorDisable(t) IN
         /\ Term(s)
         /\ s.x = t.x /\ s.y = t.y /\ s.lock = t.lock + 1 /\ s.astray = t.astray
         /\ Proper(t) => s.on = {}
<1>1. t.lock \in Nat
  BY DEF Term, LooseType
<1>2. CASE t.lock = 0
  <2> DEFINE u == [t EXCEPT !.lock = 1]
  <2>1. Term(u) /\ At(u) = At(t) /\ u.on = t.on /\ u.x = t.x /\ u.y = t.y /\ u.lock = 1
        /\ u.astray = t.astray
    BY LockFits
  <2>2. CursorDisable(t) = CursorSwitch(u)
    BY <1>2 DEF CursorDisable
  <2> HIDE DEF u
  <2>3. QED
    BY <2>1, <2>2, <1>2, SwitchFits DEF Proper
<1>3. CASE t.lock # 0
  <2>1. CursorDisable(t) = [t EXCEPT !.lock = t.lock + 1]
    BY <1>3 DEF CursorDisable
  <2>2. t.lock + 1 \in Nat
    BY <1>1
  <2>3. QED
    BY <2>1, <2>2, <1>3, LockFits DEF Proper
<1>4. QED
  BY <1>2, <1>3

LEMMA EnableFits ==
  ASSUME NEW t, Term(t)
  PROVE  LET s == CursorEnable(t) IN
         /\ Term(s)
         /\ s.x = t.x /\ s.y = t.y /\ s.astray = t.astray
         /\ s.lock = IF t.lock = 0 THEN 0 ELSE t.lock - 1
         /\ Proper(t) => Proper(s)
<1>1. t.lock \in Nat
  BY DEF Term, LooseType
<1>2. CASE t.lock = 0
  BY <1>2 DEF CursorEnable
<1>3. CASE t.lock = 1
  <2> DEFINE u == [t EXCEPT !.lock = 0]
  <2>1. Term(u) /\ At(u) = At(t) /\ u.on = t.on /\ u.x = t.x /\ u.y = t.y /\ u.lock = 0
        /\ u.astray = t.astray
    BY LockFits
  <2>2. CursorEnable(t) = CursorSwitch(u)
    BY <1>3 DEF CursorEnable
  <2> HIDE DEF u
  <2>3. /\ Term(CursorSwitch(u))
        /\ CursorSwitch(u).on = (u.on \ {At(u)}) \union ({At(u)} \ u.on)
        /\ CursorSwitch(u).x = u.x /\ CursorSwitch(u).y = u.y /\ CursorSwitch(u).lock = 0
        /\ CursorSwitch(u).astray = u.astray
    BY <2>1, SwitchFits
  <2>4. At(CursorSwitch(u)) = At(t)
    BY <2>1, <2>3 DEF At
  <2>5. QED
    BY <2>1, <2>2, <2>3, <2>4, <1>3 DEF Proper
<1>4. CASE t.lock # 0 /\ t.lock # 1
  <2>1. t.lock > 1 /\ t.lock - 1 \in Nat /\ t.lock - 1 # 0
    BY <1>1, <1>4
  <2>2. CursorEnable(t) = [t EXCEPT !.lock = t.lock - 1]
    BY <2>1, <1>4 DEF CursorEnable
  <2>3. QED
    BY <2>1, <2>2, <1>4, LockFits DEF Proper
<1>5. QED
  BY <1>2, <1>3, <1>4

LEMMA ClearedFits ==
  ASSUME NEW t \in LooseType, NEW cells
  PROVE  LET s == Cleared(t, cells) IN
         /\ s \in LooseType
         /\ s.x = t.x /\ s.y = t.y /\ s.lock = t.lock /\ s.astray = t.astray
         /\ t.on = {} => s.on = {}
<1>1. [p \in Grid |-> IF p \in cells THEN " " ELSE t.cell[p]] \in [Grid -> Token]
  BY DEF LooseType, Token
<1>2. QED
  BY <1>1 DEF Cleared, LooseType

LEMMA SetFits ==
  ASSUME NEW t \in LooseType, t.y < Lines \/ (t.x < Columns /\ t.y <= Lines)
  PROVE  LET s == CursorSet(t) IN
         /\ Term(s)
         /\ s.lock = t.lock /\ s.astray = t.astray
         /\ t.on = {} => s.on = {}
         /\ t.x = 0 => s.x = 0
<1> USE ConsoleAssumption
<1> DEFINE w == IF t.x < Columns THEN t ELSE [t EXCEPT !.x = 0, !.y = @ + 1]
           v == [w EXCEPT !.y = @ - 1]
           u == [v EXCEPT !.cell = [p \in Grid |-> IF p + Columns \in Grid THEN @[p + Columns]
                                                  ELSE @[p]],
                          !.on = {p \in Grid : p + Columns \in @}]
<1>1. /\ w \in LooseType /\ w.x < Columns /\ w.y <= Lines
      /\ w.lock = t.lock /\ w.astray = t.astray /\ w.on = t.on
      /\ t.x = 0 => w.x = 0
  <2>1. CASE t.x < Columns
    BY <2>1 DEF LooseType
  <2>2. CASE ~ (t.x < Columns)
    <3>1. w = [t EXCEPT !.x = 0, !.y = t.y + 1]
      BY <2>2
    <3>2. t.y + 1 \in Nat /\ t.y + 1 <= Lines /\ 0 < Columns /\ t.x # 0
      BY <2>2 DEF LooseType
    <3>3. QED
      BY <3>1, <3>2 DEF LooseType
  <2>3. QED
    BY <2>1, <2>2
<1>2. CursorSet(t) = IF w.y < Lines THEN w ELSE ScrollUp(v)
  BY DEF CursorSet
<1>3. CASE w.y < Lines
  BY <1>1, <1>2, <1>3 DEF Term
<1>4. CASE ~ (w.y < Lines)
  <2> HIDE DEF w
  <2>1. /\ v \in LooseType /\ v.x = w.x /\ v.y = Lines - 1
        /\ v.lock = w.lock /\ v.astray = w.astray /\ v.on = w.on
    BY <1>1, <1>4 DEF LooseType
  <2> HIDE DEF v
  <2>2. /\ u \in LooseType /\ u.x = v.x /\ u.y = v.y
        /\ u.lock = v.lock /\ u.astray = v.astray /\ (v.on = {} => u.on = {})
    <3>1. [p \in Grid |-> IF p + Columns \in Grid THEN v.cell[p + Columns] ELSE v.cell[p]]
             \in [Grid -> Token]
      BY <2>1 DEF LooseType
    <3>2. QED
      BY <2>1, <3>1 DEF LooseType
  <2>3. ScrollUp(v) = Cleared(u, Line(v))
    BY DEF ScrollUp
  <2> HIDE DEF u
  <2>4. QED
    BY <1>1, <1>2, <1>4, <2>1, <2>2, <2>3, ClearedFits DEF Term
<1>5. QED
  BY <1>3, <1>4

-----------------------------------------------------------------------------
(* A sequence about the cursor moves it; the lock is as it was, but for    *)
(* the two that are about it.                                              *)
LEMMA PositionedFits ==
  ASSUME NEW t, Term(t), NEW token \in Positions
  PROVE  LET s == Positioned(t, token) IN
         /\ Term(s)
         /\ s.astray = t.astray
         /\ token \notin {"show", "hide"} => s.lock = t.lock /\ (t.on = {} => s.on = {})
         /\ token = "show" => s = CursorEnable(t)
         /\ token = "hide" => s = CursorDisable(t)
<1> USE ConsoleAssumption
<1>1. /\ t \in LooseType /\ t.x \in Nat /\ t.y \in Nat /\ t.x < Columns /\ t.y < Lines
      /\ t.kept[1] \in Nat /\ t.kept[2] \in Nat /\ t.kept[1] < Columns /\ t.kept[2] < Lines
  BY DEF Term, LooseType
<1>2. CASE token = "show"
  BY <1>2, EnableFits DEF Positioned
<1>3. CASE token = "hide"
  BY <1>3, DisableFits DEF Positioned
<1>4. CASE token = "push"
  <2>1. Positioned(t, token) = [t EXCEPT !.kept = <<t.x, t.y>>]
    BY <1>4 DEF Positioned
  <2>2. <<t.x, t.y>> \in (0 .. Columns - 1) \X (0 .. Lines - 1)
    BY <1>1
  <2>3. QED
    BY <2>1, <2>2, <1>4 DEF Term, LooseType
<1>5. CASE token \notin {"show", "hide", "push"}
  <2>1. \E x \in Nat, y \in Nat :
          /\ y < Lines \/ (x < Columns /\ y <= Lines)
          /\ Positioned(t, token) = CursorSet([t EXCEPT !.x = x, !.y = y])
    <3>0. t.x \in Nat /\ t.y \in Nat
      BY <1>1 DEF LooseType
    <3>1. CASE token = "home"
      <4>1. Positioned(t, token) = CursorSet([t EXCEPT !.x = 0, !.y = 0])
        BY <3>1 DEF Positioned
      <4>2. 0 \in Nat /\ 0 < Lines
        OBVIOUS
      <4>3. QED
        BY ONLY <4>1, <4>2
    <3>2. CASE token = "pop"
      <4>1. Positioned(t, token) = CursorSet([t EXCEPT !.x = t.kept[1], !.y = t.kept[2]])
        BY <3>2 DEF Positioned
      <4>2. QED
        BY <4>1, <1>1
    <3>3. CASE token \in {"up", "down"}
      <4>1. \E y \in Nat : y <= Lines /\ Positioned(t, token) = CursorSet([t EXCEPT !.y = y])
        <5>1. CASE token = "up"
          <6>1. Positioned(t, token)
                  = CursorSet([t EXCEPT !.y = IF t.y > 0 THEN t.y - 1 ELSE t.y])
            BY <5>1 DEF Positioned
          <6>2. QED
            BY <6>1, <1>1
        <5>2. CASE token = "down"
          <6>1. Positioned(t, token) = CursorSet([t EXCEPT !.y = t.y + 1])
            BY <5>2 DEF Positioned
          <6>2. QED
            BY <6>1, <1>1
        <5>3. QED
          BY <5>1, <5>2, <3>3
      <4>2. PICK y \in Nat : y <= Lines /\ Positioned(t, token) = CursorSet([t EXCEPT !.y = y])
        BY <4>1
      <4>3. [t EXCEPT !.y = y] = [t EXCEPT !.x = t.x, !.y = y]
        BY <1>1 DEF LooseType
      <4>4. QED
        BY <4>2, <4>3, <1>1
    <3>4. CASE token \in {"left", "right"}
      <4>1. \E x \in Nat : Positioned(t, token) = CursorSet([t EXCEPT !.x = x])
        <5>1. CASE token = "left"
          <6>1. Positioned(t, token)
                  = CursorSet([t EXCEPT !.x = IF t.x > 0 THEN t.x - 1 ELSE t.x])
            BY <5>1 DEF Positioned
          <6>2. QED
            BY <6>1, <1>1
        <5>2. CASE token = "right"
          <6>1. Positioned(t, token) = CursorSet([t EXCEPT !.x = t.x + 1])
            BY <5>2 DEF Positioned
          <6>2. QED
            BY <6>1, <1>1
        <5>3. QED
          BY <5>1, <5>2, <3>4
      <4>2. PICK x \in Nat : Positioned(t, token) = CursorSet([t EXCEPT !.x = x])
        BY <4>1
      <4>3. [t EXCEPT !.x = x] = [t EXCEPT !.x = x, !.y = t.y]
        BY <1>1 DEF LooseType
      <4>4. QED
        BY <4>2, <4>3, <1>1
    <3>5. QED
      BY <3>1, <3>2, <3>3, <3>4, <1>5 DEF Positions
  <2>2. PICK x \in Nat, y \in Nat :
          /\ y < Lines \/ (x < Columns /\ y <= Lines)
          /\ Positioned(t, token) = CursorSet([t EXCEPT !.x = x, !.y = y])
    BY <2>1
  <2> DEFINE u == [t EXCEPT !.x = x, !.y = y]
  <2>3. /\ u \in LooseType /\ u.x = x /\ u.y = y /\ u.lock = t.lock /\ u.on = t.on
        /\ u.astray = t.astray
    BY <1>1 DEF LooseType
  <2> HIDE DEF u
  <2>4. LET s == CursorSet(u) IN
        Term(s) /\ s.lock = t.lock /\ s.astray = t.astray /\ (t.on = {} => s.on = {})
    BY <2>2, <2>3, SetFits
  <2>5. QED
    BY <2>2, <2>4, <1>5 DEF u
<1>6. QED
  BY <1>2, <1>3, <1>4, <1>5

(* A character that is drawn leaves the cursor one column further.         *)
LEMMA DrawingFits ==
  ASSUME NEW t, Term(t), NEW c \in Token
  PROVE  LET s == Drawing(t, c) IN
         /\ s \in LooseType /\ s.y = t.y
         /\ s.lock = t.lock /\ s.astray = t.astray
         /\ t.on = {} => s.on = {}
<1> DEFINE u == IF t.clean THEN Cleared(t, {At(t)}) ELSE t
           glyph == IF c = " " THEN u.cell[At(u)]
                    ELSE IF u.cell[At(u)] = " " THEN c ELSE "#"
<1>1. /\ u \in LooseType /\ u.x = t.x /\ u.y = t.y /\ u.lock = t.lock
      /\ u.astray = t.astray /\ (t.on = {} => u.on = {})
  BY ClearedFits DEF Term
<1>2. Drawing(t, c) = [u EXCEPT !.cell[At(u)] = glyph, !.x = u.x + 1]
  BY DEF Drawing
<1> HIDE DEF u
<1>3. At(u) \in Grid
  <2>1. Term(u)
    BY <1>1 DEF Term
  <2>2. QED
    BY <2>1, AtOnGrid
<1>4. glyph \in Token
  <2>1. u.cell \in [Grid -> Token]
    BY <1>1 DEF LooseType
  <2>2. u.cell[At(u)] \in Token
    BY <2>1, <1>3
  <2>3. QED
    BY <2>2 DEF Token
<1> HIDE DEF glyph
<1>5. [u.cell EXCEPT ![At(u)] = glyph] \in [Grid -> Token] /\ u.x + 1 \in Nat
  <2>1. u.cell \in [Grid -> Token] /\ u.x \in Nat
    BY <1>1 DEF LooseType
  <2>2. ASSUME NEW cell \in [Grid -> Token], NEW a, NEW g \in Token
        PROVE  [cell EXCEPT ![a] = g] \in [Grid -> Token]
    OBVIOUS
  <2>3. QED
    BY <2>1, <2>2, <1>4
<1>6. Drawing(t, c) = [u EXCEPT !.cell = [u.cell EXCEPT ![At(u)] = glyph], !.x = u.x + 1]
  BY <1>1, <1>2 DEF LooseType
<1> DEFINE cell == [u.cell EXCEPT ![At(u)] = glyph]
           x == u.x + 1
           s == [u EXCEPT !.cell = cell, !.x = x]
<1>7. /\ s \in LooseType /\ s.y = u.y /\ s.lock = u.lock /\ s.astray = u.astray
      /\ s.on = u.on
  <2>1. cell \in [Grid -> Token] /\ x \in Nat /\ u \in LooseType
    BY <1>1, <1>5
  <2> HIDE DEF cell, x
  <2>2. QED
    BY <2>1 DEF LooseType
<1>8. Drawing(t, c) = s
  BY <1>6
<1> HIDE DEF s
<1>9. QED
  BY <1>1, <1>7, <1>8

(* A character is shown while the cursor is locked.                        *)
LEMMA CharFits ==
  ASSUME NEW t, Term(t), NEW c \in Token
  PROVE  LET s == Char(t, c) IN
         /\ Term(s)
         /\ s.lock = t.lock /\ s.astray = t.astray
         /\ Proper(t) => Proper(s)
         /\ c = "\n" => s.x = 0
<1> USE ConsoleAssumption
<1> DEFINE u == CursorDisable(t)
           v == CASE c = "\n" -> [u EXCEPT !.x = 0, !.y = @ + 1]
                  [] c = "\r" -> [u EXCEPT !.x = 0]
                  [] c = "back" -> Back(u)
                  [] c = "\t" -> [u EXCEPT !.x = @ + Tab - (@ % Tab)]
                  [] c \notin Controls -> Drawing(u, c)
           w == CursorSet(v)
           d == IF c = "back" THEN Cleared(w, {At(w)}) ELSE w
<1>1. Char(t, c) = CursorEnable(d)
  BY DEF Char
<1>2. /\ Term(u) /\ u.lock = t.lock + 1 /\ u.astray = t.astray
      /\ Proper(t) => u.on = {}
  BY DisableFits
<1> HIDE DEF u
<1>3. u \in LooseType /\ u.x \in Nat /\ u.y \in Nat /\ u.x < Columns /\ u.y < Lines
  BY <1>2 DEF Term, LooseType
<1>4. /\ v \in LooseType /\ (v.y < Lines \/ (v.x < Columns /\ v.y <= Lines))
      /\ v.lock = u.lock /\ v.astray = u.astray
      /\ u.on = {} => v.on = {}
      /\ c = "\n" => v.x = 0
  <2>1. CASE c = "\n"
    <3>1. v = [u EXCEPT !.x = 0, !.y = u.y + 1]
      BY <2>1 DEF Controls
    <3>2. 0 < Columns /\ u.y + 1 <= Lines /\ u.y + 1 \in Nat
      BY <1>3
    <3> HIDE DEF v
    <3>3. QED
      BY <3>1, <3>2, <2>1, <1>3 DEF LooseType
  <2>2. CASE c = "\r"
    <3>1. v = [u EXCEPT !.x = 0]
      BY <2>2 DEF Controls
    <3> HIDE DEF v
    <3>2. QED
      BY <3>1, <2>2, <1>3 DEF LooseType
  <2>3. CASE c = "back"
    <3>1. v = Back(u)
      BY <2>3 DEF Controls
    <3>2. \E x \in Nat, y \in Nat : y < Lines /\ Back(u) = [u EXCEPT !.x = x, !.y = y]
      <4>1. CASE u.x > 0
        <5>1. Back(u) = [u EXCEPT !.x = u.x - 1]
          BY <4>1 DEF Back
        <5>2. [u EXCEPT !.x = u.x - 1] = [u EXCEPT !.x = u.x - 1, !.y = u.y]
          BY <1>3 DEF LooseType
        <5>3. u.x - 1 \in Nat
          BY <4>1, <1>3
        <5>4. QED
          BY <5>1, <5>2, <5>3, <1>3
      <4>2. CASE u.x = 0 /\ u.y > 0
        <5>1. Back(u) = [u EXCEPT !.x = Columns - 1, !.y = u.y - 1]
          BY <4>2 DEF Back
        <5>2. u.y - 1 \in Nat /\ u.y - 1 < Lines /\ Columns - 1 \in Nat
          BY <4>2, <1>3
        <5>3. QED
          BY <5>1, <5>2
      <4>3. CASE u.x = 0 /\ u.y = 0
        <5>1. Back(u) = u
          BY <4>3 DEF Back
        <5>2. u = [u EXCEPT !.x = u.x, !.y = u.y]
          BY <1>3 DEF LooseType
        <5>3. QED
          BY <5>1, <5>2, <1>3
      <4>4. u.x > 0 \/ (u.x = 0 /\ u.y > 0) \/ (u.x = 0 /\ u.y = 0)
        BY <1>3
      <4>5. QED
        BY <4>1, <4>2, <4>3, <4>4
    <3>3. PICK x \in Nat, y \in Nat : y < Lines /\ Back(u) = [u EXCEPT !.x = x, !.y = y]
      BY <3>2
    <3> HIDE DEF v
    <3>4. QED
      BY <3>1, <3>3, <1>3, <2>3 DEF LooseType
  <2>4. CASE c = "\t"
    <3>1. u.x + Tab - (u.x % Tab) \in Nat
      <4>1. u.x % Tab \in 0 .. Tab - 1
        BY <1>3
      <4>2. QED
        BY <4>1, <1>3
    <3>2. v = [u EXCEPT !.x = u.x + Tab - (u.x % Tab)]
      BY <2>4 DEF Controls
    <3> HIDE DEF v
    <3>3. QED
      BY <3>1, <3>2, <1>3, <2>4 DEF LooseType
  <2>5. CASE c \notin Controls
    <3>1. v = Drawing(u, c)
      BY <2>5 DEF Controls
    <3> HIDE DEF v
    <3>2. QED
      BY <3>1, <1>2, <1>3, <2>5, DrawingFits DEF Controls
  <2>6. QED
    BY <2>1, <2>2, <2>3, <2>4, <2>5 DEF Controls
<1> HIDE DEF v
<1>5. /\ Term(w) /\ w.lock = v.lock /\ w.astray = v.astray
      /\ v.on = {} => w.on = {}
      /\ v.x = 0 => w.x = 0
  BY <1>4, SetFits
<1> HIDE DEF w
<1>6. /\ Term(d) /\ d.lock = w.lock /\ d.astray = w.astray
      /\ w.on = {} => d.on = {}
      /\ d.x = w.x
  BY <1>5, ClearedFits DEF Term
<1> HIDE DEF d
<1>7. t.lock \in Nat /\ d.lock = t.lock + 1
  BY <1>2, <1>4, <1>5, <1>6 DEF Term, LooseType
<1>8. Proper(t) => Proper(d)
  <2>1. t.lock + 1 # 0
    BY <1>7
  <2>2. Proper(t) => d.on = {}
    BY <1>2, <1>4, <1>5, <1>6
  <2>3. QED
    BY <2>1, <2>2, <1>7, LockedProper
<1>9. LET s == CursorEnable(d) IN
      /\ Term(s) /\ s.lock = t.lock /\ s.astray = d.astray /\ s.x = d.x
      /\ Proper(d) => Proper(s)
  BY <1>6, <1>7, EnableFits
<1>10. QED
  BY <1>1, <1>2, <1>4, <1>5, <1>6, <1>8, <1>9

LEMMA DrainFits ==
  ASSUME NEW t, Term(t)
  PROVE  LET s == Drain(t) IN
         /\ Term(s)
         /\ s.lock = t.lock /\ s.astray = t.astray
         /\ Proper(t) => Proper(s)
<1> USE ConsoleAssumption
<1> DEFINE u == CursorDisable(t)
           v == Cleared(u, Grid)
           w == [v EXCEPT !.x = 0, !.y = 0]
<1>1. Drain(t) = CursorEnable(w)
  BY DEF Drain
<1>2. /\ Term(u) /\ u.lock = t.lock + 1 /\ u.astray = t.astray
      /\ Proper(t) => u.on = {}
  BY DisableFits
<1> HIDE DEF u
<1>3. /\ v \in LooseType /\ v.lock = u.lock /\ v.astray = u.astray
      /\ u.on = {} => v.on = {}
  BY <1>2, ClearedFits DEF Term
<1> HIDE DEF v
<1>4. /\ Term(w) /\ w.lock = v.lock /\ w.astray = v.astray /\ w.on = v.on
  <2>1. w \in LooseType /\ w.x = 0 /\ w.y = 0 /\ w.lock = v.lock
        /\ w.astray = v.astray /\ w.on = v.on
    BY <1>3 DEF LooseType
  <2>2. QED
    BY <2>1 DEF Term
<1> HIDE DEF w
<1>5. t.lock \in Nat /\ w.lock = t.lock + 1
  BY <1>2, <1>3, <1>4 DEF Term, LooseType
<1>6. Proper(t) => Proper(w)
  <2>1. t.lock + 1 # 0
    BY <1>5
  <2>2. Proper(t) => w.on = {}
    BY <1>2, <1>3, <1>4
  <2>3. QED
    BY <2>1, <2>2, <1>5, LockedProper
<1>7. LET s == CursorEnable(w) IN
      /\ Term(s) /\ s.lock = t.lock /\ s.astray = w.astray
      /\ Proper(w) => Proper(s)
  BY <1>4, <1>5, EnableFits
<1>8. QED
  BY <1>1, <1>2, <1>3, <1>4, <1>6, <1>7

(* What a character or a sequence does, up to what it draws.               *)
LEMMA ShownFits ==
  ASSUME NEW t, Term(t), NEW token \in Token
  PROVE  LET s == Shown(t, token) IN
         /\ Term(s)
         /\ token = "name" => s = t
         /\ Proper(t) /\ t.lock # 0 => Proper(s)
         /\ token = "show" => s.lock = IF t.lock = 0 THEN 0 ELSE t.lock - 1
         /\ token = "hide" => s.lock = t.lock + 1
         /\ token \notin {"show", "hide"} => s.lock = t.lock
         /\ token # "$" \/ t.x = 0 => s.astray = t.astray
         /\ token = "\n" => s.x = 0
<1>1. CASE token = "name"
  BY <1>1 DEF Shown, Sequences, Positions
<1>2. CASE token = "clear"
  BY <1>2, DrainFits DEF Shown, Sequences, Positions
<1>3. CASE token = "clear line"
  <2>1. Shown(t, token) = Cleared(t, Line(t))
    BY <1>3 DEF Shown, Sequences, Positions
  <2>2. LET s == Cleared(t, Line(t)) IN
        /\ Term(s) /\ s.lock = t.lock /\ s.astray = t.astray
        /\ t.on = {} => s.on = {}
    BY ClearedFits DEF Term
  <2>3. QED
    BY <2>1, <2>2, <1>3 DEF Proper
<1>4. CASE token \in {"clean", "no clean"}
  <2>1. \E b \in BOOLEAN : Shown(t, token) = [t EXCEPT !.clean = b]
    BY <1>4 DEF Shown, Sequences, Positions
  <2>2. PICK b \in BOOLEAN : Shown(t, token) = [t EXCEPT !.clean = b]
    BY <2>1
  <2> DEFINE s == [t EXCEPT !.clean = b]
  <2>3. /\ Term(s) /\ s.lock = t.lock /\ s.astray = t.astray /\ s.on = t.on
        /\ s.x = t.x /\ s.y = t.y
    BY DEF Term, LooseType
  <2> HIDE DEF s
  <2>4. Shown(t, token) = s
    BY <2>2 DEF s
  <2>5. QED
    BY <2>3, <2>4, <1>4 DEF Proper, At
<1>5. CASE token \in Positions
  <2>1. Shown(t, token) = Positioned(t, token)
    BY <1>5 DEF Shown, Sequences, Positions
  <2>2. token \notin {"name", "$", "\n"}
    BY <1>5 DEF Positions
  <2>3. t.lock \in Nat
    BY DEF Term, LooseType
  <2>4. CASE token = "show"
    BY <2>1, <2>2, <2>4, <1>5, PositionedFits, EnableFits
  <2>5. CASE token = "hide"
    <3>1. LET s == CursorDisable(t) IN
          /\ Term(s) /\ s.lock = t.lock + 1 /\ s.astray = t.astray
          /\ Proper(t) => s.on = {}
      BY DisableFits
    <3>2. LET s == CursorDisable(t) IN Proper(t) => Proper(s)
      <4>1. t.lock + 1 # 0
        BY <2>3
      <4>2. QED
        BY <3>1, <4>1, LockedProper
    <3>3. QED
      BY <2>1, <2>2, <2>5, <3>1, <3>2, <1>5, PositionedFits
  <2>6. CASE token \notin {"show", "hide"}
    <3>1. LET s == Positioned(t, token) IN
          /\ Term(s) /\ s.lock = t.lock /\ s.astray = t.astray
          /\ t.on = {} => s.on = {}
      BY <2>6, <1>5, PositionedFits
    <3>2. QED
      BY <2>1, <2>2, <2>6, <3>1 DEF Proper
  <2>7. QED
    BY <2>4, <2>5, <2>6
<1>6. CASE token = "$"
  <2> DEFINE u == [t EXCEPT !.astray = IF t.x = 0 THEN t.astray ELSE TRUE]
  <2>1. Shown(t, token) = Char(u, token)
    BY <1>6 DEF Shown, Sequences, Positions
  <2>2. t.astray \in BOOLEAN /\ (IF t.x = 0 THEN t.astray ELSE TRUE) \in BOOLEAN
    BY DEF Term, LooseType
  <2>3. /\ Term(u) /\ u.lock = t.lock /\ u.on = t.on /\ u.x = t.x /\ u.y = t.y
        /\ t.x = 0 => u.astray = t.astray
    BY <2>2 DEF Term, LooseType
  <2> HIDE DEF u
  <2>4. Proper(t) => Proper(u)
    BY <2>3 DEF Proper, At
  <2>5. QED
    BY <2>1, <2>3, <2>4, <1>6, CharFits
<1>7. CASE token \notin Sequences \union {"$"}
  <2>1. Shown(t, token) = Char(t, token)
    BY <1>7 DEF Shown, Sequences, Positions
  <2>2. token \notin {"show", "hide", "name", "$"}
    BY <1>7 DEF Sequences, Positions
  <2>3. QED
    BY <2>1, <2>2, CharFits
<1>8. QED
  BY <1>1, <1>2, <1>3, <1>4, <1>5, <1>6, <1>7 DEF Sequences

-----------------------------------------------------------------------------
(* Counting.                                                               *)
LEMMA Least ==
  ASSUME NEW S \in SUBSET Nat, S # {}
  PROVE  \E x \in S : \A y \in S : x <= y
<1>1. PICK x \in S : \A y \in S : ~ (<<y, x>> \in OpToRel(<, Nat))
  BY WFMin, NatLessThanWellFounded
<1>2. \A y \in S : ~ (y < x)
  BY <1>1 DEF OpToRel
<1>3. QED
  BY <1>2

LEMMA MinIsIn ==
  ASSUME NEW S \in SUBSET Nat, S # {}
  PROVE  Min(S) \in S
BY Least DEF Min

(* A text is shown token by token.                                         *)
Showing(t, text, n, f) ==
  f = [i \in 0 .. n |-> IF i = 0 THEN t ELSE Shown(f[i - 1], text[i])]

LEMMA ShowingExists ==
  ASSUME NEW t, NEW text, NEW n \in Nat
  PROVE  \E f : Showing(t, text, n, f)
<1> DEFINE Bad == {m \in Nat : ~ \E f : Showing(t, text, m, f)}
<1>1. SUFFICES ASSUME Bad # {} PROVE FALSE
  OBVIOUS
<1>2. PICK m \in Bad : \A k \in Bad : m <= k
  BY <1>1, Least
<1>3. CASE m = 0
  <2> DEFINE f == [i \in 0 .. 0 |-> t]
  <2>1. Showing(t, text, 0, f)
    BY DEF Showing
  <2>2. QED
    BY <2>1, <1>2, <1>3
<1>4. CASE m # 0
  <2>1. m - 1 \in Nat /\ m - 1 \notin Bad
    BY <1>2, <1>4
  <2>2. PICK g : Showing(t, text, m - 1, g)
    BY <2>1
  <2>3. \A i \in 0 .. m - 1 : g[i] = IF i = 0 THEN t ELSE Shown(g[i - 1], text[i])
    BY <2>2 DEF Showing
  <2> DEFINE f == [i \in 0 .. m |-> IF i = m THEN Shown(g[m - 1], text[m]) ELSE g[i]]
             h == [i \in 0 .. m |-> IF i = 0 THEN t ELSE Shown(f[i - 1], text[i])]
  <2>4. ASSUME NEW i \in 0 .. m PROVE f[i] = h[i]
    <3>1. CASE i = m
      <4>1. f[i] = Shown(g[m - 1], text[m]) /\ f[i - 1] = g[m - 1]
        BY <3>1, <2>1
      <4>2. QED
        BY <4>1, <3>1, <1>4
    <3>2. CASE i # m /\ i = 0
      BY <3>2, <2>1, <2>3
    <3>3. CASE i # m /\ i # 0
      <4>1. i \in 0 .. m - 1 /\ i - 1 \in 0 .. m - 1 /\ i - 1 # m
        BY <3>3, <2>1
      <4>2. f[i] = g[i] /\ f[i - 1] = g[i - 1]
        BY <4>1, <3>3
      <4>3. QED
        BY <4>1, <4>2, <2>3, <3>3
    <3>4. QED
      BY <3>1, <3>2, <3>3
  <2>5. f = h
    BY <2>4
  <2>6. Showing(t, text, m, f)
    BY <2>5 DEF Showing
  <2>7. QED
    BY <2>6, <1>2
<1>5. QED
  BY <1>3, <1>4

LEMMA ShownAllSteps ==
  ASSUME NEW t, NEW S, NEW text \in Seq(S)
  PROVE  \E f : /\ f[0] = t
                /\ \A n \in 1 .. Len(text) : f[n] = Shown(f[n - 1], text[n])
                /\ ShownAll(t, text) = f[Len(text)]
<1> DEFINE g == CHOOSE f : Showing(t, text, Len(text), f)
<1>1. Len(text) \in Nat
  OBVIOUS
<1>2. Showing(t, text, Len(text), g)
  BY <1>1, ShowingExists
<1>3. ShownAll(t, text) = g[Len(text)]
  BY DEF ShownAll, Showing
<1> HIDE DEF g
<1>4. \A n \in 0 .. Len(text) : g[n] = IF n = 0 THEN t ELSE Shown(g[n - 1], text[n])
  BY <1>2 DEF Showing
<1>5. QED
  BY <1>1, <1>3, <1>4

-----------------------------------------------------------------------------
(* What a text does to the lock, which is 1 or 2 as it begins: nothing but *)
(* a name comes after the lock is gone.                                    *)
Locking(text, a, b, lock) ==
  /\ lock \in [0 .. Len(text) -> 0 .. 2]
  /\ lock[0] = a /\ lock[Len(text)] = b
  /\ \A n \in 1 .. Len(text) :
       /\ text[n] = "hide" => lock[n - 1] = 1 /\ lock[n] = 2
       /\ text[n] = "show" => lock[n - 1] # 0 /\ lock[n] = lock[n - 1] - 1
       /\ text[n] \notin {"hide", "show"} =>
            /\ lock[n] = lock[n - 1]
            /\ lock[n - 1] = 0 => text[n] = "name"

Locks(text, a, b) == \E lock : Locking(text, a, b, lock)

LEMMA LocksNothing ==
  ASSUME NEW a \in 0 .. 2
  PROVE  /\ Locks(<<>>, a, a)
         /\ \A b : Locks(<<>>, a, b) => b = a
<1>1. Locking(<<>>, a, a, [n \in 0 .. 0 |-> a])
  BY DEF Locking
<1>2. QED
  BY <1>1 DEF Locks, Locking

LEMMA LocksName ==
  ASSUME NEW a \in 0 .. 2
  PROVE  Locks(<<"name">>, a, a)
<1>1. Locking(<<"name">>, a, a, [n \in 0 .. 1 |-> a])
  BY DEF Locking
<1>2. QED
  BY <1>1 DEF Locks

LEMMA LocksShow ==
  ASSUME NEW a \in 1 .. 2
  PROVE  Locks(<<"show">>, a, a - 1)
<1>1. Locking(<<"show">>, a, a - 1, [n \in 0 .. 1 |-> IF n = 0 THEN a ELSE a - 1])
  BY DEF Locking
<1>2. QED
  BY <1>1 DEF Locks

LEMMA LocksPlain ==
  ASSUME NEW S, NEW text \in Seq(S), NEW a \in 1 .. 2,
         \A n \in 1 .. Len(text) : text[n] \notin {"hide", "show"}
  PROVE  Locks(text, a, a)
<1>1. Locking(text, a, a, [n \in 0 .. Len(text) |-> a])
  BY DEF Locking
<1>2. QED
  BY <1>1 DEF Locks

LEMMA LocksScript ==
  ASSUME NEW S, NEW text \in Seq(S), NEW a \in BOOLEAN, NEW b \in BOOLEAN,
         Keeps(text, a, b)
  PROVE  Locks(text, IF a THEN 2 ELSE 1, IF b THEN 2 ELSE 1)
<1>1. PICK hidden \in [0 .. Len(text) -> BOOLEAN] :
        /\ hidden[0] = a /\ hidden[Len(text)] = b
        /\ \A n \in 1 .. Len(text) : Turns(text[n], hidden[n - 1], hidden[n])
  BY DEF Keeps
<1> DEFINE lock == [n \in 0 .. Len(text) |-> IF hidden[n] THEN 2 ELSE 1]
<1>2. Len(text) \in Nat
  OBVIOUS
<1>3. ASSUME NEW n \in 1 .. Len(text)
      PROVE  /\ text[n] = "hide" => ~ hidden[n - 1] /\ hidden[n]
             /\ text[n] = "show" => hidden[n - 1] /\ ~ hidden[n]
             /\ text[n] \notin {"hide", "show"} => hidden[n] = hidden[n - 1]
  <2>1. Turns(text[n], hidden[n - 1], hidden[n])
    BY <1>1
  <2>2. QED
    BY ONLY <2>1 DEF Turns
<1>4. ASSUME NEW n \in 1 .. Len(text)
      PROVE  n \in 0 .. Len(text) /\ n - 1 \in 0 .. Len(text)
             /\ hidden[n] \in BOOLEAN /\ hidden[n - 1] \in BOOLEAN
  BY <1>1, <1>2
<1>5. ASSUME NEW n \in 1 .. Len(text)
      PROVE  /\ text[n] = "hide" => lock[n - 1] = 1 /\ lock[n] = 2
             /\ text[n] = "show" => lock[n - 1] # 0 /\ lock[n] = lock[n - 1] - 1
             /\ text[n] \notin {"hide", "show"} => lock[n] = lock[n - 1] /\ lock[n - 1] # 0
  BY <1>3, <1>4
<1>6. lock \in [0 .. Len(text) -> 0 .. 2]
  OBVIOUS
<1>7. lock[0] = (IF a THEN 2 ELSE 1) /\ lock[Len(text)] = (IF b THEN 2 ELSE 1)
  BY <1>1, <1>2
<1> HIDE DEF lock
<1>8. Locking(text, IF a THEN 2 ELSE 1, IF b THEN 2 ELSE 1, lock)
  BY <1>5, <1>6, <1>7 DEF Locking
<1>9. QED
  BY <1>8 DEF Locks

LEMMA LocksBoth ==
  ASSUME NEW S, NEW u \in Seq(S), NEW v \in Seq(S), NEW a, NEW b, NEW c,
         Locks(u, a, b), Locks(v, b, c)
  PROVE  Locks(u \o v, a, c)
<1>1. PICK f : Locking(u, a, b, f)
  BY DEF Locks
<1>2. PICK g : Locking(v, b, c, g)
  BY DEF Locks
<1> DEFINE w == u \o v
           lock == [n \in 0 .. Len(w) |-> IF n <= Len(u) THEN f[n] ELSE g[n - Len(u)]]
<1>3. /\ Len(u) \in Nat /\ Len(v) \in Nat /\ Len(w) = Len(u) + Len(v)
      /\ \A n \in 1 .. Len(w) : w[n] = IF n <= Len(u) THEN u[n] ELSE v[n - Len(u)]
  OBVIOUS
<1>4. /\ f \in [0 .. Len(u) -> 0 .. 2] /\ f[0] = a /\ f[Len(u)] = b
      /\ g \in [0 .. Len(v) -> 0 .. 2] /\ g[0] = b /\ g[Len(v)] = c
  BY <1>1, <1>2 DEF Locking
<1> HIDE DEF w
<1>5. lock \in [0 .. Len(w) -> 0 .. 2]
  BY <1>3, <1>4
<1>6. lock[0] = a /\ lock[Len(w)] = c
  BY <1>3, <1>4
<1>7. ASSUME NEW n \in 1 .. Len(w)
      PROVE  \/ /\ n \in 1 .. Len(u) /\ w[n] = u[n]
                /\ lock[n - 1] = f[n - 1] /\ lock[n] = f[n]
             \/ \E m \in 1 .. Len(v) : /\ w[n] = v[m]
                                       /\ lock[n - 1] = g[m - 1] /\ lock[n] = g[m]
  <2>1. n \in 0 .. Len(w) /\ n - 1 \in 0 .. Len(w)
    BY <1>3
  <2>2. CASE n <= Len(u)
    BY <2>1, <2>2, <1>3
  <2>3. CASE ~ (n <= Len(u))
    <3>1. n - Len(u) \in 1 .. Len(v) /\ w[n] = v[n - Len(u)] /\ lock[n] = g[n - Len(u)]
      BY <2>1, <2>3, <1>3
    <3>2. lock[n - 1] = g[n - Len(u) - 1]
      <4>1. CASE n - 1 <= Len(u)
        <5>1. n - 1 = Len(u) /\ n - Len(u) - 1 = 0
          BY <4>1, <2>3, <1>3
        <5>2. QED
          BY <5>1, <2>1, <1>4
      <4>2. CASE ~ (n - 1 <= Len(u))
        <5>1. n - 1 - Len(u) = n - Len(u) - 1
          BY <1>3
        <5>2. QED
          BY <5>1, <4>2, <2>1
      <4>3. QED
        BY <4>1, <4>2
    <3>3. QED
      BY <3>1, <3>2
  <2>4. QED
    BY <2>2, <2>3
<1> HIDE DEF lock
<1>8. ASSUME NEW n \in 1 .. Len(w)
      PROVE  /\ w[n] = "hide" => lock[n - 1] = 1 /\ lock[n] = 2
             /\ w[n] = "show" => lock[n - 1] # 0 /\ lock[n] = lock[n - 1] - 1
             /\ w[n] \notin {"hide", "show"} =>
                  /\ lock[n] = lock[n - 1]
                  /\ lock[n - 1] = 0 => w[n] = "name"
  <2>1. CASE n \in 1 .. Len(u) /\ w[n] = u[n] /\ lock[n - 1] = f[n - 1] /\ lock[n] = f[n]
    BY <2>1, <1>1 DEF Locking
  <2>2. CASE \E m \in 1 .. Len(v) : /\ w[n] = v[m]
                                   /\ lock[n - 1] = g[m - 1] /\ lock[n] = g[m]
    BY <2>2, <1>2 DEF Locking
  <2>3. QED
    BY <1>7, <2>1, <2>2
<1>9. Locking(w, a, c, lock)
  BY <1>5, <1>6, <1>8 DEF Locking
<1>10. QED
  BY <1>9 DEF Locks, w

-----------------------------------------------------------------------------
(* Where the prompt stands in a text that is shown from column x on.       *)
Begins(text, x) ==
  \A n \in 1 .. Len(text) :
    text[n] = "$" => (n = 1 /\ x = 0) \/ (n = 2 /\ text[1] = "\n")

LEMMA TextFits ==
  ASSUME NEW t, Term(t), NEW text \in Seq(Token)
  PROVE  LET s == ShownAll(t, text) IN
         /\ Term(s)
         /\ Begins(text, t.x) => s.astray = t.astray
         /\ \A b : Proper(t) /\ Locks(text, t.lock, b) => Proper(s) /\ s.lock = b
<1>1. PICK f : /\ f[0] = t
               /\ \A n \in 1 .. Len(text) : f[n] = Shown(f[n - 1], text[n])
               /\ ShownAll(t, text) = f[Len(text)]
  BY ShownAllSteps
<1>2. Len(text) \in Nat /\ \A n \in 1 .. Len(text) : text[n] \in Token
  OBVIOUS
<1>3. SUFFICES
        ASSUME NEW b, NEW lock
        PROVE  /\ Term(f[Len(text)])
               /\ Begins(text, t.x) => f[Len(text)].astray = t.astray
               /\ Proper(t) /\ Locking(text, t.lock, b, lock) =>
                    Proper(f[Len(text)]) /\ f[Len(text)].lock = b
  <2>1. ShownAll(t, text) = f[Len(text)]
    BY <1>1
  <2>2. \A b : Locks(text, t.lock, b) => \E lock : Locking(text, t.lock, b, lock)
    BY DEF Locks
  <2> HIDE <1>1
  <2>3. QED
    BY <2>1, <2>2
<1> DEFINE Fine(n) ==
             /\ Term(f[n])
             /\ Begins(text, t.x) =>
                  /\ f[n].astray = t.astray
                  /\ n = 1 /\ text[1] = "\n" => f[n].x = 0
             /\ Proper(t) /\ Locking(text, t.lock, b, lock) =>
                  Proper(f[n]) /\ f[n].lock = lock[n]
           Bad == {n \in 0 .. Len(text) : ~ Fine(n)}
<1>4. Fine(0)
  <2>1. Locking(text, t.lock, b, lock) => lock[0] = t.lock
    BY DEF Locking
  <2>2. QED
    BY <1>1, <2>1
<1>5. ASSUME NEW n \in 1 .. Len(text), Fine(n - 1) PROVE Fine(n)
  <2> DEFINE s == f[n - 1]
             r == f[n]
  <2>1. r = Shown(s, text[n]) /\ text[n] \in Token
    BY <1>1, <1>2
  <2>2. /\ Term(s)
        /\ Begins(text, t.x) =>
             /\ s.astray = t.astray
             /\ n - 1 = 1 /\ text[1] = "\n" => s.x = 0
        /\ Proper(t) /\ Locking(text, t.lock, b, lock) =>
             Proper(s) /\ s.lock = lock[n - 1]
    BY <1>5
  <2>3. n = 1 => s.x = t.x
    BY <1>1
  <2> HIDE DEF s, r
  <2>4. /\ Term(r)
        /\ text[n] = "name" => r = s
        /\ Proper(s) /\ s.lock # 0 => Proper(r)
        /\ text[n] = "show" => r.lock = IF s.lock = 0 THEN 0 ELSE s.lock - 1
        /\ text[n] = "hide" => r.lock = s.lock + 1
        /\ text[n] \notin {"show", "hide"} => r.lock = s.lock
        /\ text[n] # "$" \/ s.x = 0 => r.astray = s.astray
        /\ text[n] = "\n" => r.x = 0
    BY <2>1, <2>2, ShownFits
  <2>5. ASSUME Begins(text, t.x)
        PROVE  r.astray = t.astray /\ (n = 1 /\ text[1] = "\n" => r.x = 0)
    <3>1. text[n] = "$" => s.x = 0
      <4>1. CASE n = 1
        BY <4>1, <2>3, <2>5 DEF Begins
      <4>2. CASE n # 1
        BY <4>2, <2>2, <2>5 DEF Begins
      <4>3. QED
        BY <4>1, <4>2
    <3>2. QED
      BY <3>1, <2>2, <2>4, <2>5
  <2>6. ASSUME Proper(t), Locking(text, t.lock, b, lock)
        PROVE  Proper(r) /\ r.lock = lock[n]
    <3>1. /\ text[n] = "hide" => lock[n - 1] = 1 /\ lock[n] = 2
          /\ text[n] = "show" => lock[n - 1] # 0 /\ lock[n] = lock[n - 1] - 1
          /\ text[n] \notin {"hide", "show"} =>
               /\ lock[n] = lock[n - 1]
               /\ lock[n - 1] = 0 => text[n] = "name"
      BY <2>6 DEF Locking
    <3>2. Proper(s) /\ s.lock = lock[n - 1]
      BY <2>2, <2>6
    <3>3. CASE text[n] = "hide"
      BY <3>1, <3>2, <3>3, <2>4
    <3>4. CASE text[n] = "show"
      BY <3>1, <3>2, <3>4, <2>4
    <3>5. CASE text[n] \notin {"hide", "show"}
      BY <3>1, <3>2, <3>5, <2>4
    <3>6. QED
      BY <3>3, <3>4, <3>5
  <2>7. QED
    BY <2>4, <2>5, <2>6 DEF r
<1>6. Bad = {}
  <2>1. SUFFICES ASSUME Bad # {} PROVE FALSE
    OBVIOUS
  <2>2. Bad \in SUBSET Nat
    BY <1>2
  <2> HIDE DEF Fine
  <2>3. PICK n \in Bad : \A m \in Bad : n <= m
    <3> HIDE DEF Bad
    <3>1. QED
      BY <2>1, <2>2, Least
  <2>4. n # 0
    BY <1>4, <2>3
  <2>5. n \in 1 .. Len(text) /\ n - 1 \in 0 .. Len(text) /\ n - 1 \notin Bad
    BY <2>3, <2>4, <1>2
  <2>6. Fine(n - 1)
    BY <2>5
  <2>7. QED
    BY <1>5, <2>5, <2>6, <2>3
<1>7. Fine(Len(text))
  <2> HIDE DEF Fine
  <2>1. QED
    BY <1>2, <1>6
<1>8. Locking(text, t.lock, b, lock) => lock[Len(text)] = b
  BY DEF Locking
<1>9. QED
  BY <1>7, <1>8

-----------------------------------------------------------------------------
MailKey == Typed \union {"none"}

TypistType == [keys : Seq(SUBSET Typed), script : Seq(Seq(STRING \ {"$"}))]
FeedType   == [text : Seq(Token), undefined : BOOLEAN, x : Nat]
MailType   == [1 .. MailLimit -> [to : {"none", "console", "shell", "job"}, key : MailKey]]
ShellType  ==
  [pc : {"header", "meta", "flag", "prompt", "key", "wait", "forward", "ended"},
   command : Seq(MailKey), alt : BOOLEAN, ctrl : BOOLEAN, x : Nat, fore : Jobs,
   mixed : BOOLEAN, torn : BOOLEAN]
JobType    == [Jobs -> Nat \union {-1}]

ConsoleTypes ==
  /\ typist \in TypistType
  /\ Term(term)
  /\ feed \in FeedType
  /\ mail \in MailType
  /\ shell \in ShellType
  /\ job \in JobType

(* How a program has left the cursor behind each of its texts.             *)
Hides(script, hidden) ==
  /\ hidden \in [0 .. Len(script) -> BOOLEAN]
  /\ ~ hidden[0]
  /\ \A n \in 1 .. Len(script) : Keeps(script[n], hidden[n - 1], hidden[n])

Hidden == CHOOSE hidden : Hides(typist.script, hidden)

Waiting == shell.pc \in {"wait", "forward"}

(* The shell waits for the only program.                                   *)
Alone == \A j \in Jobs : job[j] # -1 => j = shell.fore /\ Waiting

(* The metadata are those of a console that has shown everything; and so   *)
(* is the column that the shell has from them, until it uses it, if the    *)
(* flag that it read belongs to them.                                      *)
Told == ~ feed.undefined => feed.text = <<>> /\ feed.x = term.x

Fresh ==
  shell.pc = "prompt" => feed.text = <<>> /\ (~ shell.torn => shell.x = term.x)

Straight == ~ shell.torn => Begins(feed.text, term.x) /\ ~ term.astray

(* The lock as it will be when what waits is shown by the console, which   *)
(* holds it meanwhile: gone, if the shell has released what no program     *)
(* held.                                                                   *)
Closes(lock) ==
  /\ shell.pc \in {"header", "meta", "flag"} => lock \in {0, 1}
  /\ shell.pc \in {"prompt", "key", "ended"} => lock = 1
  /\ Waiting => /\ lock \in {1, 2}
                /\ job[shell.fore] # -1 =>
                     /\ job[shell.fore] <= Len(typist.script)
                     /\ lock = IF Hidden[job[shell.fore]] THEN 2 ELSE 1

Cursor ==
  /\ Proper(term)
  /\ term.lock \in {0, 1}
  /\ \E lock \in 0 .. 2 : Locks(feed.text, term.lock + 1, lock) /\ Closes(lock)

Apart ==
  /\ Alone
  /\ Fresh
  /\ Straight
  /\ Cursor

ConsoleInv ==
  /\ ConsoleTypes
  /\ Hides(typist.script, Hidden)
  /\ Told
  /\ ~ shell.mixed => Apart

-----------------------------------------------------------------------------
LEMMA ConsoleInvInit == ConsoleInit => ConsoleInv
<1> SUFFICES ASSUME ConsoleInit PROVE ConsoleInv
  OBVIOUS
<1> USE ConsoleAssumption
<1>1. typist \in TypistType /\ \E hidden : Hides(typist.script, hidden)
  BY TypistAssumption DEF ConsoleInit, TypistType, Hides
<1>2. Hides(typist.script, Hidden)
  BY <1>1 DEF Hidden
<1>3. Columns * Lines \in Nat \ {0}
  OBVIOUS
<1>4. 0 \in Grid
  BY <1>3 DEF Grid
<1>5. NewTerminal \in LooseType
  <2>1. [p \in Grid |-> " "] \in [Grid -> Token]
    BY DEF Token
  <2>2. <<0, 0>> \in (0 .. Columns - 1) \X (0 .. Lines - 1)
    OBVIOUS
  <2>3. QED
    BY <2>1, <2>2, <1>4 DEF NewTerminal, LooseType
<1>6. /\ term = NewTerminal /\ term.x = 0 /\ term.y = 0 /\ term.lock = 0 /\ term.on = {0}
      /\ term.astray = FALSE
  BY DEF ConsoleInit, NewTerminal
<1>7. Term(term)
  BY <1>5, <1>6 DEF Term
<1>8. Proper(term)
  <2>1. At(term) = 0
    BY <1>6 DEF At
  <2>2. QED
    BY <2>1, <1>6 DEF Proper
<1>9. /\ feed \in FeedType /\ feed.text = <<>> /\ feed.x = 0
  BY DEF ConsoleInit, NoFeed, FeedType
<1>10. mail \in MailType
  BY DEF ConsoleInit, MailType, NoMail, MailKey
<1>11. Min(Jobs) \in Jobs
  BY MinIsIn
<1>12. shell \in ShellType /\ shell.pc = "header"
  BY <1>11 DEF ConsoleInit, NewShell, ShellType
<1>13. job \in JobType /\ \A j \in Jobs : job[j] = -1
  BY DEF ConsoleInit, JobType
<1>14. ConsoleTypes
  BY <1>1, <1>7, <1>9, <1>10, <1>12, <1>13 DEF ConsoleTypes
<1>15. Told
  BY <1>6, <1>9 DEF Told
<1>16. Cursor
  <2>1. Locks(feed.text, term.lock + 1, 1)
    BY <1>6, <1>9, LocksNothing
  <2>2. Closes(1)
    BY <1>12 DEF Closes, Waiting
  <2>3. QED
    BY <2>1, <2>2, <1>6, <1>8 DEF Cursor
<1>17. Alone /\ Fresh /\ Straight
  BY <1>6, <1>9, <1>12, <1>13 DEF Alone, Fresh, Straight, Begins
<1>18. QED
  BY <1>2, <1>14, <1>15, <1>16, <1>17 DEF ConsoleInv, Apart

(* What says something keeps what waits before it.                         *)
LEMMA SayTypes ==
  ASSUME feed \in FeedType, NEW text \in Seq(Token), Say(text)
  PROVE  /\ feed' \in FeedType /\ feed'.text = feed.text \o text
         /\ feed'.undefined = TRUE
<1>1. feed.text \o text \in Seq(Token)
  BY DEF FeedType
<1>2. QED
  BY <1>1 DEF Say, FeedType

LEMMA SayBegins ==
  ASSUME NEW u \in Seq(Token), NEW v \in Seq(Token), NEW x, Begins(u, x),
         \A n \in 1 .. Len(v) : v[n] # "$"
  PROVE  Begins(u \o v, x)
<1> DEFINE w == u \o v
<1>1. /\ Len(u) \in Nat /\ Len(v) \in Nat /\ Len(w) = Len(u) + Len(v)
      /\ \A n \in 1 .. Len(w) : w[n] = IF n <= Len(u) THEN u[n] ELSE v[n - Len(u)]
  OBVIOUS
<1> HIDE DEF w
<1>2. ASSUME NEW n \in 1 .. Len(w), w[n] = "$"
      PROVE  (n = 1 /\ x = 0) \/ (n = 2 /\ w[1] = "\n")
  <2>1. n <= Len(u)
    <3>1. SUFFICES ASSUME ~ (n <= Len(u)) PROVE FALSE
      OBVIOUS
    <3>2. n - Len(u) \in 1 .. Len(v) /\ w[n] = v[n - Len(u)]
      BY <3>1, <1>1
    <3>3. QED
      BY <3>2, <1>2
  <2>2. n \in 1 .. Len(u) /\ u[n] = "$" /\ 1 \in 1 .. Len(w) /\ w[1] = u[1]
    BY <2>1, <1>1, <1>2
  <2>3. QED
    BY <2>2 DEF Begins
<1>3. QED
  BY <1>2 DEF Begins, w

-----------------------------------------------------------------------------
(* The steps, by what they leave alone: nothing but messages and keys      *)
(* moves; the shell or a program goes on in silence; it says something.    *)
LEMMA Kept ==
  ASSUME ConsoleInv, typist' \in TypistType, typist'.script = typist.script,
         mail' \in MailType, UNCHANGED <<term, feed, shell, job>>
  PROVE  ConsoleInv'
<1>1. ConsoleTypes'
  BY DEF ConsoleInv, ConsoleTypes, Term
<1>2. Hidden' = Hidden
  BY DEF Hidden
<1>3. Hides(typist.script, Hidden)'
  BY <1>2 DEF ConsoleInv, Hides
<1>4. Told'
  BY DEF ConsoleInv, Told
<1>5. ASSUME ~ shell'.mixed PROVE Apart'
  <2>1. Alone /\ Fresh /\ Straight /\ Cursor
    BY <1>5 DEF ConsoleInv, Apart
  <2>2. Alone' /\ Fresh' /\ Straight'
    BY <2>1 DEF Alone, Fresh, Waiting, Straight, Begins
  <2>3. PICK lock \in 0 .. 2 : Locks(feed.text, term.lock + 1, lock) /\ Closes(lock)
    BY <2>1 DEF Cursor
  <2>4. Closes(lock)'
    BY <2>3, <1>2 DEF Closes, Waiting
  <2>5. Locks(feed.text, term.lock + 1, lock)'
    BY <2>3
  <2>6. Proper(term)' /\ (term.lock \in {0, 1})'
    BY <2>1 DEF Cursor
  <2>7. Cursor'
    BY <2>4, <2>5, <2>6 DEF Cursor
  <2>8. QED
    BY <2>2, <2>7 DEF Apart
<1>6. QED
  BY <1>1, <1>3, <1>4, <1>5 DEF ConsoleInv

LEMMA Moved ==
  ASSUME ConsoleInv, UNCHANGED <<typist, term, feed>>,
         mail' \in MailType, shell' \in ShellType, job' \in JobType,
         shell.mixed => shell'.mixed, shell.torn => shell'.torn,
         ~ shell'.mixed => Alone' /\ Fresh',
         ASSUME NEW lock \in 0 .. 2, Apart, Locks(feed.text, term.lock + 1, lock), Closes(lock)
         PROVE  Closes(lock)'
  PROVE  ConsoleInv'
<1>1. ConsoleTypes'
  BY DEF ConsoleInv, ConsoleTypes, Term
<1>2. Hidden' = Hidden
  BY DEF Hidden
<1>3. Hides(typist.script, Hidden)'
  BY <1>2 DEF ConsoleInv, Hides
<1>4. Told'
  BY DEF ConsoleInv, Told
<1>5. ASSUME ~ shell'.mixed PROVE Apart'
  <2>1. Apart /\ Alone' /\ Fresh'
    BY <1>5 DEF ConsoleInv
  <2>2. Straight' /\ Cursor
    BY <2>1 DEF Apart, Straight, Begins
  <2>3. PICK lock \in 0 .. 2 : Locks(feed.text, term.lock + 1, lock) /\ Closes(lock)
    BY <2>2 DEF Cursor
  <2>4. Closes(lock)'
    BY <2>1, <2>3
  <2>5. Locks(feed.text, term.lock + 1, lock)'
    BY <2>3
  <2>6. Proper(term)' /\ (term.lock \in {0, 1})'
    BY <2>2 DEF Cursor
  <2>7. Cursor'
    BY <2>4, <2>5, <2>6 DEF Cursor
  <2>8. QED
    BY <2>1, <2>2, <2>7 DEF Apart
<1>6. QED
  BY <1>1, <1>3, <1>4, <1>5 DEF ConsoleInv

LEMMA Said ==
  ASSUME ConsoleInv, NEW text \in Seq(Token), Say(text), UNCHANGED <<typist, term>>,
         mail' \in MailType, shell' \in ShellType, job' \in JobType,
         shell'.pc # "prompt", shell.mixed => shell'.mixed, shell.torn => shell'.torn,
         ~ shell'.mixed => Alone' /\ (~ shell'.torn => Begins(feed.text \o text, term.x)),
         ASSUME NEW lock \in 0 .. 2, Apart, Locks(feed.text, term.lock + 1, lock), Closes(lock),
                ~ shell'.mixed
         PROVE  \E b \in 0 .. 2 : Locks(text, lock, b) /\ Closes(b)'
  PROVE  ConsoleInv'
<1>1. /\ feed \in FeedType /\ feed' \in FeedType /\ feed'.text = feed.text \o text
      /\ feed'.undefined = TRUE /\ feed.text \in Seq(Token)
  BY SayTypes DEF ConsoleInv, ConsoleTypes, FeedType
<1>2. ConsoleTypes'
  BY <1>1 DEF ConsoleInv, ConsoleTypes, Term
<1>3. Hidden' = Hidden
  BY DEF Hidden
<1>4. Hides(typist.script, Hidden)'
  BY <1>3 DEF ConsoleInv, Hides
<1>5. Told'
  BY <1>1 DEF Told
<1>6. ASSUME ~ shell'.mixed PROVE Apart'
  <2>1. Apart /\ Alone' /\ (~ shell'.torn => Begins(feed.text \o text, term.x))
    BY <1>6 DEF ConsoleInv
  <2>2. Cursor /\ (~ shell'.torn => ~ term'.astray)
    BY <2>1 DEF Apart, Straight
  <2>3. PICK lock \in 0 .. 2 : Locks(feed.text, term.lock + 1, lock) /\ Closes(lock)
    BY <2>2 DEF Cursor
  <2>4. PICK b \in 0 .. 2 : Locks(text, lock, b) /\ Closes(b)'
    BY <2>1, <2>3, <1>6
  <2>5. Locks(feed.text \o text, term.lock + 1, b)
    BY <2>3, <2>4, <1>1, LocksBoth
  <2>6. Locks(feed.text, term.lock + 1, b)'
    BY <2>5, <1>1
  <2>7. Proper(term)' /\ (term.lock \in {0, 1})'
    BY <2>2 DEF Cursor
  <2>8. Cursor'
    BY <2>4, <2>6, <2>7 DEF Cursor
  <2>9. Straight'
    BY <2>1, <2>2, <1>1 DEF Straight
  <2>10. Fresh'
    BY DEF Fresh
  <2>11. QED
    BY <2>1, <2>2, <2>8, <2>9, <2>10 DEF Apart
<1>7. QED
  BY <1>2, <1>4, <1>5, <1>6 DEF ConsoleInv

-----------------------------------------------------------------------------
(* Messages move in their table.                                           *)
LEMMA SentTypes ==
  ASSUME NEW table \in MailType, NEW to \in {"none", "console", "shell", "job"},
         NEW key \in MailKey
  PROVE  Sent(table, to, key) \in MailType
BY DEF Sent, MailType

LEMMA ForIsTo ==
  ASSUME mail \in MailType, NEW to, For(to) # {}
  PROVE  /\ Min(For(to)) \in 1 .. MailLimit
         /\ mail[Min(For(to))].key \in MailKey
<1>1. MailLimit \in Nat
  BY ConsoleAssumption
<1>2. For(to) \in SUBSET Nat /\ For(to) \subseteq 1 .. MailLimit
  BY <1>1 DEF For
<1>3. Min(For(to)) \in For(to)
  BY <1>2, MinIsIn
<1>4. QED
  BY <1>2, <1>3 DEF MailType

LEMMA ReceivedTypes ==
  ASSUME mail \in MailType, NEW i
  PROVE  [mail EXCEPT ![i] = NoMail] \in MailType
BY DEF MailType, NoMail, MailKey

LEMMA ForwardedTypes ==
  ASSUME mail \in MailType, NEW to \in {"none", "console", "shell", "job"},
         NEW from, For(from) # {}
  PROVE  Forwarded(Min(For(from)), to) \in MailType
BY ForIsTo, ReceivedTypes, SentTypes DEF Forwarded

LEMMA MailStep == ConsoleInv /\ ConsoleMail => ConsoleInv'
<1> SUFFICES ASSUME ConsoleInv, ConsoleMail PROVE ConsoleInv'
  OBVIOUS
<1>1. mail \in MailType /\ typist \in TypistType
  BY DEF ConsoleInv, ConsoleTypes
<1>2. For("console") # {} => Forwarded(Min(For("console")), "shell") \in MailType
  BY <1>1, ForwardedTypes
<1>3. mail' \in MailType
  BY <1>1, <1>2 DEF ConsoleMail
<1>4. QED
  BY <1>1, <1>3, Kept DEF ConsoleMail

LEMMA ReadStep == ConsoleInv /\ JobReads => ConsoleInv'
<1> SUFFICES ASSUME ConsoleInv, JobReads PROVE ConsoleInv'
  OBVIOUS
<1>1. mail \in MailType /\ typist \in TypistType
  BY DEF ConsoleInv, ConsoleTypes
<1>2. mail' \in MailType
  BY <1>1, ReceivedTypes DEF JobReads
<1>3. QED
  BY <1>1, <1>2, Kept DEF JobReads

LEMMA TypeStep == ConsoleInv /\ Type => ConsoleInv'
<1> SUFFICES ASSUME ConsoleInv, Type PROVE ConsoleInv'
  OBVIOUS
<1>1. mail \in MailType /\ typist \in TypistType
  BY DEF ConsoleInv, ConsoleTypes
<1>2. typist.keys \in Seq(SUBSET Typed) /\ typist.keys # <<>>
  BY <1>1 DEF TypistType, Type
<1>3. Head(typist.keys) \in SUBSET Typed /\ Tail(typist.keys) \in Seq(SUBSET Typed)
  BY <1>2
<1>4. typist' \in TypistType /\ typist'.script = typist.script
  BY <1>1, <1>3 DEF Type, TypistType
<1>5. PICK key \in Head(typist.keys) : mail' = Sent(mail, "console", key)
  BY DEF Type
<1>6. key \in MailKey
  BY <1>3 DEF MailKey
<1>7. mail' \in MailType
  BY <1>1, <1>5, <1>6, SentTypes
<1>8. QED
  BY <1>4, <1>7, Kept DEF Type

-----------------------------------------------------------------------------
(* The console shows what waits, or tells the shell where the cursor is.   *)
LEMMA StreamStep == ConsoleInv /\ ConsoleStream => ConsoleInv'
<1> SUFFICES ASSUME ConsoleInv, ConsoleStream PROVE ConsoleInv'
  OBVIOUS
<1>1. mail \in MailType /\ typist \in TypistType /\ feed \in FeedType /\ Term(term)
  BY DEF ConsoleInv, ConsoleTypes
<1>2. CASE feed.text = <<>>
  BY <1>1, <1>2, Kept DEF ConsoleStream
<1>3. CASE feed.text # <<>>
  <2> DEFINE u == CursorDisable(term)
             v == ShownAll(u, feed.text)
  <2>1. /\ term' = CursorEnable(v)
        /\ feed' = [feed EXCEPT !.text = <<>>]
        /\ UNCHANGED <<typist, mail, shell, job>>
    BY <1>3 DEF ConsoleStream
  <2>2. /\ Term(u) /\ u.x = term.x /\ u.lock = term.lock + 1 /\ u.astray = term.astray
        /\ Proper(term) => u.on = {}
    BY <1>1, DisableFits
  <2> HIDE DEF u
  <2>3. feed.text \in Seq(Token)
    BY <1>1 DEF FeedType
  <2>4. /\ Term(v)
        /\ Begins(feed.text, u.x) => v.astray = u.astray
        /\ \A b : Proper(u) /\ Locks(feed.text, u.lock, b) => Proper(v) /\ v.lock = b
    BY <2>2, <2>3, TextFits
  <2> HIDE DEF v
  <2>5. /\ Term(term') /\ term'.astray = v.astray
        /\ term'.lock = IF v.lock = 0 THEN 0 ELSE v.lock - 1
        /\ Proper(v) => Proper(term')
    BY <2>1, <2>4, EnableFits
  <2>6. /\ feed' \in FeedType /\ feed'.text = <<>> /\ feed'.undefined = feed.undefined
    <3>1. feed' = [feed EXCEPT !.text = <<>>] /\ feed \in FeedType /\ <<>> \in Seq(Token)
      BY <1>1, <2>1
    <3>2. QED
      BY ONLY <3>1 DEF FeedType
  <2>7. ConsoleTypes'
    BY <2>1, <2>5, <2>6 DEF ConsoleInv, ConsoleTypes, Term
  <2>8. Hidden' = Hidden
    BY <2>1 DEF Hidden
  <2>9. Hides(typist.script, Hidden)'
    BY <2>1, <2>8 DEF ConsoleInv, Hides
  <2>10. Told'
    BY <2>6, <1>3 DEF ConsoleInv, Told
  <2>11. ASSUME ~ shell'.mixed PROVE Apart'
    <3>1. Alone /\ Fresh /\ Straight /\ Cursor
      BY <2>11, <2>1 DEF ConsoleInv, Apart
    <3>2. Alone'
      BY <3>1, <2>1 DEF Alone, Waiting
    <3>3. Fresh'
      BY <3>1, <2>1, <1>3 DEF Fresh
    <3>4. Begins(feed.text, term.x)'
      BY <2>6 DEF Begins
    <3>5. Straight'
      BY <3>1, <3>4, <2>1, <2>2, <2>4, <2>5 DEF Straight
    <3>6. PICK lock \in 0 .. 2 : Locks(feed.text, term.lock + 1, lock) /\ Closes(lock)
      BY <3>1 DEF Cursor
    <3>7. Proper(term) /\ term.lock \in {0, 1}
      BY <3>1 DEF Cursor
    <3>8. Proper(u)
      <4>1. u.lock # 0 /\ u.on = {}
        BY <3>7, <2>2
      <4>2. QED
        BY <4>1, LockedProper
    <3>9. Proper(v) /\ v.lock = lock
      BY <3>6, <3>8, <2>2, <2>4
    <3> DEFINE last == IF lock = 0 THEN 1 ELSE lock
    <3>10. /\ Proper(term') /\ term'.lock \in {0, 1}
           /\ last \in 0 .. 2 /\ term'.lock + 1 = last
      BY <3>9, <2>5
    <3>11. Locks(feed'.text, term'.lock + 1, last)
      BY <3>10, <2>6, LocksNothing
    <3>12. Closes(last)'
      BY <3>6, <2>1, <2>8 DEF Closes, Waiting
    <3>13. Cursor'
      <4> HIDE DEF last
      <4>1. QED
        BY <3>10, <3>11, <3>12 DEF Cursor
    <3>14. QED
      BY <3>2, <3>3, <3>5, <3>13 DEF Apart
  <2>12. QED
    BY <2>7, <2>9, <2>10, <2>11 DEF ConsoleInv
<1>4. QED
  BY <1>2, <1>3

LEMMA MetaDataStep == ConsoleInv /\ ConsoleMeta => ConsoleInv'
<1> SUFFICES ASSUME ConsoleInv, ConsoleMeta PROVE ConsoleInv'
  OBVIOUS
<1>1. /\ feed \in FeedType /\ term.x \in Nat /\ UNCHANGED <<typist, term, mail, shell, job>>
  BY DEF ConsoleInv, ConsoleTypes, Term, LooseType, ConsoleMeta
<1>2. /\ feed' \in FeedType /\ feed'.text = feed.text
      /\ feed.text = <<>> => feed'.x = term.x
      /\ feed.text # <<>> => feed' = feed
  BY <1>1 DEF ConsoleMeta, FeedType
<1>3. ConsoleTypes'
  BY <1>1, <1>2 DEF ConsoleInv, ConsoleTypes, Term
<1>4. Hidden' = Hidden
  BY <1>1 DEF Hidden
<1>5. Hides(typist.script, Hidden)'
  BY <1>1, <1>4 DEF ConsoleInv, Hides
<1>6. Told'
  BY <1>1, <1>2 DEF ConsoleInv, Told
<1>7. ASSUME ~ shell'.mixed PROVE Apart'
  <2>1. Alone /\ Fresh /\ Straight /\ Cursor
    BY <1>1, <1>7 DEF ConsoleInv, Apart
  <2>2. Alone' /\ Fresh' /\ Straight'
    BY <2>1, <1>1, <1>2 DEF Alone, Fresh, Waiting, Straight, Begins
  <2>3. PICK lock \in 0 .. 2 : Locks(feed.text, term.lock + 1, lock) /\ Closes(lock)
    BY <2>1 DEF Cursor
  <2>4. Closes(lock)'
    BY <2>3, <1>1, <1>4 DEF Closes, Waiting
  <2>5. Locks(feed.text, term.lock + 1, lock)'
    BY <2>3, <1>1, <1>2
  <2>6. Proper(term)' /\ (term.lock \in {0, 1})'
    BY <2>1, <1>1 DEF Cursor
  <2>7. Cursor'
    BY <2>4, <2>5, <2>6 DEF Cursor
  <2>8. QED
    BY <2>2, <2>7 DEF Apart
<1>8. QED
  BY <1>3, <1>5, <1>6, <1>7 DEF ConsoleInv

-----------------------------------------------------------------------------
(* The shell, from one prompt to the next.                                 *)
LEMMA ShellPc ==
  ASSUME NEW at \in {"header", "meta", "flag", "prompt", "key", "wait", "forward", "ended"},
         shell \in ShellType
  PROVE  LET s == [shell EXCEPT !.pc = at] IN
         /\ s \in ShellType /\ s.pc = at /\ s.mixed = shell.mixed /\ s.torn = shell.torn
         /\ s.fore = shell.fore /\ s.x = shell.x
BY DEF ShellType

(* What is said has no prompt, and does nothing to the lock.               *)
Neutral(text) ==
  \A n \in 1 .. Len(text) : text[n] \notin {"$", "hide", "show"}

LEMMA NeutralSaid ==
  ASSUME ConsoleInv, NEW text \in Seq(Token), Neutral(text)
  PROVE  /\ \A x : Begins(feed.text, x) => Begins(feed.text \o text, x)
         /\ \A lock \in 1 .. 2 : Locks(text, lock, lock)
<1>1. feed.text \in Seq(Token)
  BY DEF ConsoleInv, ConsoleTypes, FeedType
<1>2. \A n \in 1 .. Len(text) : text[n] # "$" /\ text[n] \notin {"hide", "show"}
  BY DEF Neutral
<1>3. QED
  BY <1>1, <1>2, SayBegins, LocksPlain

(* Nothing runs while the shell does not wait, and it goes on not to wait. *)
LEMMA StaysAlone ==
  ASSUME Alone, ~ Waiting, UNCHANGED job
  PROVE  Alone'
BY DEF Alone

LEMMA NewPromptStep == ConsoleInv /\ NewPrompt => ConsoleInv'
<1> SUFFICES ASSUME ConsoleInv, NewPrompt PROVE ConsoleInv'
  OBVIOUS
<1> DEFINE text == <<"name">>
<1>1. /\ mail \in MailType /\ shell \in ShellType /\ job \in JobType
      /\ feed.text \in Seq(Token) /\ text \in Seq(Token)
  <2>1. text \in Seq(Token)
    BY DEF Token
  <2> HIDE DEF text
  <2>2. QED
    BY <2>1 DEF ConsoleInv, ConsoleTypes, FeedType
<1>2. /\ shell' \in ShellType /\ shell'.pc = "meta" /\ shell'.mixed = shell.mixed
      /\ shell'.torn = shell.torn
      /\ shell.pc = "header"
  <2>1. <<>> \in Seq(MailKey) /\ shell \in ShellType
    BY <1>1
  <2>2. shell.pc = "header" /\ shell' = [shell EXCEPT !.pc = "meta", !.command = <<>>]
    BY DEF NewPrompt
  <2>3. QED
    BY ONLY <2>1, <2>2 DEF ShellType
<1>3. Say(text) /\ UNCHANGED <<typist, term, mail, console, job>>
  BY DEF NewPrompt
<1>4. ASSUME ~ shell'.mixed
      PROVE  Alone' /\ (~ shell'.torn => Begins(feed.text \o text, term.x))
  <2>1. Alone /\ Straight
    BY <1>2, <1>4 DEF ConsoleInv, Apart
  <2>2. \A n \in 1 .. Len(text) : text[n] # "$"
    OBVIOUS
  <2> HIDE DEF text
  <2>3. Begins(feed.text, term.x) => Begins(feed.text \o text, term.x)
    BY <2>2, <1>1, SayBegins
  <2>4. QED
    BY <2>1, <2>3, <1>2, <1>3, StaysAlone DEF Waiting, Straight
<1>5. ASSUME NEW lock \in 0 .. 2, Closes(lock)
      PROVE  \E b \in 0 .. 2 : Locks(text, lock, b) /\ Closes(b)'
  <2>1. Locks(text, lock, lock)
    BY LocksName
  <2>2. Closes(lock)'
    BY <1>5, <1>2 DEF Closes, Waiting
  <2>3. QED
    BY <2>1, <2>2
<1> HIDE DEF text
<1>6. QED
  BY <1>1, <1>2, <1>3, <1>4, <1>5, Said

LEMMA ToldStep == ConsoleInv /\ Meta => ConsoleInv'
<1> SUFFICES ASSUME ConsoleInv, Meta PROVE ConsoleInv'
  OBVIOUS
<1>1. mail \in MailType /\ shell \in ShellType /\ job \in JobType /\ feed \in FeedType
  BY DEF ConsoleInv, ConsoleTypes
<1>2. /\ shell' \in ShellType /\ shell'.pc = "flag" /\ shell'.mixed = shell.mixed
      /\ shell'.torn = shell.torn /\ shell.pc = "meta"
  BY <1>1 DEF Meta, ShellType, FeedType
<1>3. UNCHANGED <<typist, term, feed, mail, job>>
  BY DEF Meta
<1>4. ASSUME ~ shell'.mixed PROVE Alone' /\ Fresh'
  <2>1. Alone
    BY <1>2, <1>4 DEF ConsoleInv, Apart
  <2>2. QED
    BY <2>1, <1>2, <1>3, StaysAlone DEF Waiting, Fresh
<1>5. ASSUME NEW lock \in 0 .. 2, Closes(lock) PROVE Closes(lock)'
  BY <1>2, <1>5 DEF Closes, Waiting
<1>6. QED
  BY <1>1, <1>2, <1>3, <1>4, <1>5, Moved

(* With the flag clear all that was said is shown, and the column that the *)
(* shell copied is the console's, or another one than the stream has now.  *)
LEMMA FlagStep == ConsoleInv /\ Flag => ConsoleInv'
<1> SUFFICES ASSUME ConsoleInv, Flag PROVE ConsoleInv'
  OBVIOUS
<1>1. mail \in MailType /\ shell \in ShellType /\ job \in JobType /\ feed \in FeedType
  BY DEF ConsoleInv, ConsoleTypes
<1>2. /\ shell.pc = "flag" /\ UNCHANGED <<typist, term, feed, mail, job>>
      /\ shell' = IF feed.undefined THEN [shell EXCEPT !.pc = "meta"]
                  ELSE [shell EXCEPT !.pc = "prompt", !.torn = @ \/ shell.x # feed.x]
  BY DEF Flag
<1>3. CASE feed.undefined
  <2>1. /\ shell' \in ShellType /\ shell'.pc = "meta" /\ shell'.mixed = shell.mixed
        /\ shell'.torn = shell.torn
    BY <1>1, <1>2, <1>3, ShellPc
  <2>2. ASSUME ~ shell'.mixed PROVE Alone' /\ Fresh'
    <3>1. Alone
      BY <2>1, <2>2 DEF ConsoleInv, Apart
    <3>2. QED
      BY <3>1, <2>1, <1>2, StaysAlone DEF Waiting, Fresh
  <2>3. ASSUME NEW lock \in 0 .. 2, Closes(lock) PROVE Closes(lock)'
    BY <1>2, <2>1, <2>3 DEF Closes, Waiting
  <2>4. QED
    BY <1>1, <1>2, <2>1, <2>2, <2>3, Moved
<1>4. CASE ~ feed.undefined
  <2>1. feed.text = <<>> /\ feed.x = term.x
    BY <1>4 DEF ConsoleInv, Told
  <2>2. shell' = [shell EXCEPT !.pc = "prompt", !.torn = @ \/ shell.x # feed.x]
    BY <1>2, <1>4
  <2>3. /\ shell' \in ShellType /\ shell'.pc = "prompt" /\ shell'.mixed = shell.mixed
        /\ shell'.torn = (shell.torn \/ shell.x # feed.x) /\ shell'.x = shell.x
    BY <1>1, <2>2 DEF ShellType
  <2>4. ASSUME ~ shell'.mixed PROVE Alone' /\ Fresh'
    <3>1. Alone
      BY <2>3, <2>4 DEF ConsoleInv, Apart
    <3>2. Alone'
      BY <3>1, <1>2, StaysAlone DEF Waiting
    <3>3. QED
      BY <3>2, <2>1, <2>3, <1>2 DEF Fresh
  <2>5. ASSUME NEW lock \in 0 .. 2, Apart, Locks(feed.text, term.lock + 1, lock),
               Closes(lock)
        PROVE  Closes(lock)'
    <3>1. term.lock \in {0, 1}
      BY <2>5 DEF Apart, Cursor
    <3>2. term.lock + 1 \in 0 .. 2
      BY <3>1
    <3>3. lock = term.lock + 1
      BY <3>2, <2>1, <2>5, LocksNothing
    <3>4. lock \in {0, 1}
      BY <1>2, <2>5 DEF Closes
    <3>5. lock = 1
      BY <3>1, <3>3, <3>4
    <3>6. QED
      BY <3>5, <2>3 DEF Closes, Waiting
  <2>6. QED
    BY <1>1, <1>2, <2>3, <2>4, <2>5, Moved
<1>5. QED
  BY <1>3, <1>4

LEMMA PromptStep == ConsoleInv /\ Prompt => ConsoleInv'
<1> SUFFICES ASSUME ConsoleInv, Prompt PROVE ConsoleInv'
  OBVIOUS
<1> DEFINE text == IF shell.x = 0 THEN <<"$", " ">> ELSE <<"\n", "$", " ">>
<1>1. /\ mail \in MailType /\ shell \in ShellType /\ job \in JobType
      /\ feed.text \in Seq(Token)
  BY DEF ConsoleInv, ConsoleTypes, FeedType
<1>2. /\ shell' \in ShellType /\ shell'.pc = "key" /\ shell'.mixed = shell.mixed
      /\ shell'.torn = shell.torn
      /\ shell.pc = "prompt"
  BY <1>1, ShellPc DEF Prompt
<1>3. Say(text) /\ UNCHANGED <<typist, term, mail, console, job>>
  BY DEF Prompt
<1>4. text = IF shell.x = 0 THEN <<"$", " ">> ELSE <<"\n", "$", " ">>
  OBVIOUS
<1> HIDE DEF text
<1>5. /\ text \in Seq(Token)
      /\ \A n \in 1 .. Len(text) : text[n] \notin {"hide", "show"}
      /\ Begins(text, shell.x)
  <2>1. CASE shell.x = 0
    <3>1. text = <<"$", " ">>
      BY <1>4, <2>1
    <3>2. <<"$", " ">> \in Seq(Token)
      BY DEF Token
    <3>3. ASSUME NEW n \in 1 .. Len(text) PROVE text[n] \in {"$", " "} /\ n \in {1, 2}
      <4>1. Len(text) = 2 /\ text[1] = "$" /\ text[2] = " "
        BY <3>1
      <4>2. n \in 1 .. 2
        BY <4>1
      <4>3. n \in {1, 2}
        BY <4>2
      <4>4. QED
        BY <4>1, <4>3
    <3>4. text[2] = " "
      BY <3>1
    <3>5. Begins(text, shell.x)
      <4> SUFFICES ASSUME NEW n \in 1 .. Len(text), text[n] = "$" PROVE n = 1
        BY <2>1 DEF Begins
      <4>1. QED
        BY <3>3, <3>4
    <3>6. QED
      BY <3>1, <3>2, <3>3, <3>5
  <2>2. CASE shell.x # 0
    <3>1. text = <<"\n", "$", " ">>
      BY <1>4, <2>2
    <3>2. <<"\n", "$", " ">> \in Seq(Token)
      BY DEF Token
    <3>3. ASSUME NEW n \in 1 .. Len(text)
          PROVE  text[n] \in {"\n", "$", " "} /\ n \in {1, 2, 3}
      <4>1. Len(text) = 3 /\ text[1] = "\n" /\ text[2] = "$" /\ text[3] = " "
        BY <3>1
      <4>2. n \in 1 .. 3
        BY <4>1
      <4>3. n \in {1, 2, 3}
        BY <4>2
      <4>4. QED
        BY <4>1, <4>3
    <3>4. text[1] = "\n" /\ text[3] = " "
      BY <3>1
    <3>5. Begins(text, shell.x)
      <4> SUFFICES ASSUME NEW n \in 1 .. Len(text), text[n] = "$" PROVE n = 2
        BY <3>4 DEF Begins
      <4>1. QED
        BY <3>3, <3>4
    <3>6. QED
      BY <3>1, <3>2, <3>3, <3>5
  <2>3. QED
    BY <2>1, <2>2
<1>6. ASSUME ~ shell'.mixed
      PROVE  Alone' /\ (~ shell'.torn => Begins(feed.text \o text, term.x))
  <2>1. Alone /\ Fresh
    BY <1>2, <1>6 DEF ConsoleInv, Apart
  <2>2. feed.text = <<>> /\ (~ shell.torn => shell.x = term.x)
    BY <2>1, <1>2 DEF Fresh
  <2>3. feed.text \o text = text
    BY <2>2, <1>5
  <2>4. ~ shell'.torn => Begins(feed.text \o text, term.x)
    BY <2>2, <2>3, <1>2, <1>5
  <2>5. Alone'
    BY <2>1, <1>2, <1>3, StaysAlone DEF Waiting
  <2>6. QED
    BY <2>4, <2>5
<1>7. ASSUME NEW lock \in 0 .. 2, Closes(lock)
      PROVE  \E b \in 0 .. 2 : Locks(text, lock, b) /\ Closes(b)'
  <2>1. lock = 1
    BY <1>2, <1>7 DEF Closes
  <2>2. Locks(text, 1, 1)
    BY <1>5, LocksPlain
  <2>3. Closes(1)'
    BY <1>2 DEF Closes, Waiting
  <2>4. QED
    BY <2>1, <2>2, <2>3
<1>8. QED
  BY <1>1, <1>2, <1>3, <1>5, <1>6, <1>7, Said

LEMMA WaitStep == ConsoleInv /\ Wait => ConsoleInv'
<1> SUFFICES ASSUME ConsoleInv, Wait PROVE ConsoleInv'
  OBVIOUS
<1>1. /\ mail \in MailType /\ shell \in ShellType /\ job \in JobType
      /\ feed.text \in Seq(Token) /\ shell.pc = "wait"
      /\ UNCHANGED <<typist, term, mail, job>>
  BY DEF ConsoleInv, ConsoleTypes, FeedType, Wait
<1>2. CASE job[shell.fore] = -1
  <2> DEFINE text == <<"show">>
  <2>1. Say(text) /\ shell' = [shell EXCEPT !.pc = "header"]
    BY <1>2 DEF Wait
  <2>2. /\ shell' \in ShellType /\ shell'.pc = "header" /\ shell'.mixed = shell.mixed
        /\ shell'.torn = shell.torn
    BY <1>1, <2>1, ShellPc
  <2>3. text \in Seq(Token) /\ \A n \in 1 .. Len(text) : text[n] # "$"
    BY DEF Token
  <2>4. ASSUME NEW lock \in 1 .. 2 PROVE Locks(text, lock, lock - 1)
    BY LocksShow
  <2> HIDE DEF text
  <2>5. ASSUME ~ shell'.mixed
        PROVE  Alone' /\ (~ shell'.torn => Begins(feed.text \o text, term.x))
    <3>1. Alone /\ Straight
      BY <2>2, <2>5 DEF ConsoleInv, Apart
    <3>2. Begins(feed.text, term.x) => Begins(feed.text \o text, term.x)
      BY <2>3, <1>1, SayBegins
    <3>3. \A j \in Jobs : job[j] = -1
      BY <3>1, <1>2 DEF Alone
    <3>4. QED
      BY <3>1, <3>2, <3>3, <2>2, <1>1 DEF Alone, Straight
  <2>6. ASSUME NEW lock \in 0 .. 2, Closes(lock)
        PROVE  \E b \in 0 .. 2 : Locks(text, lock, b) /\ Closes(b)'
    <3>1. lock \in {1, 2}
      BY <2>6, <1>1 DEF Closes, Waiting
    <3>2. lock - 1 \in {0, 1} /\ lock - 1 \in 0 .. 2 /\ Locks(text, lock, lock - 1)
      BY <3>1, <2>4
    <3>3. Closes(lock - 1)'
      BY <3>2, <2>2 DEF Closes, Waiting
    <3>4. QED
      BY <3>2, <3>3
  <2>7. QED
    BY <1>1, <2>1, <2>2, <2>3, <2>5, <2>6, Said
<1>3. CASE job[shell.fore] # -1
  <2>1. shell' = [shell EXCEPT !.pc = "forward"] /\ UNCHANGED feed
    BY <1>3 DEF Wait
  <2>2. /\ shell' \in ShellType /\ shell'.pc = "forward" /\ shell'.mixed = shell.mixed
        /\ shell'.torn = shell.torn
        /\ shell'.fore = shell.fore
    BY <1>1, <2>1, ShellPc
  <2>3. ASSUME ~ shell'.mixed PROVE Alone' /\ Fresh'
    BY <2>2, <2>3, <1>1 DEF ConsoleInv, Apart, Alone, Fresh, Waiting
  <2>4. ASSUME NEW lock \in 0 .. 2, Closes(lock) PROVE Closes(lock)'
    BY <2>2, <2>4, <1>1 DEF Closes, Waiting, Hidden
  <2>5. QED
    BY <1>1, <2>1, <2>2, <2>3, <2>4, Moved
<1>4. QED
  BY <1>2, <1>3

LEMMA ForwardStep == ConsoleInv /\ Forward => ConsoleInv'
<1> SUFFICES ASSUME ConsoleInv, Forward PROVE ConsoleInv'
  OBVIOUS
<1>1. /\ mail \in MailType /\ shell \in ShellType /\ job \in JobType /\ shell.pc = "forward"
      /\ UNCHANGED <<typist, term, feed, job>>
  BY DEF ConsoleInv, ConsoleTypes, Forward
<1>2. For("shell") # {} => Forwarded(Min(For("shell")), "job") \in MailType
  BY <1>1, ForwardedTypes
<1>3. mail' \in MailType
  BY <1>1, <1>2 DEF Forward
<1>4. /\ shell' \in ShellType /\ shell'.pc = "wait" /\ shell'.mixed = shell.mixed
      /\ shell'.torn = shell.torn
      /\ shell'.fore = shell.fore
  BY <1>1, ShellPc DEF Forward
<1>5. ASSUME ~ shell'.mixed PROVE Alone' /\ Fresh'
  BY <1>4, <1>5, <1>1 DEF ConsoleInv, Apart, Alone, Fresh, Waiting
<1>6. ASSUME NEW lock \in 0 .. 2, Closes(lock) PROVE Closes(lock)'
  BY <1>4, <1>6, <1>1 DEF Closes, Waiting, Hidden
<1>7. QED
  BY <1>1, <1>3, <1>4, <1>5, <1>6, Moved

-----------------------------------------------------------------------------
(* A key, while the shell does not wait for a program.                     *)
LEMMA Answered ==
  ASSUME ConsoleInv, shell.pc = "key", NEW text \in Seq(Token), Neutral(text),
         Say(text) \/ UNCHANGED feed,
         UNCHANGED <<typist, term, job>>, mail' \in MailType, shell' \in ShellType,
         shell'.pc \in {"key", "header", "ended"}, shell'.mixed = shell.mixed,
         shell'.torn = shell.torn
  PROVE  ConsoleInv'
<1>1. job' \in JobType
  BY DEF ConsoleInv, ConsoleTypes
<1>2. ASSUME ~ shell'.mixed PROVE Alone' /\ Fresh' /\ Straight
  <2>1. Alone /\ Straight
    BY <1>2 DEF ConsoleInv, Apart
  <2>2. QED
    BY <2>1, StaysAlone DEF Waiting, Fresh
<1>3. ASSUME NEW lock \in 0 .. 2, Closes(lock) PROVE lock = 1 /\ Closes(lock)'
  <2>1. lock = 1
    BY <1>3 DEF Closes
  <2>2. QED
    BY <2>1 DEF Closes, Waiting
<1>4. CASE Say(text)
  <2>1. /\ \A x : Begins(feed.text, x) => Begins(feed.text \o text, x)
        /\ Locks(text, 1, 1)
    BY NeutralSaid
  <2>2. ASSUME ~ shell'.mixed
        PROVE  Alone' /\ (~ shell'.torn => Begins(feed.text \o text, term.x))
    BY <2>1, <2>2, <1>2 DEF Straight
  <2>3. QED
    BY <2>1, <2>2, <1>1, <1>3, <1>4, Said
<1>5. CASE UNCHANGED feed
  BY <1>1, <1>2, <1>3, <1>5, Moved
<1>6. QED
  BY <1>4, <1>5

LEMMA NeutralTexts ==
  /\ <<"\n">> \in Seq(Token) /\ Neutral(<<"\n">>)
  /\ <<".">> \in Seq(Token) /\ Neutral(<<".">>)
  /\ <<"back">> \in Seq(Token) /\ Neutral(<<"back">>)
  /\ <<"\n", "clear">> \in Seq(Token) /\ Neutral(<<"\n", "clear">>)
  /\ <<"\n", "'", "?">> \in Seq(Token) /\ Neutral(<<"\n", "'", "?">>)
  /\ \A key \in MailKey : <<key>> \in Seq(Token) /\ Neutral(<<key>>)
<1>1. <<"\n">> \in Seq(Token) /\ Neutral(<<"\n">>)
  BY DEF Token, Neutral
<1>2. <<".">> \in Seq(Token) /\ Neutral(<<".">>)
  BY DEF Token, Neutral
<1>3. <<"back">> \in Seq(Token) /\ Neutral(<<"back">>)
  BY DEF Token, Neutral
<1>4. <<"\n", "clear">> \in Seq(Token)
  BY DEF Token
<1>5. Neutral(<<"\n", "clear">>)
  <2> DEFINE u == <<"\n", "clear">>
  <2>1. Len(u) = 2 /\ u[1] = "\n" /\ u[2] = "clear"
    OBVIOUS
  <2> HIDE DEF u
  <2>2. \A n \in 1 .. Len(u) : n = 1 \/ n = 2
    BY <2>1
  <2>3. Neutral(u)
    BY <2>1, <2>2 DEF Neutral
  <2>4. QED
    BY <2>3 DEF u
<1>6. <<"\n", "'", "?">> \in Seq(Token)
  BY DEF Token
<1>7. Neutral(<<"\n", "'", "?">>)
  <2> DEFINE u == <<"\n", "'", "?">>
  <2>1. Len(u) = 3 /\ u[1] = "\n" /\ u[2] = "'" /\ u[3] = "?"
    OBVIOUS
  <2> HIDE DEF u
  <2>2. \A n \in 1 .. Len(u) : n = 1 \/ n = 2 \/ n = 3
    BY <2>1
  <2>3. Neutral(u)
    BY <2>1, <2>2 DEF Neutral
  <2>4. QED
    BY <2>3 DEF u
<1>8. ASSUME NEW key \in MailKey PROVE <<key>> \in Seq(Token) /\ Neutral(<<key>>)
  <2>1. key \in Token /\ key \notin {"$", "hide", "show"}
    BY DEF MailKey, Typed, Token
  <2>2. QED
    BY <2>1 DEF Neutral
<1>9. QED
  BY <1>1, <1>2, <1>3, <1>4, <1>5, <1>6, <1>7, <1>8

(* The command line is executed, in the foreground or in the background.   *)
LEMMA ExecuteStep ==
  ASSUME ConsoleInv, shell.pc = "key", NEW line, NEW release \in BOOLEAN,
         Execute(line, release), UNCHANGED <<typist, term>>, mail' \in MailType
  PROVE  ConsoleInv'
<1>1. /\ shell \in ShellType /\ job \in JobType
  BY DEF ConsoleInv, ConsoleTypes
<1>2. CASE ~ (Word(line) = ProgramCommand /\ Idle # {})
  <2>1. /\ Say(<<"\n", "'", "?">>) /\ UNCHANGED job
        /\ shell' = [shell EXCEPT !.pc = "header"]
    BY <1>2 DEF Execute
  <2>2. /\ shell' \in ShellType /\ shell'.pc = "header" /\ shell'.mixed = shell.mixed
        /\ shell'.torn = shell.torn
    BY <1>1, <2>1, ShellPc
  <2>3. QED
    BY <2>1, <2>2, NeutralTexts, Answered
<1>3. CASE Word(line) = ProgramCommand /\ Idle # {}
  <2> DEFINE j == Min(Idle)
  <2>1. /\ Say(<<"\n">>)
        /\ job' = [job EXCEPT ![j] = 0]
        /\ shell' = IF release THEN [shell EXCEPT !.pc = "header", !.mixed = TRUE]
                    ELSE [shell EXCEPT !.pc = "wait", !.fore = j]
    BY <1>3 DEF Execute
  <2>2. Idle \in SUBSET Nat /\ Idle \subseteq Jobs
    BY ConsoleAssumption DEF Idle
  <2>3. j \in Jobs
    BY <1>3, <2>2, MinIsIn
  <2> HIDE DEF j
  <2>4. /\ job' \in JobType /\ job'[j] = 0 /\ \A k \in Jobs \ {j} : job'[k] = job[k]
    BY <1>1, <2>1, <2>3 DEF JobType
  <2>5. /\ shell' \in ShellType /\ shell'.pc # "prompt"
        /\ shell.mixed => shell'.mixed
        /\ shell'.torn = shell.torn
        /\ ~ shell'.mixed =>
             ~ shell.mixed /\ shell'.pc = "wait" /\ shell'.fore = j
    <3>1. CASE release
      <4>1. shell' = [shell EXCEPT !.pc = "header", !.mixed = TRUE]
        BY <2>1, <3>1
      <4>2. QED
        BY <4>1, <1>1 DEF ShellType
    <3>2. CASE ~ release
      <4>1. shell' = [shell EXCEPT !.pc = "wait", !.fore = j]
        BY <2>1, <3>2
      <4>2. QED
        BY <4>1, <1>1, <2>3 DEF ShellType
    <3>3. QED
      BY <3>1, <3>2
  <2>6. /\ <<"\n">> \in Seq(Token)
        /\ \A x : Begins(feed.text, x) => Begins(feed.text \o <<"\n">>, x)
        /\ Locks(<<"\n">>, 1, 1)
    BY NeutralTexts, NeutralSaid
  <2>7. ASSUME ~ shell'.mixed
        PROVE  Alone' /\ (~ shell'.torn => Begins(feed.text \o <<"\n">>, term.x))
    <3>1. Alone /\ Straight
      BY <2>5, <2>7 DEF ConsoleInv, Apart
    <3>2. \A k \in Jobs : job[k] = -1
      BY <3>1 DEF Alone, Waiting
    <3>3. Alone'
      BY <2>4, <2>5, <2>7, <3>2 DEF Alone, Waiting
    <3>4. QED
      BY <3>1, <3>3, <2>5, <2>6 DEF Straight
  <2>8. ASSUME NEW lock \in 0 .. 2, Closes(lock), ~ shell'.mixed
        PROVE  \E b \in 0 .. 2 : Locks(<<"\n">>, lock, b) /\ Closes(b)'
    <3>1. lock = 1
      BY <2>8 DEF Closes
    <3>2. Hidden' = Hidden /\ ~ Hidden[0]
      BY DEF Hidden, ConsoleInv, Hides
    <3>3. 0 <= Len(typist'.script)
      <4>1. typist.script \in Seq(Seq(STRING \ {"$"}))
        BY DEF ConsoleInv, ConsoleTypes, TypistType
      <4>2. QED
        BY <4>1
    <3>4. Closes(1)'
      BY <3>2, <3>3, <2>4, <2>5, <2>8 DEF Closes, Waiting
    <3>5. QED
      BY <3>1, <3>4, <2>6
  <2>9. QED
    BY <2>1, <2>4, <2>5, <2>6, <2>7, <2>8, Said
<1>4. QED
  BY <1>2, <1>3

LEMMA EnterStep ==
  ASSUME ConsoleInv, shell.pc = "key", NEW line, Enter(line),
         UNCHANGED <<typist, term>>, mail' \in MailType
  PROVE  ConsoleInv'
<1>1. shell \in ShellType
  BY DEF ConsoleInv, ConsoleTypes
<1>2. CASE shell' = [shell EXCEPT !.pc = "header"] /\ UNCHANGED <<feed, job>>
  BY <1>1, <1>2, ShellPc, NeutralTexts, Answered
<1>3. CASE Say(<<"\n">>) /\ shell' = [shell EXCEPT !.pc = "ended"] /\ UNCHANGED job
  BY <1>1, <1>3, ShellPc, NeutralTexts, Answered
<1>4. CASE Say(<<"\n", "clear">>) /\ shell' = [shell EXCEPT !.pc = "header"] /\ UNCHANGED job
  BY <1>1, <1>4, ShellPc, NeutralTexts, Answered
<1>5. CASE Execute(Front(line), TRUE)
  BY <1>5, ExecuteStep
<1>6. CASE Execute(line, FALSE)
  BY <1>6, ExecuteStep
<1>7. QED
  BY <1>2, <1>3, <1>4, <1>5, <1>6 DEF Enter

LEMMA CommandFits ==
  ASSUME shell \in ShellType, NEW command \in Seq(MailKey)
  PROVE  LET s == [shell EXCEPT !.command = command] IN
         /\ s \in ShellType /\ s.pc = shell.pc
         /\ s.mixed = shell.mixed /\ s.torn = shell.torn
BY DEF ShellType

LEMMA ModifierFits ==
  ASSUME shell \in ShellType, NEW key \in Modifiers, Modifier(key)
  PROVE  /\ shell' \in ShellType /\ shell'.pc = shell.pc /\ shell'.mixed = shell.mixed
         /\ shell'.torn = shell.torn
<1>1. CASE key = "alt"
  <2>1. shell' = [shell EXCEPT !.alt = TRUE]
    BY <1>1 DEF Modifier
  <2>2. QED
    BY <2>1 DEF ShellType
<1>2. CASE key = "alt up"
  <2>1. shell' = [shell EXCEPT !.alt = FALSE]
    BY <1>2 DEF Modifier
  <2>2. QED
    BY <2>1 DEF ShellType
<1>3. CASE key = "ctrl"
  <2>1. shell' = [shell EXCEPT !.ctrl = TRUE]
    BY <1>3 DEF Modifier
  <2>2. QED
    BY <2>1 DEF ShellType
<1>4. CASE key = "ctrl up"
  <2>1. shell' = [shell EXCEPT !.ctrl = FALSE]
    BY <1>4 DEF Modifier
  <2>2. QED
    BY <2>1 DEF ShellType
<1>5. QED
  BY <1>1, <1>2, <1>3, <1>4 DEF Modifiers

LEMMA KeyStep == ConsoleInv /\ ShellKey => ConsoleInv'
<1> SUFFICES ASSUME ConsoleInv, ShellKey PROVE ConsoleInv'
  OBVIOUS
<1> DEFINE key == mail[Min(For("shell"))].key
<1>1. /\ mail \in MailType /\ shell \in ShellType /\ shell.command \in Seq(MailKey)
  BY DEF ConsoleInv, ConsoleTypes, ShellType
<1>2. /\ shell.pc = "key" /\ Pressed(key)
      /\ UNCHANGED <<typist, term, console>>
  BY DEF ShellKey
<1>3. key \in MailKey /\ mail' \in MailType
  BY <1>1, ForIsTo, ReceivedTypes DEF ShellKey
<1> HIDE DEF key
<1>4. CASE Backspace /\ UNCHANGED job
  <2>1. CASE shell.command = <<>>
    <3>1. UNCHANGED <<shell, feed>>
      BY <1>4, <2>1 DEF Backspace
    <3>2. QED
      BY <3>1, <1>1, <1>2, <1>3, <1>4, NeutralTexts, Answered
  <2>2. CASE shell.command # <<>>
    <3>1. /\ shell' = [shell EXCEPT !.command = Front(shell.command)]
          /\ Say(<<"back">>)
      BY <1>4, <2>2 DEF Backspace
    <3>2. Front(shell.command) \in Seq(MailKey)
      BY <1>1, <2>2 DEF Front
    <3>3. /\ shell' \in ShellType /\ shell'.pc = shell.pc /\ shell'.mixed = shell.mixed
          /\ shell'.torn = shell.torn
      BY <3>1, <3>2, <1>1, CommandFits
    <3>4. QED
      BY <3>1, <3>3, <1>2, <1>3, <1>4, NeutralTexts, Answered
  <2>3. QED
    BY <2>1, <2>2
<1>5. CASE Enter(Trimmed(shell.command))
  BY <1>2, <1>3, <1>5, EnterStep
<1>6. CASE key \in Modifiers /\ Modifier(key) /\ UNCHANGED <<feed, job>>
  BY <1>1, <1>2, <1>3, <1>6, ModifierFits, NeutralTexts, Answered
<1>7. CASE Break /\ UNCHANGED job
  <2>1. /\ shell' = [shell EXCEPT !.pc = "header"]
        /\ Say(<<".">>) \/ UNCHANGED feed
    BY <1>7 DEF Break
  <2>2. /\ shell' \in ShellType /\ shell'.pc = "header" /\ shell'.mixed = shell.mixed
        /\ shell'.torn = shell.torn
    BY <2>1, <1>1, ShellPc
  <2>3. QED
    BY <2>1, <2>2, <1>2, <1>3, <1>7, NeutralTexts, Answered
<1>8. CASE Letter(key) /\ UNCHANGED job
  <2>1. CASE UNCHANGED <<shell, feed>>
    BY <2>1, <1>1, <1>2, <1>3, <1>8, NeutralTexts, Answered
  <2>2. CASE shell' = [shell EXCEPT !.command = Append(@, key)] /\ Say(<<key>>)
    <3>1. Append(shell.command, key) \in Seq(MailKey)
      BY <1>1, <1>3
    <3>2. /\ shell' \in ShellType /\ shell'.pc = shell.pc /\ shell'.mixed = shell.mixed
          /\ shell'.torn = shell.torn
      BY <3>1, <2>2, <1>1, CommandFits
    <3>3. <<key>> \in Seq(Token) /\ Neutral(<<key>>)
      BY <1>3, NeutralTexts
    <3>4. QED
      BY <3>2, <3>3, <2>2, <1>2, <1>3, <1>8, Answered
  <2>3. QED
    BY <2>1, <2>2, <1>8 DEF Letter
<1>9. QED
  BY <1>2, <1>4, <1>5, <1>6, <1>7, <1>8 DEF Pressed

-----------------------------------------------------------------------------
LEMMA SeqOfMore ==
  ASSUME NEW S, NEW T, S \subseteq T, NEW u \in Seq(S)
  PROVE  u \in Seq(T)
OBVIOUS

(* A program prints as its script has it, or ends where it is.             *)
LEMMA SaysStep ==
  ASSUME ConsoleInv, NEW j \in Jobs, JobSays(j)
  PROVE  ConsoleInv'
<1> DEFINE n == job[j] + 1
           text == typist.script[n]
<1>1. /\ mail \in MailType /\ shell \in ShellType /\ job \in JobType
      /\ feed.text \in Seq(Token) /\ typist.script \in Seq(Seq(STRING \ {"$"}))
  BY DEF ConsoleInv, ConsoleTypes, FeedType, TypistType
<1>2. /\ job[j] \in Nat /\ job[j] < Len(typist.script) /\ Say(text)
      /\ job' = [job EXCEPT ![j] = n]
      /\ UNCHANGED <<typist, term, mail, console, shell>>
  BY <1>1 DEF JobSays, JobType
<1>3. n \in 1 .. Len(typist.script) /\ n - 1 = job[j] /\ n \in Nat
  <2>1. Len(typist.script) \in Nat /\ job[j] \in Nat /\ job[j] < Len(typist.script)
    BY <1>1, <1>2
  <2>2. QED
    BY <2>1
<1> HIDE DEF n
<1>4. text \in Seq(STRING \ {"$"})
  BY <1>1, <1>3
<1> HIDE DEF text
<1>5. text \in Seq(Token) /\ \A i \in 1 .. Len(text) : text[i] # "$"
  <2>1. \A i \in 1 .. Len(text) : text[i] \in STRING \ {"$"}
    BY <1>4
  <2>2. STRING \ {"$"} \subseteq Token
    BY DEF Token
  <2>3. text \in Seq(Token)
    BY <1>4, <2>2, SeqOfMore
  <2>4. QED
    BY <2>1, <2>3
<1>6. job' \in JobType /\ job'[j] = n /\ \A k \in Jobs \ {j} : job'[k] = job[k]
  BY <1>1, <1>2, <1>3 DEF JobType
<1>7. ASSUME ~ shell.mixed
      PROVE  /\ j = shell.fore /\ Waiting /\ Alone'
             /\ ~ shell.torn => Begins(feed.text \o text, term.x)
  <2>1. Alone /\ Straight
    BY <1>7 DEF ConsoleInv, Apart
  <2>2. j = shell.fore /\ Waiting
    BY <2>1, <1>2 DEF Alone
  <2>3. Alone'
    BY <2>1, <2>2, <1>2, <1>6 DEF Alone, Waiting
  <2>4. Begins(feed.text, term.x) => Begins(feed.text \o text, term.x)
    BY <1>1, <1>5, SayBegins
  <2>5. QED
    BY <2>1, <2>2, <2>3, <2>4 DEF Straight
<1>8. shell.pc = "prompt" => shell.mixed
  BY <1>7 DEF Waiting
<1>9. CASE shell.pc # "prompt"
  <2>1. ASSUME NEW lock \in 0 .. 2, Closes(lock), ~ shell.mixed
        PROVE  \E b \in 0 .. 2 : Locks(text, lock, b) /\ Closes(b)'
    <3>1. j = shell.fore /\ Waiting
      BY <1>7, <2>1
    <3>2. lock = IF Hidden[n - 1] THEN 2 ELSE 1
      BY <3>1, <2>1, <1>2, <1>3 DEF Closes
    <3>3. /\ Hidden \in [0 .. Len(typist.script) -> BOOLEAN]
          /\ Keeps(text, Hidden[n - 1], Hidden[n])
      BY <1>3 DEF ConsoleInv, Hides, text
    <3>4. Hidden[n - 1] \in BOOLEAN /\ Hidden[n] \in BOOLEAN
      <4>1. n \in 0 .. Len(typist.script) /\ n - 1 \in 0 .. Len(typist.script)
        BY <1>3
      <4>2. QED
        BY <4>1, <3>3
    <3>5. PICK b \in {1, 2} : b = IF Hidden[n] THEN 2 ELSE 1
      OBVIOUS
    <3>6. Locks(text, lock, b) /\ b \in 0 .. 2
      BY <3>2, <3>3, <3>4, <3>5, <1>5, LocksScript
    <3>7. Hidden' = Hidden
      BY <1>2 DEF Hidden
    <3>8. Closes(b)'
      <4>1. b = IF Hidden'[n] THEN 2 ELSE 1
        BY <3>5, <3>7
      <4>2. job'[shell'.fore] = n /\ n <= Len(typist'.script) /\ Waiting'
        BY <3>1, <1>2, <1>3, <1>6 DEF Waiting
      <4>3. QED
        BY <4>1, <4>2, <3>5 DEF Closes, Waiting
    <3>9. QED
      BY <3>6, <3>8
  <2>2. QED
    BY <2>1, <1>1, <1>2, <1>5, <1>6, <1>7, <1>9, Said
<1>10. CASE shell.pc = "prompt"
  <2>1. shell.mixed
    BY <1>8, <1>10
  <2>2. feed' \in FeedType /\ feed'.undefined = TRUE
    BY <1>2, <1>5, SayTypes DEF ConsoleInv, ConsoleTypes
  <2>3. ConsoleTypes'
    BY <2>2, <1>2, <1>6 DEF ConsoleInv, ConsoleTypes, Term
  <2>4. Hidden' = Hidden
    BY <1>2 DEF Hidden
  <2>5. Hides(typist.script, Hidden)'
    BY <2>4, <1>2 DEF ConsoleInv, Hides
  <2>6. QED
    BY <2>1, <2>2, <2>3, <2>5, <1>2 DEF ConsoleInv, Told
<1>11. QED
  BY <1>9, <1>10

LEMMA EndsStep ==
  ASSUME ConsoleInv, NEW j \in Jobs, JobEnds(j)
  PROVE  ConsoleInv'
<1>1. /\ mail \in MailType /\ shell \in ShellType /\ job \in JobType
  BY DEF ConsoleInv, ConsoleTypes
<1>2. /\ job[j] # -1 /\ job' = [job EXCEPT ![j] = -1]
      /\ UNCHANGED <<typist, term, feed, mail, console, shell>>
  BY <1>1 DEF JobEnds, JobType
<1>3. job' \in JobType /\ job'[j] = -1 /\ \A k \in Jobs \ {j} : job'[k] = job[k]
  BY <1>1, <1>2 DEF JobType
<1>4. ASSUME ~ shell'.mixed PROVE Alone' /\ Fresh'
  BY <1>2, <1>3, <1>4 DEF ConsoleInv, Apart, Alone, Fresh, Waiting
<1>5. ASSUME NEW lock \in 0 .. 2, Closes(lock) PROVE Closes(lock)'
  <2>1. Hidden' = Hidden
    BY <1>2 DEF Hidden
  <2>2. shell.fore \in Jobs
    BY <1>1 DEF ShellType
  <2>3. job'[shell.fore] # -1 => job'[shell.fore] = job[shell.fore]
    BY <2>2, <1>3
  <2>4. QED
    BY <2>1, <2>3, <1>2, <1>5 DEF Closes, Waiting
<1>6. QED
  BY <1>1, <1>2, <1>3, <1>4, <1>5, Moved

-----------------------------------------------------------------------------
THEOREM ConsoleInvariant == ConsoleSpec => []ConsoleInv
<1>1. ConsoleInv /\ [ConsoleNext]_consoleVars => ConsoleInv'
  <2> SUFFICES ASSUME ConsoleInv, [ConsoleNext]_consoleVars PROVE ConsoleInv'
    OBVIOUS
  <2>1. CASE ConsoleMail
    BY <2>1, MailStep
  <2>2. CASE ConsoleStream
    BY <2>2, StreamStep
  <2>3. CASE ConsoleMeta
    BY <2>3, MetaDataStep
  <2>4. CASE NewPrompt
    BY <2>4, NewPromptStep
  <2>5. CASE Meta
    BY <2>5, ToldStep
  <2>6. CASE Prompt
    BY <2>6, PromptStep
  <2>7. CASE ShellKey
    BY <2>7, KeyStep
  <2>8. CASE Wait
    BY <2>8, WaitStep
  <2>9. CASE Forward
    BY <2>9, ForwardStep
  <2>10. CASE \E j \in Jobs : JobSays(j)
    BY <2>10, SaysStep
  <2>11. CASE \E j \in Jobs : JobEnds(j)
    BY <2>11, EndsStep
  <2>12. CASE JobReads
    BY <2>12, ReadStep
  <2>13. CASE Type
    BY <2>13, TypeStep
  <2>14. CASE UNCHANGED consoleVars
    <3>1. mail \in MailType /\ typist \in TypistType
      BY DEF ConsoleInv, ConsoleTypes
    <3>2. QED
      BY <3>1, <2>14, Kept DEF consoleVars
  <2>15. CASE Flag
    BY <2>15, FlagStep
  <2>16. QED
    BY <2>1, <2>2, <2>3, <2>4, <2>5, <2>6, <2>7, <2>8, <2>9, <2>10, <2>11, <2>12, <2>13,
       <2>14, <2>15 DEF ConsoleNext
<1>2. QED
  BY <1>1, ConsoleInvInit, PTL DEF ConsoleSpec

(* The cursor never leaves the screen, whatever is typed and printed, a    *)
(* program in the background too (terminal.c:42-149, 233-262).             *)
CursorOnScreen == term.x < Columns /\ term.y < Lines /\ At(term) \in Grid

THEOREM CursorStaysOnScreen == ConsoleSpec => []CursorOnScreen
<1>1. ConsoleInv => CursorOnScreen
  BY AtOnGrid DEF ConsoleInv, ConsoleTypes, Term, CursorOnScreen
<1>2. QED
  BY <1>1, ConsoleInvariant, PTL

(* However a program in the foreground left the cursor, hidden or not, the *)
(* user gets it back with the prompt, once and where it is (shell.c:122;   *)
(* console.c:81-319).                                                      *)
THEOREM CursorReturns == ConsoleSpec => []CursorComesBack
<1>1. ConsoleInv => CursorComesBack
  <2> SUFFICES ASSUME ConsoleInv, AtPrompt
               PROVE  term.lock = 0 /\ term.on = {At(term)}
    BY DEF CursorComesBack
  <2>1. Cursor /\ feed.text = <<>> /\ shell.pc = "key"
    BY DEF ConsoleInv, Apart, AtPrompt
  <2>2. PICK lock \in 0 .. 2 : Locks(feed.text, term.lock + 1, lock) /\ Closes(lock)
    BY <2>1 DEF Cursor
  <2>3. term.lock \in {0, 1} /\ Proper(term)
    BY <2>1 DEF Cursor
  <2>4. term.lock + 1 \in 0 .. 2
    BY <2>3
  <2>5. lock = term.lock + 1
    BY <2>1, <2>2, <2>4, LocksNothing
  <2>6. lock = 1
    BY <2>1, <2>2 DEF Closes
  <2>7. term.lock = 0
    BY <2>3, <2>5, <2>6
  <2>8. QED
    BY <2>3, <2>7 DEF Proper
<1>2. QED
  BY <1>1, ConsoleInvariant, PTL

(* A prompt begins a line, also where a program left the cursor within     *)
(* one: when the shell finds the flag clear everything said is shown, and  *)
(* the column it has copied is that of the cursor, unless the console      *)
(* replaced it between the copy and the flag (shell.c:39-44; stream.c:     *)
(* 187-191; console.c:312-318).                                            *)
THEOREM PromptBeginsLine == ConsoleSpec => []PromptStartsLine
<1>1. ConsoleInv => PromptStartsLine
  BY DEF ConsoleInv, Apart, Straight, PromptStartsLine
<1>2. QED
  BY <1>1, ConsoleInvariant, PTL

-----------------------------------------------------------------------------
(* Alignment.                                                              *)
LEMMA DivIs ==
  ASSUME NEW a \in Nat, NEW p \in Nat \ {0}
  PROVE  /\ a \div p \in Nat /\ a % p \in Nat /\ a % p < p
         /\ a = (a \div p) * p + (a % p)
OBVIOUS

LEMMA AlignUpIs ==
  ASSUME NEW n \in Nat, NEW p \in Nat \ {0}
  PROVE  /\ AlignUp(n, p) \in Nat /\ AlignUp(n, p) >= n
         /\ \E m \in Nat : AlignUp(n, p) = m * p
<1> DEFINE a == n + p - 1
           q == a \div p
           r == a % p
<1>1. a \in Nat /\ a = n + p - 1
  OBVIOUS
<1> HIDE DEF a
<1>2. q \in Nat /\ r \in Nat /\ r < p /\ a = q * p + r
  BY <1>1, DivIs
<1>3. AlignUp(n, p) = q * p
  BY DEF AlignUp, a
<1> HIDE DEF q, r
<1>4. q * p \in Nat
  BY <1>2
<1>5. q * p >= n
  BY <1>1, <1>2, <1>4
<1>6. QED
  BY <1>2, <1>3, <1>4, <1>5

LEMMA NoMultiple ==
  ASSUME NEW k \in Int, NEW p \in Nat \ {0}, k * p < p, k * p > -p
  PROVE  k = 0
<1>1. k >= 1 => k * p >= p
  OBVIOUS
<1>2. k <= -1 => k * p <= -p
  OBVIOUS
<1>3. QED
  BY <1>1, <1>2

LEMMA AlignUpShift ==
  ASSUME NEW m \in Nat, NEW n \in Nat, NEW p \in Nat \ {0}
  PROVE  AlignUp(m * p + n, p) = m * p + AlignUp(n, p)
<1> DEFINE a == n + p - 1
           b == m * p + n + p - 1
           q == a \div p
           r == a % p
           s == b \div p
           t == b % p
<1>1. a \in Nat /\ b \in Nat /\ b = m * p + a /\ m * p \in Nat
  OBVIOUS
<1>2. AlignUp(m * p + n, p) = s * p /\ AlignUp(n, p) = q * p
  BY DEF AlignUp
<1> HIDE DEF a, b
<1>3. q \in Nat /\ r \in Nat /\ r < p /\ a = q * p + r
  BY <1>1, DivIs
<1>4. s \in Nat /\ t \in Nat /\ t < p /\ b = s * p + t
  BY <1>1, DivIs
<1> HIDE DEF q, r, s, t
<1> DEFINE k == s - m - q
<1>5. k \in Int /\ k * p = s * p - m * p - q * p
  BY <1>3, <1>4
<1>6. q * p \in Nat /\ s * p \in Nat
  BY <1>3, <1>4
<1>7. k * p = r - t
  BY <1>1, <1>3, <1>4, <1>5, <1>6
<1>8. k * p < p /\ k * p > -p
  BY <1>3, <1>4, <1>7
<1> HIDE DEF k
<1>9. k = 0
  BY <1>5, <1>8, NoMultiple
<1>10. s * p = m * p + q * p
  BY <1>1, <1>5, <1>6, <1>9
<1>11. QED
  BY <1>2, <1>10

-----------------------------------------------------------------------------
Character == STRING \union {"."}
FileType  == [name : Seq(Character), size : Nat]
UnitType  == [what : STRING \union {"table", "byte", "zero", "magic", "unknown"},
              file : Seq(Character), at : Nat]
EntryType == [offset : Nat, size : Nat, length : Nat, name : Seq(Character)]

DiskType ==
  [pc : STRING \union {"pack", "refused", "write", "packed", "no disk", "astray", "booted"},
   files : Directories, i : Nat, size : Nat, package : Seq(UnitType),
   head : Seq(EntryType), asked : Names \union {<<>>}, found : BOOLEAN, got : Seq(UnitType)]

LEMMA FilesAre ==
  ASSUME NEW files \in Directories
  PROVE  /\ files \in Seq(FileType) /\ Len(files) \in Nat /\ DOMAIN files = 1 .. Len(files)
         /\ \A j \in 1 .. Len(files) : files[j] \in FileType /\ files[j].name # <<>>
         /\ \A j, k \in 1 .. Len(files) : files[j].name = files[k].name => j = k
         /\ \E j \in 1 .. Len(files) : files[j].name \notin {Self, Parent}
<1>1. files \in Seq(FileType)
  <2>1. files \in Seq([name : Seq(STRING), size : Nat])
    BY VfsAssumption
  <2>2. Seq(STRING) \subseteq Seq(Character)
    BY SeqOfMore DEF Character
  <2>3. [name : Seq(STRING), size : Nat] \subseteq FileType
    BY <2>2 DEF FileType
  <2>4. QED
    BY <2>1, <2>3, SeqOfMore
<1>2. Len(files) \in Nat /\ DOMAIN files = 1 .. Len(files)
  BY <1>1
<1>3. \A j \in 1 .. Len(files) : files[j] \in FileType
  BY <1>1
<1>4. QED
  BY <1>1, <1>2, <1>3, VfsAssumption DEF Self, Parent

LEMMA NamesDiffer ==
  /\ Self \in Seq(Character) /\ Parent \in Seq(Character) /\ Len(Self) = 1 /\ Len(Parent) = 2
  /\ Self # Parent /\ Self # <<>> /\ Parent # <<>>
<1>1. Self \in Seq(Character) /\ Len(Self) = 1
  BY DEF Self, Character
<1>2. Parent \in Seq(Character) /\ Len(Parent) = 2
  BY DEF Parent, Character
<1>3. Len(<<>>) = 0
  OBVIOUS
<1>4. Self # Parent
  BY <1>1, <1>2
<1>5. Self # <<>>
  BY <1>1, <1>3
<1>6. Parent # <<>>
  BY <1>2, <1>3
<1>7. QED
  BY <1>1, <1>2, <1>4, <1>5, <1>6

(* An entry of a file of the directory.                                    *)
Of(e, files) ==
  /\ e.name \notin {Self, Parent, <<>>} /\ e.length = Len(e.name)
  /\ \E j \in 1 .. Len(files) : files[j].name = e.name /\ files[j].size = e.size

(* The table has the two names of the directory and n - 2 files, among     *)
(* which the first i of the directory.                                     *)
Registered(head, n, files, i) ==
  /\ n \in Nat /\ n >= 2 /\ n <= Len(head)
  /\ head[1].name = Self /\ head[1].length = 1
  /\ head[2].name = Parent /\ head[2].length = 2
  /\ \A k \in 3 .. n : Of(head[k], files)
  /\ \A j \in 1 .. i : \/ files[j].name \in {Self, Parent}
                       \/ \E k \in 3 .. n : head[k].name = files[j].name

Space(n) == AlignUp((n + 1) * EntrySize, Page)

(* The files follow each other, each at the next page behind the one       *)
(* before; `base' is what was added to the offsets.                        *)
Laid(head, n, base) ==
  /\ head[1].size = Space(n) /\ head[1].offset = base
  /\ head[2].size = Space(n) /\ head[2].offset = base
  /\ n >= 3 => head[3].offset = base + Space(n)
  /\ \A k \in 3 .. n : \E m \in Nat : head[k].offset = base + m * Page
  /\ \A k \in 3 .. n - 1 :
       head[k + 1].offset = head[k].offset + AlignUp(head[k].size, Page)

(* The table ends at the entry behind the last file, or not at all.        *)
Finished(d, n) ==
  /\ Len(d.head) = n + 1 /\ n >= 3
  /\ d.head[n + 1].name = <<>>
  /\ Registered(d.head, n, d.files, Len(d.files))

(* What is in the package: the table, and the file of an entry.            *)
TableIs(package, n) ==
  \A x \in 1 .. (n + 1) * EntrySize : x <= Len(package) /\ package[x] = Unit("table")

Filled(package, n) ==
  /\ Space(n) <= Len(package)
  /\ \A x \in (n + 1) * EntrySize + 1 .. Space(n) : package[x] = Unit("zero")

Holds(package, e, base) ==
  \A x \in 1 .. e.size :
    /\ e.offset - base + x \in 1 .. Len(package)
    /\ package[e.offset - base + x] = [what |-> "byte", file |-> e.name, at |-> x]

PackInv(d) ==
  /\ d.i >= 1 /\ d.i <= Len(d.files) + 1
  /\ Registered(d.head, Len(d.head), d.files, d.i - 1)
  /\ d.head[1].offset = 0 /\ d.head[2].offset = 0

WriteInv(d, n) ==
  /\ Finished(d, n) /\ Laid(d.head, n, 0)
  /\ d.i >= 3 /\ d.i <= n + 1
  /\ d.size = Len(d.package)
  /\ d.i = 3 => d.size = (n + 1) * EntrySize
  /\ d.i > 3 => d.size = d.head[d.i - 1].offset + d.head[d.i - 1].size
  /\ TableIs(d.package, n)
  /\ d.i > 3 => Filled(d.package, n)
  /\ \A k \in 3 .. d.i - 1 : Holds(d.package, d.head[k], 0)

ReadyInv(d, n, base) ==
  /\ Finished(d, n) /\ Laid(d.head, n, base)
  /\ TableIs(d.package, n) /\ Filled(d.package, n)
  /\ \A k \in 3 .. n : Holds(d.package, d.head[k], base)

VfsInv ==
  /\ disk \in DiskType
  /\ disk.pc = "pack" => PackInv(disk)
  /\ disk.pc = "write" => WriteInv(disk, Len(disk.head) - 1)
  /\ disk.pc = "packed" => ReadyInv(disk, Len(disk.head) - 1, 0)
  /\ disk.pc = "booted" => ReadyInv(disk, Len(disk.head) - 1, Base)
  /\ disk.asked # <<>> => disk.pc = "booted"
  /\ FilesAreRead

-----------------------------------------------------------------------------
(* The offsets.                                                            *)
Placing(head, n, m, f) ==
  f = [k \in 3 .. m |-> IF k = 3 THEN Space(n) ELSE NextOffset(f[k - 1], head[k - 1])]

LEMMA PlacingExists ==
  ASSUME NEW head, NEW n, NEW last \in Nat
  PROVE  \E f : Placing(head, n, last, f)
<1> DEFINE Bad == {m \in Nat : ~ \E f : Placing(head, n, m, f)}
<1>1. SUFFICES ASSUME Bad # {} PROVE FALSE
  OBVIOUS
<1>2. PICK m \in Bad : \A k \in Bad : m <= k
  BY <1>1, Least
<1>3. CASE m <= 3
  <2> DEFINE f == [i \in 3 .. m |-> Space(n)]
  <2>1. \A k \in 3 .. m : k = 3
    BY <1>2, <1>3
  <2>2. f = [k \in 3 .. m |-> IF k = 3 THEN Space(n) ELSE NextOffset(f[k - 1], head[k - 1])]
    BY <2>1
  <2>3. Placing(head, n, m, f)
    BY <2>2 DEF Placing
  <2>4. QED
    BY <2>3, <1>2
<1>4. CASE ~ m <= 3
  <2>1. m - 1 \in Nat /\ m - 1 \notin Bad
    BY <1>2, <1>4
  <2>2. PICK g : Placing(head, n, m - 1, g)
    BY <2>1
  <2> DEFINE Behind(x, k) == NextOffset(x, head[k - 1])
  <2>3. \A k \in 3 .. m - 1 : g[k] = IF k = 3 THEN Space(n) ELSE Behind(g[k - 1], k)
    BY <2>2 DEF Placing
  <2> HIDE DEF Behind
  <2> DEFINE f == [k \in 3 .. m |-> IF k = m THEN Behind(g[m - 1], m) ELSE g[k]]
             h == [k \in 3 .. m |-> IF k = 3 THEN Space(n) ELSE Behind(f[k - 1], k)]
  <2>4. ASSUME NEW k \in 3 .. m PROVE f[k] = h[k]
    <3>1. CASE k = m
      <4>1. f[k] = Behind(g[m - 1], m) /\ f[k - 1] = g[m - 1]
        BY <3>1, <2>1, <1>4
      <4>2. QED
        BY <4>1, <3>1, <1>4
    <3>2. CASE k # m /\ k = 3
      BY <3>2, <2>1, <2>3
    <3>3. CASE k # m /\ k # 3
      <4>1. k \in 3 .. m - 1 /\ k - 1 \in 3 .. m /\ k - 1 # m
        BY <3>3, <2>1
      <4>2. f[k] = g[k] /\ f[k - 1] = g[k - 1]
        BY <4>1, <3>3
      <4>3. QED
        BY <4>1, <4>2, <2>3, <3>3
    <3>4. QED
      BY <3>1, <3>2, <3>3
  <2>5. f = h
    BY <2>4
  <2>6. Placing(head, n, m, f)
    BY <2>5 DEF Behind, Placing
  <2>7. QED
    BY <2>6, <1>2
<1>5. QED
  BY <1>3, <1>4

LEMMA SpaceIs ==
  ASSUME NEW n \in Nat
  PROVE  /\ (n + 1) * EntrySize \in Nat /\ Space(n) \in Nat /\ Space(n) >= (n + 1) * EntrySize
         /\ \E m \in Nat : Space(n) = m * Page
<1>1. (n + 1) * EntrySize \in Nat /\ Page \in Nat \ {0}
  BY VfsAssumption
<1>2. QED
  BY <1>1, AlignUpIs DEF Space

Places(head, n, f) ==
  /\ \A k \in 3 .. n : f[k] \in Nat /\ \E m \in Nat : f[k] = m * Page
  /\ f[3] = Space(n)
  /\ \A k \in 3 .. n - 1 : f[k + 1] = f[k] + AlignUp(head[k].size, Page)
  /\ Placed(head, n) = [k \in 1 .. n |-> IF k < 3 THEN [head[k] EXCEPT !.size = Space(n)]
                                         ELSE [head[k] EXCEPT !.offset = f[k]]]

LEMMA PlacedIs ==
  ASSUME NEW head \in Seq(EntryType), NEW n \in Nat, n = Len(head), n >= 3
  PROVE  \E f : Places(head, n, f)
<1> DEFINE g == CHOOSE f : Placing(head, n, n, f)
           Good(k) == g[k] \in Nat /\ \E m \in Nat : g[k] = m * Page
           Bad == {k \in 3 .. n : ~ Good(k)}
<1>1. Placing(head, n, n, g)
  BY PlacingExists
<1>2. Placed(head, n) = [k \in 1 .. n |-> IF k < 3 THEN [head[k] EXCEPT !.size = Space(n)]
                                         ELSE [head[k] EXCEPT !.offset = g[k]]]
  BY DEF Placed, Placing, Space
<1> HIDE DEF g
<1>3. \A k \in 3 .. n : g[k] = IF k = 3 THEN Space(n) ELSE NextOffset(g[k - 1], head[k - 1])
  BY <1>1 DEF Placing
<1>4. g[3] = Space(n)
  BY <1>3
<1>5. \A k \in 3 .. n - 1 : g[k + 1] = g[k] + AlignUp(head[k].size, Page)
  <2> TAKE k \in 3 .. n - 1
  <2>1. k + 1 \in 3 .. n /\ k + 1 # 3 /\ (k + 1) - 1 = k
    OBVIOUS
  <2>2. QED
    BY <1>3, <2>1 DEF NextOffset
<1>6. Bad = {}
  <2> SUFFICES ASSUME Bad # {} PROVE FALSE
    OBVIOUS
  <2>1. Bad \in SUBSET Nat
    OBVIOUS
  <2>2. PICK k \in Bad : \A j \in Bad : k <= j
    BY <2>1, Least
  <2>3. k # 3
    BY <1>4, SpaceIs
  <2>4. k - 1 \in 3 .. n - 1 /\ k - 1 \notin Bad /\ k = (k - 1) + 1
    BY <2>2, <2>3
  <2>5. g[k - 1] \in Nat
    BY <2>4
  <2>6. PICK a \in Nat : g[k - 1] = a * Page
    BY <2>4
  <2> DEFINE z == head[k - 1].size
  <2>7. z \in Nat
    <3>1. k - 1 \in 1 .. Len(head)
      BY <2>4
    <3>2. head[k - 1] \in EntryType
      BY <3>1
    <3>3. QED
      BY <3>2 DEF EntryType
  <2>8. g[k] = g[k - 1] + AlignUp(z, Page)
    BY <1>5, <2>4
  <2> HIDE DEF z
  <2>9. Page \in Nat \ {0}
    BY VfsAssumption
  <2>10. AlignUp(z, Page) \in Nat
    BY <2>7, <2>9, AlignUpIs
  <2>11. PICK b \in Nat : AlignUp(z, Page) = b * Page
    BY <2>7, <2>9, AlignUpIs
  <2>12. g[k] = (a + b) * Page /\ a + b \in Nat
    BY <2>6, <2>8, <2>9, <2>11
  <2>13. Good(k)
    BY <2>5, <2>8, <2>10, <2>12
  <2>14. QED
    BY <2>2, <2>13
<1>7. \A k \in 3 .. n : Good(k)
  BY <1>6
<1> WITNESS g
<1>8. QED
  BY <1>2, <1>4, <1>5, <1>7 DEF Places

-----------------------------------------------------------------------------
(* Units that are put behind others.                                       *)
LEMMA BehindIs ==
  ASSUME NEW p \in Seq(UnitType), NEW q \in Seq(UnitType), NEW r, r = p \o q
  PROVE  /\ r \in Seq(UnitType) /\ Len(r) = Len(p) + Len(q)
         /\ Len(p) \in Nat /\ Len(q) \in Nat
         /\ \A x \in 1 .. Len(p) : r[x] = p[x]
         /\ \A x \in 1 .. Len(q) : r[Len(p) + x] = q[x]
OBVIOUS

LEMMA ZerosAre ==
  ASSUME NEW n \in Nat
  PROVE  /\ Zeros(n) \in Seq(UnitType) /\ Len(Zeros(n)) = n
         /\ \A x \in 1 .. n : Zeros(n)[x] = Unit("zero")
<1>1. Unit("zero") \in UnitType
  BY DEF Unit, UnitType
<1>2. QED
  BY <1>1 DEF Zeros

LEMMA BytesAre ==
  ASSUME NEW file \in FileType
  PROVE  /\ Bytes(file) \in Seq(UnitType) /\ Len(Bytes(file)) = file.size
         /\ \A x \in 1 .. file.size :
              Bytes(file)[x] = [what |-> "byte", file |-> file.name, at |-> x]
<1>1. file.size \in Nat /\ file.name \in Seq(Character)
  BY DEF FileType
<1>2. \A x \in 1 .. file.size : [what |-> "byte", file |-> file.name, at |-> x] \in UnitType
  BY <1>1 DEF UnitType
<1>3. QED
  BY <1>1, <1>2 DEF Bytes

LEMMA TableAre ==
  ASSUME NEW head, Len(head) \in Nat
  PROVE  /\ Table(head) \in Seq(UnitType) /\ Len(Table(head)) = Len(head) * EntrySize
         /\ Len(head) * EntrySize \in Nat
         /\ \A x \in 1 .. Len(head) * EntrySize : Table(head)[x] = Unit("table")
<1>1. Unit("table") \in UnitType
  BY DEF Unit, UnitType
<1>2. Len(head) * EntrySize \in Nat
  BY VfsAssumption
<1>3. QED
  BY <1>1, <1>2 DEF Table

LEMMA MagicIs == Magic \in Seq(UnitType)
<1>1. Unit("magic") \in UnitType
  BY DEF Unit, UnitType
<1>2. WordSize \in Nat
  BY VfsAssumption
<1>3. QED
  BY <1>1, <1>2 DEF Magic

(* What was there stays.                                                   *)
LEMMA StillThere ==
  ASSUME NEW p \in Seq(UnitType), NEW q \in Seq(UnitType), NEW n \in Nat
  PROVE  /\ TableIs(p, n) => TableIs(p \o q, n)
         /\ Filled(p, n) => Filled(p \o q, n)
         /\ \A e, base : Holds(p, e, base) => Holds(p \o q, e, base)
<1> DEFINE r == p \o q
<1>1. r = p \o q
  OBVIOUS
<1> HIDE DEF r
<1>2. /\ Len(r) = Len(p) + Len(q) /\ Len(p) \in Nat /\ Len(q) \in Nat
      /\ \A x \in 1 .. Len(p) : r[x] = p[x]
  BY <1>1, BehindIs
<1>3. (n + 1) * EntrySize \in Nat /\ Space(n) \in Nat
  BY SpaceIs
<1>4. TableIs(p, n) => TableIs(r, n)
  <2> SUFFICES ASSUME TableIs(p, n), NEW x \in 1 .. (n + 1) * EntrySize
               PROVE  x <= Len(r) /\ r[x] = Unit("table")
    BY DEF TableIs
  <2>1. x <= Len(p) /\ p[x] = Unit("table") /\ x \in Nat /\ x >= 1
    BY <1>3 DEF TableIs
  <2>2. QED
    BY <1>2, <2>1
<1>5. Filled(p, n) => Filled(r, n)
  <2> SUFFICES ASSUME Filled(p, n)
               PROVE  /\ Space(n) <= Len(r)
                      /\ \A x \in (n + 1) * EntrySize + 1 .. Space(n) : r[x] = Unit("zero")
    BY DEF Filled
  <2>1. Space(n) <= Len(p)
    BY DEF Filled
  <2>2. ASSUME NEW x \in (n + 1) * EntrySize + 1 .. Space(n) PROVE r[x] = Unit("zero")
    <3>1. p[x] = Unit("zero") /\ x \in 1 .. Len(p)
      BY <1>2, <1>3, <2>1 DEF Filled
    <3>2. QED
      BY <1>2, <3>1
  <2>3. QED
    BY <1>2, <1>3, <2>1, <2>2
<1>6. ASSUME NEW e, NEW base, Holds(p, e, base) PROVE Holds(r, e, base)
  <2> SUFFICES ASSUME NEW x \in 1 .. e.size
               PROVE  /\ e.offset - base + x \in 1 .. Len(r)
                      /\ r[e.offset - base + x] = [what |-> "byte", file |-> e.name, at |-> x]
    BY DEF Holds
  <2> DEFINE y == e.offset - base + x
  <2>1. y \in 1 .. Len(p) /\ p[y] = [what |-> "byte", file |-> e.name, at |-> x]
    BY <1>6 DEF Holds
  <2> HIDE DEF y
  <2>2. y \in 1 .. Len(r) /\ r[y] = [what |-> "byte", file |-> e.name, at |-> x]
    BY <1>2, <2>1
  <2>3. QED
    BY <2>2 DEF y
<1>7. QED
  BY <1>4, <1>5, <1>6 DEF r

-----------------------------------------------------------------------------
(* The host tool.                                                          *)
LEMMA EntryIsOf ==
  ASSUME NEW f \in FileType
  PROVE  Entry(f.name, f.size) \in EntryType
BY DEF Entry, EntryType, FileType

LEMMA DiskIs ==
  ASSUME NEW d \in DiskType
  PROVE  /\ d.files \in Directories /\ d.i \in Nat /\ d.i + 1 \in Nat
         /\ d.size \in Nat /\ d.package \in Seq(UnitType) /\ Len(d.package) \in Nat
         /\ d.head \in Seq(EntryType) /\ Len(d.head) \in Nat
<1>1. /\ d.files \in Directories /\ d.i \in Nat /\ d.size \in Nat
      /\ d.package \in Seq(UnitType) /\ d.head \in Seq(EntryType)
  BY DEF DiskType
<1>2. d.i + 1 \in Nat /\ Len(d.package) \in Nat /\ Len(d.head) \in Nat
  BY <1>1
<1>3. QED
  BY <1>1, <1>2

LEMMA VfsInit1 ==
  ASSUME VfsInit
  PROVE  VfsInv
<1> DEFINE h == <<Entry(Self, 0), Entry(Parent, 0)>>
<1>1. PICK files \in Directories :
         disk = [pc |-> "pack", files |-> files, i |-> 1, size |-> 0, package |-> <<>>,
                 head |-> h, asked |-> <<>>, found |-> FALSE, got |-> <<>>]
  BY DEF VfsInit
<1>2. /\ Entry(Self, 0) \in EntryType /\ Entry(Parent, 0) \in EntryType
  BY NamesDiffer DEF Entry, EntryType
<1>3. /\ h \in Seq(EntryType) /\ Len(h) = 2
      /\ h[1] = Entry(Self, 0) /\ h[2] = Entry(Parent, 0)
  BY <1>2
<1> HIDE DEF h
<1>4. /\ h[1].name = Self /\ h[1].length = 1 /\ h[1].offset = 0
      /\ h[2].name = Parent /\ h[2].length = 2 /\ h[2].offset = 0
  BY <1>3, NamesDiffer DEF Entry
<1>5. disk \in DiskType
  BY <1>1, <1>3 DEF DiskType
<1>6. /\ disk.pc = "pack" /\ disk.files = files /\ disk.i = 1 /\ disk.head = h
      /\ disk.asked = <<>>
  BY <1>1
<1>7. PackInv(disk)
  <2>1. Len(files) \in Nat
    BY FilesAre
  <2>2. Registered(h, 2, files, 0)
    BY <1>3, <1>4 DEF Registered
  <2>3. Len(disk.head) = 2 /\ disk.i - 1 = 0
    BY <1>3, <1>6
  <2>4. Registered(disk.head, Len(disk.head), disk.files, disk.i - 1)
    BY <1>6, <2>2, <2>3
  <2>5. disk.i >= 1 /\ disk.i <= Len(disk.files) + 1
    BY <1>6, <2>1
  <2>6. QED
    BY <1>4, <1>6, <2>4, <2>5 DEF PackInv
<1>8. FilesAreRead
  BY <1>6 DEF FilesAreRead
<1>9. QED
  BY <1>5, <1>6, <1>7, <1>8 DEF VfsInv

LEMMA PackStep ==
  ASSUME VfsInv, Pack
  PROVE  VfsInv'
<1> DEFINE file == disk.files[disk.i]
           e    == Entry(file.name, file.size)
           n    == Len(disk.head)
           h    == Append(disk.head, e)
<1>1. /\ disk \in DiskType /\ PackInv(disk) /\ disk.pc = "pack" /\ disk.i <= Len(disk.files)
      /\ disk.asked = <<>>
  BY DEF Pack, VfsInv
<1>2. /\ disk.files \in Directories /\ disk.i \in Nat /\ disk.i >= 1
      /\ disk.head \in Seq(EntryType) /\ n \in Nat /\ disk.i + 1 \in Nat
  BY <1>1, DiskIs DEF PackInv
<1>3. /\ Len(disk.files) \in Nat /\ disk.i \in 1 .. Len(disk.files)
      /\ file \in FileType /\ file.name # <<>>
  BY <1>1, <1>2, FilesAre
<1>4. \/ /\ file.name \in {Self, Parent} /\ disk' = [disk EXCEPT !.i = @ + 1]
      \/ disk' = [disk EXCEPT !.pc = "refused"]
      \/ /\ file.name \notin {Self, Parent} /\ disk' = [disk EXCEPT !.i = @ + 1, !.head = h]
  BY DEF Pack
<1>5. FilesAreRead' /\ disk'.asked = <<>>
  <2>1. disk'.asked = <<>>
    BY <1>1, <1>4 DEF DiskType
  <2>2. QED
    BY <2>1 DEF FilesAreRead
<1>6. Registered(disk.head, n, disk.files, disk.i - 1)
  BY <1>1 DEF PackInv
<1>7. ASSUME file.name \in {Self, Parent}, disk' = [disk EXCEPT !.i = @ + 1]
      PROVE  VfsInv'
  <2>1. /\ disk' \in DiskType /\ disk'.pc = "pack" /\ disk'.files = disk.files
        /\ disk'.i = disk.i + 1 /\ disk'.head = disk.head
    BY <1>1, <1>2, <1>7 DEF DiskType
  <2>2. Registered(disk.head, n, disk.files, disk.i)
    BY <1>2, <1>6, <1>7 DEF Registered
  <2>3. PackInv(disk')
    BY <1>1, <1>2, <1>3, <2>1, <2>2 DEF PackInv
  <2>4. QED
    BY <1>5, <2>1, <2>3 DEF VfsInv
<1>8. ASSUME disk' = [disk EXCEPT !.pc = "refused"]
      PROVE  VfsInv'
  <2>1. disk' \in DiskType /\ disk'.pc = "refused"
    BY <1>1, <1>8 DEF DiskType
  <2>2. QED
    BY <1>5, <2>1 DEF VfsInv
<1>9. ASSUME file.name \notin {Self, Parent}, disk' = [disk EXCEPT !.i = @ + 1, !.head = h]
      PROVE  VfsInv'
  <2>1. e \in EntryType /\ e.name = file.name /\ e.length = Len(e.name) /\ e.size = file.size
    BY <1>3, EntryIsOf DEF Entry
  <2> HIDE DEF file, e
  <2>2. /\ h \in Seq(EntryType) /\ Len(h) = n + 1 /\ h[n + 1] = e
        /\ \A k \in 1 .. n : h[k] = disk.head[k]
    BY <1>2, <2>1
  <2> HIDE DEF h
  <2>3. /\ disk' \in DiskType /\ disk'.pc = "pack" /\ disk'.files = disk.files
        /\ disk'.i = disk.i + 1 /\ disk'.head = h
    BY <1>1, <1>2, <1>9, <2>2 DEF DiskType
  <2>4. Of(e, disk.files)
    BY <1>3, <1>9, <2>1 DEF Of, file
  <2> HIDE DEF n
  <2>5. Registered(h, n + 1, disk.files, disk.i)
    <3>1. n >= 2 /\ n \in Nat
      BY <1>2, <1>6 DEF Registered
    <3>2. /\ h[1].name = Self /\ h[1].length = 1 /\ h[2].name = Parent /\ h[2].length = 2
      BY <1>6, <2>2, <3>1 DEF Registered
    <3>3. ASSUME NEW k \in 3 .. n + 1 PROVE Of(h[k], disk.files)
      <4>1. CASE k = n + 1
        BY <2>2, <2>4, <4>1
      <4>2. CASE k # n + 1
        <5>1. k \in 3 .. n /\ k \in 1 .. n
          BY <3>1, <4>2
        <5>2. QED
          BY <1>6, <2>2, <5>1 DEF Registered
      <4>3. QED
        BY <4>1, <4>2
    <3>4. ASSUME NEW j \in 1 .. disk.i
          PROVE  \/ disk.files[j].name \in {Self, Parent}
                 \/ \E k \in 3 .. n + 1 : h[k].name = disk.files[j].name
      <4>1. CASE j = disk.i
        <5>1. n + 1 \in 3 .. n + 1 /\ h[n + 1].name = disk.files[j].name
          BY <2>1, <2>2, <3>1, <4>1 DEF file
        <5>2. QED
          BY <5>1
      <4>2. CASE j # disk.i
        <5>1. j \in 1 .. disk.i - 1
          BY <1>2, <4>2
        <5>2. \/ disk.files[j].name \in {Self, Parent}
              \/ \E k \in 3 .. n : disk.head[k].name = disk.files[j].name
          BY <1>6, <5>1 DEF Registered
        <5>3. \A k \in 3 .. n : k \in 3 .. n + 1 /\ h[k] = disk.head[k]
          BY <2>2, <3>1
        <5>4. QED
          BY <5>2, <5>3
      <4>3. QED
        BY <4>1, <4>2
    <3>5. QED
      BY <2>2, <3>1, <3>2, <3>3, <3>4 DEF Registered
  <2>6. disk'.head[1].offset = 0 /\ disk'.head[2].offset = 0
    <3>1. disk.head[1].offset = 0 /\ disk.head[2].offset = 0 /\ n >= 2
      BY <1>1, <1>6 DEF PackInv, Registered
    <3>2. QED
      BY <1>2, <2>2, <2>3, <3>1 DEF n
  <2>7. PackInv(disk')
    BY <1>1, <1>2, <1>3, <2>2, <2>3, <2>5, <2>6 DEF PackInv
  <2>8. QED
    BY <1>5, <2>3, <2>7 DEF VfsInv
<1>10. QED
  BY <1>4, <1>7, <1>8, <1>9

(* The entries of a table that is filled in are those of the same files.   *)
LEMMA RegisteredSame ==
  ASSUME NEW a, NEW b, NEW n, NEW files, NEW i, Registered(a, n, files, i), n <= Len(b),
         \A k \in 1 .. n : b[k].name = a[k].name /\ b[k].length = a[k].length,
         \A k \in 3 .. n : b[k].size = a[k].size
  PROVE  Registered(b, n, files, i)
<1>1. n \in Nat /\ n >= 2
  BY DEF Registered
<1>2. /\ b[1].name = Self /\ b[1].length = 1 /\ b[2].name = Parent /\ b[2].length = 2
  BY <1>1 DEF Registered
<1>3. ASSUME NEW k \in 3 .. n PROVE Of(b[k], files) /\ b[k].name = a[k].name
  <2>1. Of(a[k], files)
    BY DEF Registered
  <2>2. b[k].name = a[k].name /\ b[k].length = a[k].length /\ b[k].size = a[k].size
    BY <1>1
  <2>3. QED
    BY <2>1, <2>2 DEF Of
<1>4. ASSUME NEW j \in 1 .. i
      PROVE  \/ files[j].name \in {Self, Parent}
             \/ \E k \in 3 .. n : b[k].name = files[j].name
  <2>1. \/ files[j].name \in {Self, Parent}
        \/ \E k \in 3 .. n : a[k].name = files[j].name
    BY DEF Registered
  <2>2. QED
    BY <1>3, <2>1
<1>5. QED
  BY <1>1, <1>2, <1>3, <1>4 DEF Registered

LEMMA PackTableStep ==
  ASSUME VfsInv, PackTable
  PROVE  VfsInv'
<1> DEFINE n == Len(disk.head)
           P == Placed(disk.head, n)
<1>1. /\ disk \in DiskType /\ PackInv(disk) /\ disk.pc = "pack" /\ disk.i > Len(disk.files)
      /\ disk.asked = <<>>
  BY DEF PackTable, VfsInv
<1>2. PICK length \in {0, NameLimit} :
        LET head == Append(P, [offset |-> 0, size |-> 0, length |-> length, name |-> <<>>])
        IN disk' = [disk EXCEPT !.pc = "write", !.head = head, !.i = 3,
                                !.package = Table(head), !.size = Len(head) * EntrySize]
  BY DEF PackTable
<1> DEFINE tail == [offset |-> 0, size |-> 0, length |-> length, name |-> <<>>]
           h == Append(P, tail)
<1>3. /\ disk.files \in Directories /\ disk.head \in Seq(EntryType) /\ n \in Nat
      /\ disk.i \in Nat /\ Len(disk.files) \in Nat
  BY <1>1, DiskIs, FilesAre
<1>4. disk.i - 1 = Len(disk.files)
  BY <1>1, <1>3 DEF PackInv
<1>5. Registered(disk.head, n, disk.files, Len(disk.files))
  BY <1>1, <1>4 DEF PackInv
<1>6. n >= 3
  <2>1. PICK j \in 1 .. Len(disk.files) : disk.files[j].name \notin {Self, Parent}
    BY <1>3, FilesAre
  <2>2. \E k \in 3 .. n : disk.head[k].name = disk.files[j].name
    BY <1>5, <2>1 DEF Registered
  <2>3. QED
    BY <1>3, <2>2
<1> HIDE DEF n
<1>7. n = Len(disk.head)
  BY DEF n
<1>8. PICK f : Places(disk.head, n, f)
  BY <1>3, <1>6, <1>7, PlacedIs
<1>9. Space(n) \in Nat /\ (n + 1) * EntrySize \in Nat
  BY <1>3, SpaceIs
<1>10. ASSUME NEW k \in 1 .. n
       PROVE  /\ P[k] \in EntryType
              /\ P[k].name = disk.head[k].name /\ P[k].length = disk.head[k].length
              /\ k < 3 => P[k].size = Space(n) /\ P[k].offset = disk.head[k].offset
              /\ k >= 3 => P[k].size = disk.head[k].size /\ P[k].offset = f[k]
  <2>1. disk.head[k] \in EntryType
    BY <1>3, <1>7
  <2>2. k < 3 => P[k] = [disk.head[k] EXCEPT !.size = Space(n)]
    BY <1>8 DEF Places
  <2>3. k >= 3 => P[k] = [disk.head[k] EXCEPT !.offset = f[k]] /\ f[k] \in Nat
    BY <1>3, <1>8 DEF Places
  <2> HIDE DEF P
  <2>4. k < 3 \/ k >= 3
    BY <1>3
  <2>5. QED
    BY <1>9, <2>1, <2>2, <2>3, <2>4 DEF EntryType
<1>11. P \in Seq(EntryType) /\ Len(P) = n
  <2>1. P = [k \in 1 .. n |-> P[k]]
    BY <1>8 DEF Places
  <2> HIDE DEF P
  <2>2. QED
    BY <1>3, <1>10, <2>1
<1> HIDE DEF P
<1>12. tail \in EntryType /\ tail.name = <<>>
  <2>1. length \in Nat
    BY VfsAssumption
  <2>2. QED
    BY <2>1 DEF EntryType
<1> HIDE DEF tail
<1>13. /\ h \in Seq(EntryType) /\ Len(h) = n + 1 /\ h[n + 1] = tail
       /\ \A k \in 1 .. n : h[k] = P[k]
  BY <1>3, <1>11, <1>12
<1>14. disk' = [disk EXCEPT !.pc = "write", !.head = h, !.i = 3,
                            !.package = Table(h), !.size = Len(h) * EntrySize]
  BY <1>2 DEF tail
<1> HIDE DEF h
<1>15. /\ Table(h) \in Seq(UnitType) /\ Len(Table(h)) = (n + 1) * EntrySize
       /\ \A x \in 1 .. (n + 1) * EntrySize : Table(h)[x] = Unit("table")
       /\ Len(h) * EntrySize = (n + 1) * EntrySize
  BY <1>3, <1>13, TableAre
<1>16. /\ disk' \in DiskType /\ disk'.pc = "write" /\ disk'.files = disk.files
       /\ disk'.i = 3 /\ disk'.head = h /\ disk'.package = Table(h)
       /\ disk'.size = (n + 1) * EntrySize /\ disk'.asked = <<>>
  <2>1. Len(h) * EntrySize \in Nat
    BY <1>9, <1>15
  <2>2. QED
    BY <1>1, <1>13, <1>14, <1>15, <2>1 DEF DiskType
<1>17. \A k \in 1 .. n : /\ h[k].name = disk.head[k].name
                         /\ h[k].length = disk.head[k].length
                         /\ k < 3 => h[k].size = Space(n) /\ h[k].offset = disk.head[k].offset
                         /\ k >= 3 => h[k].size = disk.head[k].size /\ h[k].offset = f[k]
  BY <1>10, <1>13
<1>18. Finished(disk', n)
  <2>1. \A k \in 3 .. n : k \in 1 .. n /\ k >= 3
    BY <1>3
  <2>2. \A k \in 3 .. n : h[k].size = disk.head[k].size
    BY <1>17, <2>1
  <2>3. n <= Len(h)
    BY <1>3, <1>13
  <2>4. Registered(h, n, disk.files, Len(disk.files))
    BY <1>5, <1>17, <2>2, <2>3, RegisteredSame
  <2>5. QED
    BY <1>6, <1>12, <1>13, <1>16, <2>4 DEF Finished
<1>19. Laid(h, n, 0)
  <2>1. 1 \in 1 .. n /\ 2 \in 1 .. n /\ 3 \in 1 .. n
    BY <1>3, <1>6
  <2>2. disk.head[1].offset = 0 /\ disk.head[2].offset = 0
    BY <1>1 DEF PackInv
  <2>3. /\ h[1].size = Space(n) /\ h[1].offset = 0
        /\ h[2].size = Space(n) /\ h[2].offset = 0
    BY <1>17, <2>1, <2>2
  <2>4. h[3].offset = 0 + Space(n)
    BY <1>8, <1>9, <1>17, <2>1 DEF Places
  <2>5. ASSUME NEW k \in 3 .. n PROVE \E m \in Nat : h[k].offset = 0 + m * Page
    <3>1. k \in 1 .. n /\ k >= 3
      BY <1>3
    <3>2. PICK m \in Nat : f[k] = m * Page
      BY <1>8 DEF Places
    <3>3. m * Page \in Nat
      BY VfsAssumption
    <3>4. h[k].offset = 0 + m * Page
      BY <1>17, <3>1, <3>2, <3>3
    <3>5. QED
      BY <3>4
  <2>6. ASSUME NEW k \in 3 .. n - 1
        PROVE  h[k + 1].offset = h[k].offset + AlignUp(h[k].size, Page)
    <3>1. k \in 1 .. n /\ k >= 3 /\ k + 1 \in 1 .. n /\ k + 1 >= 3
      BY <1>3
    <3>2. h[k].size = disk.head[k].size /\ h[k].offset = f[k] /\ h[k + 1].offset = f[k + 1]
      BY <1>17, <3>1
    <3>3. f[k + 1] = f[k] + AlignUp(disk.head[k].size, Page)
      BY <1>8 DEF Places
    <3>4. QED
      BY <3>2, <3>3
  <2>7. QED
    BY <2>3, <2>4, <2>5, <2>6 DEF Laid
<1>20. WriteInv(disk', n)
  <2>1. TableIs(disk'.package, n)
    BY <1>9, <1>15, <1>16 DEF TableIs
  <2>2. \A k \in 3 .. disk'.i - 1 : FALSE
    BY <1>16
  <2>3. QED
    BY <1>3, <1>6, <1>15, <1>16, <1>18, <1>19, <2>1, <2>2 DEF WriteInv
<1>21. Len(disk'.head) - 1 = n
  BY <1>3, <1>13, <1>16
<1>22. FilesAreRead'
  BY <1>16 DEF FilesAreRead
<1>23. QED
  BY <1>16, <1>20, <1>21, <1>22 DEF VfsInv

LEMMA PackFileStep ==
  ASSUME VfsInv, PackFile
  PROVE  VfsInv'
<1> DEFINE n == Len(disk.head) - 1
           i == disk.i
           e == disk.head[i]
           z == Zeros(AlignUp(disk.size, Page) - disk.size)
           b == Bytes(File(e.name, e.size))
           p == disk.package \o z
           q == p \o b
<1>1. /\ disk \in DiskType /\ WriteInv(disk, n) /\ disk.pc = "write" /\ i < Len(disk.head)
      /\ disk.asked = <<>>
      /\ disk' = [disk EXCEPT !.i = i + 1, !.package = q, !.size = e.offset + e.size]
  BY DEF PackFile, VfsInv
<1>2. /\ disk.files \in Directories /\ disk.head \in Seq(EntryType) /\ i \in Nat
      /\ disk.size \in Nat /\ disk.package \in Seq(UnitType) /\ Len(disk.package) \in Nat
      /\ Len(disk.head) \in Nat
  BY <1>1, DiskIs
<1>3. /\ Len(disk.head) = n + 1 /\ n \in Nat /\ n >= 3 /\ i \in 3 .. n
  BY <1>1, <1>2 DEF WriteInv, Finished
<1>4. \A k \in 1 .. n + 1 : disk.head[k] \in EntryType
  BY <1>2, <1>3
<1> HIDE DEF n, i
<1>5. e \in EntryType /\ e.offset \in Nat /\ e.size \in Nat /\ e.name \in Seq(Character)
  <2>1. e \in EntryType
    BY <1>3, <1>4
  <2>2. QED
    BY <2>1 DEF EntryType
<1>6. Page \in Nat \ {0}
  BY VfsAssumption
<1>7. /\ AlignUp(disk.size, Page) \in Nat /\ AlignUp(disk.size, Page) >= disk.size
  BY <1>2, <1>6, AlignUpIs
<1>8. e.offset = AlignUp(disk.size, Page)
  <2>1. CASE i = 3
    <3>1. disk.size = (n + 1) * EntrySize
      BY <1>1, <2>1 DEF WriteInv, i
    <3>2. disk.head[3].offset = 0 + Space(n)
      BY <1>1, <1>3 DEF WriteInv, Laid
    <3>3. Space(n) \in Nat
      BY <1>3, SpaceIs
    <3>4. QED
      BY <2>1, <3>1, <3>2, <3>3 DEF Space
  <2>2. CASE i # 3
    <3> DEFINE k == i - 1
               d == disk.head[k]
    <3>1. k \in 3 .. n - 1 /\ k + 1 = i /\ k \in 3 .. n /\ k \in 1 .. n + 1 /\ i > 3
      BY <1>3, <2>2
    <3>2. disk.size = d.offset + d.size
      BY <1>1, <3>1 DEF WriteInv, i
    <3> HIDE DEF k
    <3>3. Laid(disk.head, n, 0)
      BY <1>1 DEF WriteInv
    <3>4. disk.head[k + 1].offset = d.offset + AlignUp(d.size, Page)
      BY <3>1, <3>3 DEF Laid
    <3>5. PICK m \in Nat : d.offset = 0 + m * Page
      BY <3>1, <3>3 DEF Laid
    <3>6. d.size \in Nat
      BY <1>4, <3>1 DEF EntryType
    <3> HIDE DEF d
    <3>7. m * Page \in Nat
      BY <1>6
    <3>8. AlignUp(m * Page + d.size, Page) = m * Page + AlignUp(d.size, Page)
      BY <1>6, <3>6, AlignUpShift
    <3>9. d.offset = m * Page
      BY <3>5, <3>7
    <3>10. QED
      BY <3>1, <3>2, <3>4, <3>8, <3>9
  <2>3. QED
    BY <2>1, <2>2
<1>9. File(e.name, e.size) \in FileType /\ File(e.name, e.size).name = e.name
      /\ File(e.name, e.size).size = e.size
  BY <1>5 DEF File, FileType
<1>10. AlignUp(disk.size, Page) - disk.size \in Nat
  BY <1>2, <1>7
<1>11. /\ z \in Seq(UnitType) /\ Len(z) = AlignUp(disk.size, Page) - disk.size
       /\ \A x \in 1 .. Len(z) : z[x] = Unit("zero")
  BY <1>10, ZerosAre
<1>12. /\ b \in Seq(UnitType) /\ Len(b) = e.size
       /\ \A x \in 1 .. e.size : b[x] = [what |-> "byte", file |-> e.name, at |-> x]
  BY <1>9, BytesAre
<1> HIDE DEF z, b, e
<1>13. disk.size = Len(disk.package)
  BY <1>1 DEF WriteInv
<1>14. /\ p \in Seq(UnitType) /\ Len(p) = e.offset
       /\ \A x \in 1 .. Len(z) : p[Len(disk.package) + x] = Unit("zero")
  <2>1. /\ p \in Seq(UnitType) /\ Len(p) = Len(disk.package) + Len(z)
        /\ \A x \in 1 .. Len(z) : p[Len(disk.package) + x] = z[x]
    <3>1. disk.package \in Seq(UnitType) /\ z \in Seq(UnitType) /\ p = disk.package \o z
      BY <1>2, <1>11
    <3> HIDE DEF p
    <3>2. QED
      BY <3>1, BehindIs
  <2> HIDE DEF p
  <2>2. Len(p) = e.offset
    BY <1>2, <1>7, <1>8, <1>11, <1>13, <2>1
  <2>3. \A x \in 1 .. Len(z) : p[Len(disk.package) + x] = Unit("zero")
    BY <1>11, <2>1
  <2>4. QED
    BY <2>1, <2>2, <2>3
<1>15. /\ TableIs(p, n) /\ (Filled(disk.package, n) => Filled(p, n))
       /\ \A d, base : Holds(disk.package, d, base) => Holds(p, d, base)
  <2>1. TableIs(disk.package, n)
    BY <1>1 DEF WriteInv
  <2>2. QED
    BY <1>2, <1>3, <1>11, <2>1, StillThere
<1> HIDE DEF p
<1>16. /\ q \in Seq(UnitType) /\ Len(q) = e.offset + e.size
       /\ \A x \in 1 .. e.size : q[e.offset + x] = b[x]
  <2>1. p \in Seq(UnitType) /\ b \in Seq(UnitType) /\ q = p \o b
    BY <1>12, <1>14
  <2> HIDE DEF q
  <2>2. /\ q \in Seq(UnitType) /\ Len(q) = Len(p) + Len(b)
        /\ \A x \in 1 .. Len(b) : q[Len(p) + x] = b[x]
    BY <2>1, BehindIs
  <2>3. QED
    BY <1>12, <1>14, <2>2
<1>17. /\ TableIs(q, n) /\ (Filled(p, n) => Filled(q, n))
       /\ \A d, base : Holds(p, d, base) => Holds(q, d, base)
  BY <1>3, <1>12, <1>14, <1>15, StillThere
<1> HIDE DEF q
<1>18. Holds(q, e, 0)
  <2> SUFFICES ASSUME NEW x \in 1 .. e.size
               PROVE  /\ e.offset - 0 + x \in 1 .. Len(q)
                      /\ q[e.offset - 0 + x] = [what |-> "byte", file |-> e.name, at |-> x]
    BY DEF Holds
  <2>1. e.offset - 0 + x = e.offset + x /\ e.offset + x \in 1 .. Len(q)
    BY <1>5, <1>16
  <2>2. QED
    BY <1>12, <1>16, <2>1
<1>19. Filled(q, n)
  <2>1. CASE i = 3
    <3>1. Len(disk.package) = (n + 1) * EntrySize /\ Len(p) = Space(n)
      BY <1>1, <1>8, <1>13, <1>14, <2>1 DEF WriteInv, i, Space
    <3>2. (n + 1) * EntrySize \in Nat /\ Space(n) \in Nat
      BY <1>3, SpaceIs
    <3> DEFINE t == (n + 1) * EntrySize
    <3>3. t = (n + 1) * EntrySize
      OBVIOUS
    <3> HIDE DEF t
    <3>4. Len(z) = Space(n) - t /\ t \in Nat /\ Space(n) \in Nat
      BY <1>8, <1>11, <1>13, <1>14, <3>1, <3>2, <3>3
    <3>5. ASSUME NEW x \in t + 1 .. Space(n) PROVE p[x] = Unit("zero")
      <4>1. x - t \in 1 .. Len(z) /\ t + (x - t) = x
        BY <3>4
      <4>2. QED
        BY <1>14, <3>1, <3>3, <4>1
    <3>6. Filled(p, n)
      BY <3>1, <3>2, <3>3, <3>5 DEF Filled
    <3>7. QED
      BY <1>17, <3>6
  <2>2. CASE i # 3
    <3>1. i > 3
      BY <1>3, <2>2
    <3>2. Filled(disk.package, n)
      BY <1>1, <3>1 DEF WriteInv, i
    <3>3. QED
      BY <1>15, <1>17, <3>2
  <2>3. QED
    BY <2>1, <2>2
<1>20. \A k \in 3 .. i : Holds(q, disk.head[k], 0)
  <2> TAKE k \in 3 .. i
  <2>1. CASE k = i
    BY <1>18, <2>1 DEF e
  <2>2. CASE k # i
    <3>1. k \in 3 .. i - 1
      BY <1>3, <2>2
    <3>2. Holds(disk.package, disk.head[k], 0)
      BY <1>1, <3>1 DEF WriteInv, i
    <3>3. QED
      BY <1>15, <1>17, <3>2
  <2>3. QED
    BY <2>1, <2>2
<1>21. /\ disk' \in DiskType /\ disk'.pc = "write" /\ disk'.files = disk.files
       /\ disk'.i = i + 1 /\ disk'.head = disk.head /\ disk'.package = q
       /\ disk'.size = e.offset + e.size /\ disk'.asked = <<>>
  <2>1. i + 1 \in Nat /\ e.offset + e.size \in Nat
    BY <1>3, <1>5
  <2>2. QED
    BY <1>1, <1>16, <2>1 DEF DiskType
<1>22. WriteInv(disk', n)
  <2>1. Finished(disk', n)
    BY <1>1, <1>21 DEF WriteInv, Finished
  <2>2. Laid(disk'.head, n, 0)
    BY <1>1, <1>21 DEF WriteInv
  <2>3. /\ disk'.i >= 3 /\ disk'.i <= n + 1 /\ disk'.i # 3 /\ disk'.i - 1 = i
    BY <1>3, <1>21
  <2>4. QED
    BY <1>16, <1>17, <1>19, <1>20, <1>21, <2>1, <2>2, <2>3 DEF WriteInv, e
<1>23. FilesAreRead'
  BY <1>21 DEF FilesAreRead
<1>24. Len(disk'.head) - 1 = n
  BY <1>21 DEF n
<1>25. QED
  BY <1>21, <1>22, <1>23, <1>24 DEF VfsInv

LEMMA PackEndStep ==
  ASSUME VfsInv, PackEnd
  PROVE  VfsInv'
<1> DEFINE n == Len(disk.head) - 1
           z == Zeros(WordSize - (disk.size % WordSize))
           p == disk.package \o z
           q == p \o Magic
<1>1. /\ disk \in DiskType /\ WriteInv(disk, n) /\ disk.pc = "write" /\ disk.i = Len(disk.head)
      /\ disk.asked = <<>>
      /\ disk' = [disk EXCEPT !.pc = "packed", !.package = q]
  BY DEF PackEnd, VfsInv
<1>2. /\ disk.files \in Directories /\ disk.head \in Seq(EntryType)
      /\ disk.size \in Nat /\ disk.package \in Seq(UnitType) /\ Len(disk.head) \in Nat
  BY <1>1, DiskIs
<1>3. /\ n \in Nat /\ n >= 3 /\ disk.i = n + 1 /\ disk.i > 3
  BY <1>1, <1>2 DEF WriteInv, Finished
<1>4. WordSize - (disk.size % WordSize) \in Nat
  <2>1. WordSize \in Nat \ {0}
    BY VfsAssumption
  <2>2. disk.size % WordSize \in Nat /\ disk.size % WordSize < WordSize
    BY <1>2, <2>1, DivIs
  <2>3. QED
    BY <2>1, <2>2
<1>5. z \in Seq(UnitType)
  BY <1>4, ZerosAre
<1> HIDE DEF n, z
<1>6. TableIs(disk.package, n) /\ Filled(disk.package, n)
  BY <1>1, <1>3 DEF WriteInv
<1>7. /\ p \in Seq(UnitType) /\ TableIs(p, n) /\ Filled(p, n)
      /\ \A d, base : Holds(disk.package, d, base) => Holds(p, d, base)
  BY <1>2, <1>3, <1>5, <1>6, BehindIs, StillThere
<1> HIDE DEF p
<1>8. /\ q \in Seq(UnitType) /\ TableIs(q, n) /\ Filled(q, n)
      /\ \A d, base : Holds(p, d, base) => Holds(q, d, base)
  BY <1>3, <1>7, MagicIs, BehindIs, StillThere
<1> HIDE DEF q
<1>9. \A k \in 3 .. n : Holds(q, disk.head[k], 0)
  <2> TAKE k \in 3 .. n
  <2>1. k \in 3 .. disk.i - 1
    BY <1>3
  <2>2. Holds(disk.package, disk.head[k], 0)
    BY <1>1, <2>1 DEF WriteInv
  <2>3. QED
    BY <1>7, <1>8, <2>2
<1>10. /\ disk' \in DiskType /\ disk'.pc = "packed" /\ disk'.files = disk.files
       /\ disk'.head = disk.head /\ disk'.package = q /\ disk'.asked = <<>>
  BY <1>1, <1>8 DEF DiskType
<1>11. ReadyInv(disk', n, 0)
  <2>1. Finished(disk', n) /\ Laid(disk'.head, n, 0)
    BY <1>1, <1>10 DEF WriteInv, Finished
  <2>2. QED
    BY <1>8, <1>9, <1>10, <2>1 DEF ReadyInv
<1>12. Len(disk'.head) - 1 = n
  BY <1>10 DEF n
<1>13. FilesAreRead'
  BY <1>10 DEF FilesAreRead
<1>14. QED
  BY <1>10, <1>11, <1>12, <1>13 DEF VfsInv

-----------------------------------------------------------------------------
(* The kernel: the table does not end before the last file.                *)
LEMMA EndsBehind ==
  ASSUME NEW head \in Seq(EntryType), NEW n, NEW files, NEW i, Registered(head, n, files, i)
  PROVE  Ends(head) \in Nat /\ Ends(head) > n
<1> DEFINE S == {k \in DOMAIN head : head[k].length = 0} \union {Len(head) + 1}
<1>1. /\ n \in Nat /\ n >= 2 /\ n <= Len(head) /\ Len(head) \in Nat
      /\ DOMAIN head = 1 .. Len(head)
  BY DEF Registered
<1>2. S \in SUBSET Nat /\ S # {}
  BY <1>1
<1>3. Ends(head) \in S
  BY <1>2, MinIsIn DEF Ends
<1>4. \A k \in 1 .. n : head[k].length # 0
  <2> TAKE k \in 1 .. n
  <2>1. k = 1 \/ k = 2 \/ k \in 3 .. n
    BY <1>1
  <2>2. k = 1 \/ k = 2 => head[k].length # 0
    BY DEF Registered
  <2>3. CASE k \in 3 .. n
    <3>1. head[k].name # <<>> /\ head[k].length = Len(head[k].name)
      BY <2>3 DEF Registered, Of
    <3>2. head[k] \in EntryType
      BY <1>1
    <3>3. head[k].name \in Seq(Character)
      BY <3>2 DEF EntryType
    <3>4. QED
      BY <3>1, <3>3
  <2>4. QED
    BY <2>1, <2>2, <2>3
<1>5. Ends(head) \notin 1 .. n
  BY <1>1, <1>3, <1>4
<1>6. Ends(head) \in Nat /\ Ends(head) >= 1
  BY <1>1, <1>3
<1>7. QED
  BY <1>1, <1>5, <1>6

LEMMA BootStep ==
  ASSUME VfsInv, Boot
  PROVE  VfsInv'
<1> DEFINE n == Len(disk.head) - 1
           h == [k \in DOMAIN disk.head |->
                   IF k < Ends(disk.head) THEN [disk.head[k] EXCEPT !.offset = @ + Base]
                   ELSE disk.head[k]]
<1>1. /\ disk \in DiskType /\ ReadyInv(disk, n, 0) /\ disk.pc = "packed" /\ disk.asked = <<>>
      /\ \/ disk' = [disk EXCEPT !.pc = "no disk"] \/ disk' = [disk EXCEPT !.pc = "astray"]
         \/ disk' = [disk EXCEPT !.pc = "booted", !.head = h]
  BY DEF Boot, VfsInv
<1>2. FilesAreRead' /\ disk'.asked = <<>>
  <2>1. disk'.asked = <<>>
    BY <1>1 DEF DiskType
  <2>2. QED
    BY <2>1 DEF FilesAreRead
<1>3. ASSUME NEW at \in {"no disk", "astray"}, disk' = [disk EXCEPT !.pc = at]
      PROVE  VfsInv'
  <2>1. disk' \in DiskType /\ disk'.pc = at
    BY <1>1, <1>3 DEF DiskType
  <2>2. QED
    BY <1>2, <2>1 DEF VfsInv
<1>4. ASSUME disk' = [disk EXCEPT !.pc = "booted", !.head = h]
      PROVE  VfsInv'
  <2>1. /\ disk.head \in Seq(EntryType) /\ Len(disk.head) \in Nat
        /\ DOMAIN disk.head = 1 .. Len(disk.head)
    <3>1. disk.head \in Seq(EntryType) /\ Len(disk.head) \in Nat
      BY <1>1, DiskIs
    <3>2. QED
      BY <3>1
  <2>2. /\ n \in Nat /\ n >= 3 /\ Len(disk.head) = n + 1
        /\ Registered(disk.head, n, disk.files, Len(disk.files))
        /\ disk.head[n + 1].name = <<>>
    <3>1. Finished(disk, n)
      BY <1>1 DEF ReadyInv
    <3>2. Len(disk.head) = n + 1 /\ n >= 3 /\ n \in Nat
      BY <2>1, <3>1 DEF Finished
    <3> HIDE DEF n
    <3>3. QED
      BY <3>1, <3>2 DEF Finished
  <2>3. Ends(disk.head) \in Nat /\ Ends(disk.head) > n
    BY <2>1, <2>2, EndsBehind
  <2>4. Base \in Nat
    BY VfsAssumption
  <2>5. ASSUME NEW k \in 1 .. n + 1
        PROVE  /\ h[k] \in EntryType /\ h[k].name = disk.head[k].name
               /\ h[k].length = disk.head[k].length /\ h[k].size = disk.head[k].size
               /\ k <= n => h[k].offset = disk.head[k].offset + Base
               /\ disk.head[k].offset \in Nat
    <3>1. disk.head[k] \in EntryType
      BY <2>1, <2>2
    <3>2. h[k] = IF k < Ends(disk.head) THEN [disk.head[k] EXCEPT !.offset = @ + Base]
                 ELSE disk.head[k]
      BY <2>1, <2>2
    <3>3. k <= n => k < Ends(disk.head)
      BY <2>2, <2>3
    <3> HIDE DEF h, n
    <3>4. QED
      BY <2>4, <3>1, <3>2, <3>3 DEF EntryType
  <2>6. h \in Seq(EntryType) /\ Len(h) = n + 1
    <3>1. h = [k \in 1 .. n + 1 |-> h[k]]
      BY <2>1, <2>2
    <3> HIDE DEF h, n
    <3>2. QED
      BY <2>2, <2>5, <3>1
  <2> HIDE DEF h
  <2>7. /\ disk' \in DiskType /\ disk'.pc = "booted" /\ disk'.files = disk.files
        /\ disk'.head = h /\ disk'.package = disk.package
    BY <1>1, <1>4, <2>6 DEF DiskType
  <2> HIDE DEF n
  <2>8. Finished(disk', n)
    <3>1. \A k \in 1 .. n : k \in 1 .. n + 1
      BY <2>2
    <3>2. \A k \in 3 .. n : k \in 1 .. n + 1
      BY <2>2
    <3>3. n <= Len(h) /\ n + 1 \in 1 .. n + 1
      BY <2>2, <2>6
    <3>4. Registered(h, n, disk.files, Len(disk.files))
      BY <2>2, <2>5, <3>1, <3>2, <3>3, RegisteredSame
    <3>5. h[n + 1].name = <<>>
      BY <2>2, <2>5, <3>3
    <3>6. QED
      BY <2>2, <2>6, <2>7, <3>4, <3>5 DEF Finished
  <2>9. Laid(h, n, Base)
    <3>1. Laid(disk.head, n, 0)
      BY <1>1 DEF ReadyInv
    <3>2. 1 \in 1 .. n + 1 /\ 2 \in 1 .. n + 1 /\ 3 \in 1 .. n + 1 /\ 1 <= n /\ 2 <= n
      BY <2>2
    <3>3. /\ h[1].size = Space(n) /\ h[1].offset = Base
          /\ h[2].size = Space(n) /\ h[2].offset = Base
      BY <2>4, <2>5, <3>1, <3>2 DEF Laid
    <3>4. Space(n) \in Nat
      BY <2>2, SpaceIs
    <3>5. h[3].offset = Base + Space(n)
      <4>1. disk.head[3].offset = 0 + Space(n)
        BY <2>2, <3>1 DEF Laid
      <4>2. h[3].offset = disk.head[3].offset + Base
        BY <2>2, <2>5, <3>2
      <4>3. QED
        BY <2>4, <3>4, <4>1, <4>2
    <3>6. ASSUME NEW k \in 3 .. n PROVE \E m \in Nat : h[k].offset = Base + m * Page
      <4>1. PICK m \in Nat : disk.head[k].offset = 0 + m * Page
        BY <3>1 DEF Laid
      <4>2. k \in 1 .. n + 1 /\ k <= n
        BY <2>2
      <4>3. m * Page \in Nat
        BY VfsAssumption
      <4>4. h[k].offset = Base + m * Page
        BY <2>4, <2>5, <4>1, <4>2, <4>3
      <4>5. QED
        BY <4>4
    <3>7. ASSUME NEW k \in 3 .. n - 1
          PROVE  h[k + 1].offset = h[k].offset + AlignUp(h[k].size, Page)
      <4>1. k \in 1 .. n + 1 /\ k <= n /\ k + 1 \in 1 .. n + 1 /\ k + 1 <= n
        BY <2>2
      <4>2. disk.head[k + 1].offset = disk.head[k].offset + AlignUp(disk.head[k].size, Page)
        BY <3>1 DEF Laid
      <4>3. /\ h[k].offset = disk.head[k].offset + Base /\ disk.head[k].offset \in Nat
            /\ h[k + 1].offset = disk.head[k + 1].offset + Base
            /\ h[k].size = disk.head[k].size /\ disk.head[k].size \in Nat
        <5>1. disk.head[k] \in EntryType
          BY <2>1, <2>2, <4>1
        <5>2. QED
          BY <2>5, <4>1, <5>1 DEF EntryType
      <4>4. AlignUp(disk.head[k].size, Page) \in Nat
        BY <4>3, AlignUpIs, VfsAssumption
      <4>5. QED
        BY <2>4, <4>2, <4>3, <4>4
    <3>8. QED
      BY <3>3, <3>5, <3>6, <3>7 DEF Laid
  <2>10. \A k \in 3 .. n : Holds(disk.package, h[k], Base)
    <3> TAKE k \in 3 .. n
    <3>1. Holds(disk.package, disk.head[k], 0)
      BY <1>1 DEF ReadyInv
    <3>2. k \in 1 .. n + 1 /\ k <= n
      BY <2>2
    <3>3. /\ h[k].offset = disk.head[k].offset + Base /\ disk.head[k].offset \in Nat
          /\ h[k].size = disk.head[k].size /\ h[k].name = disk.head[k].name
          /\ disk.head[k].size \in Nat
      <4>1. disk.head[k] \in EntryType
        BY <2>1, <2>2, <3>2
      <4>2. QED
        BY <2>5, <3>2, <4>1 DEF EntryType
    <3>4. ASSUME NEW x \in 1 .. h[k].size
          PROVE  h[k].offset - Base + x = disk.head[k].offset - 0 + x
      BY <2>4, <3>3
    <3>5. QED
      BY <3>1, <3>3, <3>4 DEF Holds
  <2>11. ReadyInv(disk', n, Base)
    BY <1>1, <2>7, <2>8, <2>9, <2>10 DEF ReadyInv
  <2>12. Len(disk'.head) - 1 = n
    BY <2>2, <2>6, <2>7
  <2>13. QED
    BY <1>2, <2>7, <2>11, <2>12 DEF VfsInv
<1>5. QED
  BY <1>1, <1>3, <1>4

-----------------------------------------------------------------------------
(* What a program reads.                                                   *)
Matches(name) ==
  {k \in DOMAIN disk.head : /\ k <= Ends(disk.head) /\ disk.head[k].length = Len(name)
                            /\ disk.head[k].name = name}

LEMMA FindIs ==
  ASSUME NEW name, disk.head \in Seq(EntryType)
  PROVE  /\ Matches(name) = {} => Find(name) = 0
         /\ Matches(name) # {} => /\ Find(name) \in Matches(name) /\ Find(name) \in Nat \ {0}
                                  /\ \A k \in Matches(name) : Find(name) <= k
<1> DEFINE S == Matches(name)
<1>1. Find(name) = IF S = {} THEN 0 ELSE Min(S)
  BY DEF Find, Matches
<1>2. S \in SUBSET (Nat \ {0})
  BY DEF Matches
<1> HIDE DEF S
<1>3. ASSUME S # {} PROVE Min(S) \in S /\ \A k \in S : Min(S) <= k
  <2>1. \E x \in S : \A y \in S : x <= y
    BY <1>2, <1>3, Least
  <2>2. QED
    BY <2>1 DEF Min
<1>4. S = {} => Find(name) = 0
  BY <1>1
<1>5. S # {} => /\ Find(name) \in S /\ Find(name) \in Nat \ {0}
                /\ \A k \in S : Find(name) <= k
  BY <1>1, <1>2, <1>3
<1>6. QED
  BY <1>4, <1>5 DEF S

LEMMA ContentIs ==
  ASSUME NEW e \in EntryType, disk.package \in Seq(UnitType)
  PROVE  /\ Content(e) \in Seq(UnitType) /\ Len(Content(e)) = e.size
         /\ \A x \in 1 .. e.size : e.offset - Base + x \in 1 .. Len(disk.package) =>
              Content(e)[x] = disk.package[e.offset - Base + x]
<1> DEFINE p == disk.package
           Spot(x) == e.offset - Base + x
           g(x) == IF Spot(x) \in DOMAIN p THEN p[Spot(x)] ELSE Unit("unknown")
           c == [x \in 1 .. e.size |-> g(x)]
<1>1. Content(e) = c
  BY DEF Content
<1>2. p \in Seq(UnitType) /\ DOMAIN p = 1 .. Len(p)
  OBVIOUS
<1>3. e.size \in Nat
  BY DEF EntryType
<1>4. Unit("unknown") \in UnitType
  BY DEF Unit, UnitType
<1> HIDE DEF p, Spot
<1>5. \A x : g(x) \in UnitType /\ (Spot(x) \in 1 .. Len(p) => g(x) = p[Spot(x)])
  BY <1>2, <1>4
<1> HIDE DEF g
<1>6. c \in Seq(UnitType) /\ Len(c) = e.size /\ \A x \in 1 .. e.size : c[x] = g(x)
  BY <1>3, <1>5
<1> HIDE DEF c
<1>7. \A x \in 1 .. e.size : Spot(x) \in 1 .. Len(p) => Content(e)[x] = p[Spot(x)]
  BY <1>1, <1>5, <1>6
<1>8. QED
  BY <1>1, <1>6, <1>7 DEF Spot, p

(* The directory itself.                                                   *)
LEMMA ReadTable ==
  ASSUME disk \in DiskType, NEW n, n = Len(disk.head) - 1, ReadyInv(disk, n, Base),
         NEW name \in {Self, Parent}
  PROVE  LET got == Content(disk.head[Find(name)]) IN
         /\ Find(name) # 0
         /\ got \in Seq(UnitType)
         /\ SubSeq(got, 1, Len(disk.head) * EntrySize) = Table(disk.head)
         /\ \A k \in Len(disk.head) * EntrySize + 1 .. Len(got) : got[k] = Unit("zero")
<1> DEFINE k == IF name = Self THEN 1 ELSE 2
           e == disk.head[k]
           g == Content(e)
           t == (n + 1) * EntrySize
<1>1. disk.head \in Seq(EntryType) /\ Len(disk.head) \in Nat /\ disk.package \in Seq(UnitType)
  BY DiskIs
<1>2. /\ n \in Nat /\ n >= 3 /\ Len(disk.head) = n + 1
      /\ Registered(disk.head, n, disk.files, Len(disk.files))
  BY <1>1 DEF ReadyInv, Finished
<1>3. Ends(disk.head) \in Nat /\ Ends(disk.head) > n
  BY <1>1, <1>2, EndsBehind
<1>4. /\ disk.head[1].name = Self /\ disk.head[1].length = Len(Self)
      /\ disk.head[2].name = Parent /\ disk.head[2].length = Len(Parent)
  BY <1>2, NamesDiffer DEF Registered
<1>5. k \in Matches(name) /\ \A j \in Matches(name) : j # 0 /\ ~ j < k
  <2>1. 1 \in DOMAIN disk.head /\ 2 \in DOMAIN disk.head /\ 1 <= Ends(disk.head)
        /\ 2 <= Ends(disk.head)
    BY <1>1, <1>2, <1>3
  <2>2. \A j \in Matches(name) : j \in Nat \ {0} /\ disk.head[j].name = name
    BY <1>1 DEF Matches
  <2>3. CASE name = Self
    BY <1>4, <2>1, <2>2, <2>3 DEF Matches
  <2>4. CASE name # Self
    <3>1. name = Parent /\ k = 2
      BY <2>4
    <3>2. 1 \notin Matches(name)
      BY <1>4, <3>1, NamesDiffer DEF Matches
    <3>3. 2 \in Matches(name)
      BY <1>4, <2>1, <3>1 DEF Matches
    <3>4. QED
      BY <2>2, <3>1, <3>2, <3>3
  <2>5. QED
    BY <2>3, <2>4
<1>6. Find(name) = k
  <2>1. Matches(name) # {}
    BY <1>5
  <2>2. /\ Find(name) \in Matches(name) /\ Find(name) \in Nat
        /\ \A j \in Matches(name) : Find(name) <= j
    BY <1>1, <2>1, FindIs
  <2>3. k \in Nat
    OBVIOUS
  <2> HIDE DEF k
  <2>4. QED
    BY <1>5, <2>2, <2>3
<1>7. e \in EntryType /\ e.size = Space(n) /\ e.offset = Base /\ k # 0
  <2>1. disk.head[1] \in EntryType /\ disk.head[2] \in EntryType
    BY <1>1, <1>2
  <2>2. /\ disk.head[1].size = Space(n) /\ disk.head[1].offset = Base
        /\ disk.head[2].size = Space(n) /\ disk.head[2].offset = Base
    BY DEF ReadyInv, Laid
  <2>3. QED
    BY <2>1, <2>2
<1> HIDE DEF k, e
<1>8. /\ g \in Seq(UnitType) /\ Len(g) = Space(n)
      /\ \A x \in 1 .. Space(n) : e.offset - Base + x \in 1 .. Len(disk.package) =>
           g[x] = disk.package[e.offset - Base + x]
  BY <1>1, <1>7, ContentIs
<1>9. /\ t \in Nat /\ Space(n) \in Nat /\ t <= Space(n) /\ Space(n) <= Len(disk.package)
      /\ Len(disk.package) \in Nat
  <2>1. Space(n) <= Len(disk.package)
    BY DEF ReadyInv, Filled
  <2>2. (n + 1) * EntrySize \in Nat /\ Space(n) \in Nat /\ Space(n) >= (n + 1) * EntrySize
    BY <1>2, SpaceIs
  <2>3. Len(disk.package) \in Nat
    BY <1>1
  <2> HIDE DEF t
  <2>4. t = (n + 1) * EntrySize
    BY DEF t
  <2>5. QED
    BY <2>1, <2>2, <2>3, <2>4
<1>10. t = (n + 1) * EntrySize /\ t = Len(disk.head) * EntrySize
  BY <1>2
<1> HIDE DEF g, t
<1>11. ASSUME NEW x \in 1 .. Space(n) PROVE g[x] = disk.package[x]
  <2>1. e.offset - Base + x = x /\ x \in 1 .. Len(disk.package)
    BY <1>7, <1>9, VfsAssumption
  <2>2. QED
    BY <1>8, <2>1
<1>12. \A x \in 1 .. t : g[x] = Unit("table")
  <2> TAKE x \in 1 .. t
  <2>1. disk.package[x] = Unit("table")
    BY <1>10 DEF ReadyInv, TableIs
  <2>2. x \in 1 .. Space(n)
    BY <1>9
  <2>3. QED
    BY <1>11, <2>1, <2>2
<1>13. \A x \in t + 1 .. Len(g) : g[x] = Unit("zero")
  <2> TAKE x \in t + 1 .. Len(g)
  <2>1. x \in t + 1 .. Space(n)
    BY <1>8
  <2>2. disk.package[x] = Unit("zero")
    BY <1>10, <2>1 DEF ReadyInv, Filled
  <2>3. x \in 1 .. Space(n)
    BY <1>9, <2>1
  <2>4. QED
    BY <1>11, <2>2, <2>3
<1>14. SubSeq(g, 1, t) = Table(disk.head)
  <2>1. SubSeq(g, 1, t) = [x \in 1 .. t |-> g[x]]
    <3>1. SubSeq(g, 1, t) = [x \in 1 .. (1 + t - 1) |-> g[1 + x - 1]]
      BY <1>8, <1>9
    <3>2. 1 + t - 1 = t /\ \A x \in 1 .. t : 1 + x - 1 = x
      BY <1>9
    <3>3. QED
      BY <3>1, <3>2
  <2>2. Table(disk.head) = [x \in 1 .. t |-> Unit("table")]
    BY <1>10 DEF Table
  <2>3. QED
    BY <1>12, <2>1, <2>2
<1>15. QED
  BY <1>6, <1>7, <1>8, <1>10, <1>13, <1>14 DEF g, e

(* A file, or what is none.                                                *)
LEMMA ReadFile ==
  ASSUME disk \in DiskType, NEW n, n = Len(disk.head) - 1, ReadyInv(disk, n, Base),
         NEW name, name \notin {Self, Parent, <<>>}
  PROVE  /\ Find(name) # 0 <=> \E j \in 1 .. Len(disk.files) : disk.files[j].name = name
         /\ Find(name) # 0 =>
              LET got == Content(disk.head[Find(name)]) IN
              /\ got \in Seq(UnitType)
              /\ \A j \in 1 .. Len(disk.files) :
                   disk.files[j].name = name => got = Bytes(disk.files[j])
<1>1. /\ disk.head \in Seq(EntryType) /\ Len(disk.head) \in Nat
      /\ disk.package \in Seq(UnitType) /\ disk.files \in Directories
  BY DiskIs
<1>2. /\ n \in Nat /\ n >= 3 /\ Len(disk.head) = n + 1 /\ disk.head[n + 1].name = <<>>
      /\ Registered(disk.head, n, disk.files, Len(disk.files))
  BY <1>1 DEF ReadyInv, Finished
<1>3. Ends(disk.head) \in Nat /\ Ends(disk.head) > n
  BY <1>1, <1>2, EndsBehind
<1>4. \A k \in 3 .. n : Of(disk.head[k], disk.files)
  BY <1>2 DEF Registered
<1>5. ASSUME NEW k \in Matches(name)
      PROVE  k \in 3 .. n /\ disk.head[k].name = name
  <2>1. k \in 1 .. n + 1 /\ disk.head[k].name = name
    BY <1>1, <1>2 DEF Matches
  <2>2. k # n + 1
    BY <1>2, <2>1
  <2>3. k # 1 /\ k # 2
    BY <1>2, <2>1 DEF Registered
  <2>4. QED
    BY <1>2, <2>1, <2>2, <2>3
<1>6. ASSUME NEW j \in 1 .. Len(disk.files), disk.files[j].name = name
      PROVE  Matches(name) # {}
  <2>1. PICK k \in 3 .. n : disk.head[k].name = name
    BY <1>2, <1>6 DEF Registered
  <2>2. disk.head[k].length = Len(name)
    BY <1>4, <2>1 DEF Of
  <2>3. k \in DOMAIN disk.head /\ k <= Ends(disk.head)
    BY <1>1, <1>2, <1>3
  <2>4. k \in Matches(name)
    BY <2>1, <2>2, <2>3 DEF Matches
  <2>5. QED
    BY <2>4
<1>7. ASSUME Find(name) # 0
      PROVE  /\ \E j \in 1 .. Len(disk.files) : disk.files[j].name = name
             /\ Content(disk.head[Find(name)]) \in Seq(UnitType)
             /\ \A j \in 1 .. Len(disk.files) :
                  disk.files[j].name = name => Content(disk.head[Find(name)]) = Bytes(disk.files[j])
  <2>1. Find(name) \in Matches(name)
    BY <1>1, <1>7, FindIs
  <2>2. PICK k : k = Find(name)
    OBVIOUS
  <2>3. k \in 3 .. n /\ disk.head[k].name = name
    BY <1>5, <2>1, <2>2
  <2> DEFINE e == disk.head[k]
             g == Content(e)
  <2>4. PICK j \in 1 .. Len(disk.files) : disk.files[j].name = name /\ disk.files[j].size = e.size
    BY <1>4, <2>3 DEF Of
  <2>5. e \in EntryType /\ e.name = name
    BY <1>1, <1>2, <2>3
  <2>6. Holds(disk.package, e, Base)
    BY <2>3 DEF ReadyInv
  <2> HIDE DEF e
  <2>7. /\ g \in Seq(UnitType) /\ Len(g) = e.size
        /\ \A x \in 1 .. e.size : e.offset - Base + x \in 1 .. Len(disk.package) =>
             g[x] = disk.package[e.offset - Base + x]
    BY <1>1, <2>5, ContentIs
  <2> HIDE DEF g
  <2>8. \A x \in 1 .. e.size : g[x] = [what |-> "byte", file |-> name, at |-> x]
    BY <2>5, <2>6, <2>7 DEF Holds
  <2>9. g = Bytes(disk.files[j])
    <3>1. disk.files[j] \in FileType
      BY <1>1, FilesAre
    <3>2. Bytes(disk.files[j]) =
            [x \in 1 .. e.size |-> [what |-> "byte", file |-> name, at |-> x]]
      BY <2>4 DEF Bytes
    <3>3. g = [x \in 1 .. e.size |-> g[x]]
      BY <2>7
    <3>4. QED
      BY <2>8, <3>2, <3>3
  <2>10. \A i \in 1 .. Len(disk.files) : disk.files[i].name = name => i = j
    BY <1>1, <2>4, FilesAre
  <2>11. \A i \in 1 .. Len(disk.files) :
           disk.files[i].name = name => g = Bytes(disk.files[i])
    BY <2>9, <2>10
  <2>12. g = Content(disk.head[Find(name)])
    BY <2>2 DEF g, e
  <2>13. QED
    BY <2>4, <2>7, <2>11, <2>12
<1>8. (\E j \in 1 .. Len(disk.files) : disk.files[j].name = name) => Find(name) # 0
  <2>1. Matches(name) # {} => Find(name) # 0
    BY <1>1, FindIs
  <2>2. QED
    BY <1>6, <2>1
<1>9. QED
  BY <1>7, <1>8

(* What a read changes leaves the directory and the package as they were.  *)
LEMMA FileReadStep ==
  ASSUME VfsInv, NEW name \in Names, Read(name)
  PROVE  VfsInv'
<1> DEFINE n     == Len(disk.head) - 1
           found == Find(name) # 0
           got   == IF Find(name) = 0 THEN <<>> ELSE Content(disk.head[Find(name)])
           there == {j \in DOMAIN disk.files : disk.files[j].name = name}
<1>1. disk \in DiskType /\ disk.pc = "booted" /\ ReadyInv(disk, n, Base)
  BY DEF Read, VfsInv
<1>2. /\ disk.files \in Directories /\ disk.head \in Seq(EntryType)
      /\ disk.package \in Seq(UnitType)
  BY <1>1, DiskIs
<1>3. got \in Seq(UnitType)
  <2>1. CASE Find(name) = 0
    BY <2>1
  <2>2. CASE Find(name) # 0
    <3>1. Find(name) \in Matches(name)
      BY <1>2, <2>2, FindIs
    <3>2. Find(name) \in DOMAIN disk.head
      BY <3>1 DEF Matches
    <3>3. disk.head[Find(name)] \in EntryType
      BY <1>2, <3>2
    <3>4. Content(disk.head[Find(name)]) \in Seq(UnitType)
      BY <1>2, <3>3, ContentIs
    <3>5. QED
      BY <2>2, <3>4
  <2>3. QED
    BY <2>1, <2>2
<1>4. DOMAIN disk.files = 1 .. Len(disk.files)
  BY <1>2, FilesAre
<1>5. name \in {Self, Parent} =>
        /\ SubSeq(got, 1, Len(disk.head) * EntrySize) = Table(disk.head)
        /\ \A k \in Len(disk.head) * EntrySize + 1 .. Len(got) : got[k] = Unit("zero")
  <2>1. SUFFICES ASSUME name \in {Self, Parent}
                 PROVE  /\ SubSeq(got, 1, Len(disk.head) * EntrySize) = Table(disk.head)
                        /\ \A k \in Len(disk.head) * EntrySize + 1 .. Len(got) :
                             got[k] = Unit("zero")
    OBVIOUS
  <2> HIDE DEF got
  <2>2. LET g == Content(disk.head[Find(name)]) IN
        /\ Find(name) # 0
        /\ SubSeq(g, 1, Len(disk.head) * EntrySize) = Table(disk.head)
        /\ \A k \in Len(disk.head) * EntrySize + 1 .. Len(g) : g[k] = Unit("zero")
    BY <1>1, <2>1, ReadTable
  <2>3. got = Content(disk.head[Find(name)])
    BY <2>2 DEF got
  <2>4. QED
    BY <2>2, <2>3
<1>6. name \notin {Self, Parent, <<>>} =>
        found = (there # {}) /\ \A j \in there : got = Bytes(disk.files[j])
  <2>1. SUFFICES ASSUME name \notin {Self, Parent, <<>>}
                 PROVE  found = (there # {}) /\ \A j \in there : got = Bytes(disk.files[j])
    OBVIOUS
  <2>2. /\ Find(name) # 0 <=> \E j \in 1 .. Len(disk.files) : disk.files[j].name = name
        /\ Find(name) # 0 =>
             \A j \in 1 .. Len(disk.files) :
               disk.files[j].name = name => Content(disk.head[Find(name)]) = Bytes(disk.files[j])
    BY <1>1, <2>1, ReadFile
  <2>3. there # {} <=> \E j \in 1 .. Len(disk.files) : disk.files[j].name = name
    BY <1>4
  <2>4. ASSUME NEW j \in there PROVE got = Bytes(disk.files[j])
    <3>1. j \in 1 .. Len(disk.files) /\ disk.files[j].name = name
      BY <1>4
    <3>2. Find(name) # 0
      BY <2>2, <3>1
    <3>3. QED
      BY <2>2, <3>1, <3>2
  <2>5. QED
    BY <2>2, <2>3, <2>4
<1>7. disk' = [disk EXCEPT !.asked = name, !.found = found, !.got = got]
  BY DEF Read
<1> HIDE DEF found, got, there
<1>8. found \in BOOLEAN
  BY DEF found
<1>9. /\ disk' \in DiskType
      /\ disk'.pc = "booted" /\ disk'.files = disk.files /\ disk'.head = disk.head
      /\ disk'.package = disk.package /\ disk'.asked = name
      /\ disk'.found = found /\ disk'.got = got
  BY <1>1, <1>3, <1>7, <1>8 DEF DiskType
<1>10. ReadyInv(disk', n, Base)
  BY <1>1, <1>9 DEF ReadyInv, Finished
<1>11. FilesAreRead'
  <2>1. {k \in DOMAIN disk'.files : disk'.files[k].name = disk'.asked} = there
    BY <1>9 DEF there
  <2>2. CASE name = <<>>
    BY <1>9, <2>2 DEF FilesAreRead
  <2>3. CASE name # <<>> /\ name \in {Self, Parent}
    BY <1>5, <1>9, <2>3 DEF FilesAreRead
  <2>4. CASE name # <<>> /\ name \notin {Self, Parent}
    BY <1>6, <1>9, <2>1, <2>4 DEF FilesAreRead
  <2>5. QED
    BY <2>2, <2>3, <2>4
<1>12. n = Len(disk'.head) - 1
  BY <1>9
<1> HIDE DEF n
<1>13. QED
  BY <1>9, <1>10, <1>11, <1>12 DEF VfsInv

LEMMA VfsInvStep ==
  ASSUME VfsInv, [VfsNext]_vfsVars
  PROVE  VfsInv'
<1>1. CASE Pack
  BY <1>1, PackStep
<1>2. CASE PackTable
  BY <1>2, PackTableStep
<1>3. CASE PackFile
  BY <1>3, PackFileStep
<1>4. CASE PackEnd
  BY <1>4, PackEndStep
<1>5. CASE Boot
  BY <1>5, BootStep
<1>6. ASSUME NEW name \in Names, Read(name)
      PROVE  VfsInv'
  BY <1>6, FileReadStep
<1>7. CASE UNCHANGED vfsVars
  <2>1. disk' = disk
    BY <1>7 DEF vfsVars
  <2>2. QED
    BY <2>1 DEF VfsInv, FilesAreRead
<1>8. QED
  BY <1>1, <1>2, <1>3, <1>4, <1>5, <1>6, <1>7 DEF VfsNext

(* A package and its table belong together at each stage: while the        *)
(* directory is read, the table has its two own names and the files seen   *)
(* so far (vfs.c:105-150); once the places are given, each file begins at  *)
(* the next page behind the one before (vfs.c:155-174), and its bytes are  *)
(* there as soon as it is written (vfs.c:176-207), and still there when    *)
(* the kernel has moved the offsets to where the package was loaded        *)
(* (library/vfs.c).                                                        *)
THEOREM VfsInvariant == VfsSpec => []VfsInv
<1>1. VfsInit => VfsInv
  BY VfsInit1
<1>2. VfsInv /\ [VfsNext]_vfsVars => VfsInv'
  BY VfsInvStep
<1>3. QED
  BY <1>1, <1>2, PTL DEF VfsSpec

(* Whatever directory is packed, with files of any size and in any order,  *)
(* a program that reads a file gets the bytes that were packed, one that   *)
(* asks for a name that was not packed is told so, and one that reads the  *)
(* directory gets the table and zeros behind it (vfs.c:158-216,            *)
(* library/vfs.c:25-50).                                                   *)
THEOREM FilesComeBack == VfsSpec => []FilesAreRead
<1>1. VfsInv => FilesAreRead
  BY DEF VfsInv
<1>2. QED
  BY <1>1, VfsInvariant, PTL

-----------------------------------------------------------------------------
(* A stream.  Its invariant is StreamInv, whose core is RingShape: how far  *)
(* apart the markers are without the remainder of a division, by which     *)
(* `start' and `end' at the end of the space, where they may stay, and at  *)
(* its beginning would be the same.                                        *)

(* The markers are in order, or crossed; a full stream is crossed.         *)
RingShape == start + Load = end \/ start + Load = end + Size

(* Where the k-th of the bytes that wait is. *)
Spot(k) == (start + k - 1) % Size

(* There are bytes where they wait.                                        *)
BytesWait == \A k \in 1 .. Load : base_address[Spot(k)] \in Byte

StreamInv == TypeOK /\ RingShape /\ BytesWait /\ DefinedMeansShown

Unread == [k \in 1 .. Load |-> base_address[(start + k - 1) % Size]]

-----------------------------------------------------------------------------
(* A remainder, up to twice the size.                                      *)
LEMMA Around ==
  ASSUME NEW x \in 0 .. 2 * Size - 1
  PROVE  x % Size = IF x < Size THEN x ELSE x - Size
  BY StreamAssumption

LEMMA FunctionIsSeq ==
  ASSUME NEW S, NEW n \in Nat, NEW f \in [1 .. n -> S]
  PROVE  f \in Seq(S) /\ Len(f) = n
OBVIOUS

(* One run of bytes after another.                                         *)
LEMMA RunAfterRun ==
  ASSUME NEW S, NEW m \in Nat, NEW n \in Nat,
         NEW f \in Seq(S), Len(f) = m, NEW g \in Seq(S), Len(g) = n
  PROVE  /\ f \o g \in Seq(S) /\ Len(f \o g) = m + n
         /\ \A k \in 1 .. m : (f \o g)[k] = f[k]
         /\ \A k \in 1 .. n : (f \o g)[m + k] = g[k]
  OBVIOUS

LEMMA SpotIs ==
  ASSUME TypeOK, NEW k \in 1 .. Size
  PROVE  /\ Spot(k) = IF start + k - 1 < Size THEN start + k - 1
                      ELSE start + k - 1 - Size
         /\ Spot(k) \in Place
<1>1. Size \in Nat /\ start \in Nat /\ start + k - 1 \in 0 .. 2 * Size - 1
  BY StreamAssumption DEF TypeOK
<1>2. QED
  BY <1>1, Around DEF Spot, Place

LEMMA TaskStrings ==
  ASSUME TypeOK, NEW t \in Task
  PROVE  /\ string[t] \in Strings /\ string[t] \in Seq(Byte)
         /\ Len(string[t]) \in Nat /\ Len(string[t]) <= Size
<1>1. string[t] \in Strings
  BY DEF TypeOK
<1>2. QED
  BY <1>1, StreamAssumption

-----------------------------------------------------------------------------
(* The run that is written in one piece, and what is left over.            *)
LEMMA RunFits ==
  ASSUME TypeOK, RingShape, NEW n \in 0 .. free
  PROVE  LET n1 == FirstRun(n) IN
         /\ n1 \in 0 .. n
         /\ end + n1 <= Size
         /\ n1 < n => end + n1 = Size /\ start <= end /\ n - n1 <= start
         /\ n1 = n /\ end < start => end + n <= start
         /\ Resume(n) + n - n1 = IF n1 < n THEN n - n1 ELSE end + n
<1>1. /\ Size \in Nat \ {0} /\ start \in 0 .. Size /\ end \in 0 .. Size
      /\ free \in 0 .. Size
  BY StreamAssumption DEF TypeOK
<1>2. CASE end < start
  BY <1>1, <1>2 DEF FirstRun, Resume, RingShape, Load
<1>3. CASE start <= end
  BY <1>1, <1>3 DEF FirstRun, Resume, RingShape, Load
<1>4. QED
  BY <1>1, <1>2, <1>3

(* Writing leaves the bytes that wait as they are, and puts the new ones   *)
(* behind them.                                                            *)
LEMMA WrittenBehind ==
  ASSUME TypeOK, RingShape, NEW bytes \in Seq(Byte), Len(bytes) <= free
  PROVE  /\ \A k \in 1 .. Load : Written(bytes, Spot(k)) = base_address[Spot(k)]
         /\ \A j \in 1 .. Len(bytes) : Written(bytes, Spot(Load + j)) = bytes[j]
<1> DEFINE n  == Len(bytes)
           n1 == FirstRun(n)
<1>1. /\ Size \in Nat \ {0} /\ start \in 0 .. Size /\ end \in 0 .. Size
      /\ free \in 0 .. Size /\ n \in 0 .. free /\ Load \in 0 .. Size
      /\ Load + n <= Size
  BY StreamAssumption DEF TypeOK, Load
<1>2. /\ n1 \in 0 .. n /\ end + n1 <= Size
      /\ n1 < n => end + n1 = Size /\ start <= end /\ n - n1 <= start
      /\ n1 = n /\ end < start => end + n <= start
  BY <1>1, RunFits
<1>3. \A i : Written(bytes, i) =
               IF i \in end .. end + n1 - 1 THEN bytes[i - end + 1]
               ELSE IF n1 < n /\ i < n - n1 THEN bytes[n1 + i + 1]
               ELSE base_address[i]
  BY DEF Written
<1>4. ASSUME NEW k \in 1 .. Load
      PROVE  Written(bytes, Spot(k)) = base_address[Spot(k)]
  <2>1. Spot(k) = IF start + k - 1 < Size THEN start + k - 1 ELSE start + k - 1 - Size
    BY <1>1, SpotIs
  <2>2. Spot(k) \notin end .. end + n1 - 1
    BY <1>1, <1>2, <2>1 DEF RingShape, Load
  <2>3. n1 < n => ~ (Spot(k) < n - n1)
    BY <1>1, <1>2, <2>1 DEF RingShape, Load
  <2>4. QED
    BY <1>3, <2>2, <2>3
<1>5. ASSUME NEW j \in 1 .. n
      PROVE  Written(bytes, Spot(Load + j)) = bytes[j]
  <2>1. Spot(Load + j) = IF start + Load + j - 1 < Size THEN start + Load + j - 1
                         ELSE start + Load + j - 1 - Size
    BY <1>1, SpotIs
  <2>2. CASE j <= n1
    <3>1. Spot(Load + j) = end + j - 1
      BY <1>1, <1>2, <2>1, <2>2 DEF RingShape, Load
    <3>2. QED
      BY <1>1, <1>2, <1>3, <2>2, <3>1
  <2>3. CASE j > n1
    <3>1. n1 < n /\ Spot(Load + j) = j - 1 - n1
      BY <1>1, <1>2, <2>1, <2>3 DEF RingShape, Load
    <3>2. Spot(Load + j) \notin end .. end + n1 - 1 /\ Spot(Load + j) < n - n1
      BY <1>1, <1>2, <2>3, <3>1
    <3>3. n1 + Spot(Load + j) + 1 = j
      BY <1>1, <1>2, <3>1
    <3>4. QED
      BY <1>3, <3>1, <3>2, <3>3
  <2>4. QED
    BY <1>1, <1>2, <2>2, <2>3
<1>6. QED
  BY <1>4, <1>5

-----------------------------------------------------------------------------
(* A new stream is empty.                                                  *)
LEMMA StreamInit == Init => StreamInv
<1> SUFFICES ASSUME Init PROVE StreamInv
  OBVIOUS
<1>1. Size \in Nat \ {0} /\ <<>> \in Strings
  BY StreamAssumption
<1>2. /\ start = 0 /\ end = 0 /\ free = Size /\ undefined = FALSE
      /\ base_address = [i \in Place |-> None]
      /\ null \in BOOLEAN /\ meta \in MetaData
  BY DEF Init
<1>3. /\ pc \in [Task -> {"user", "out", "in", "get"}]
      /\ string \in [Task -> Strings]
      /\ seen \in [Task -> MetaData]
  BY <1>1 DEF Init
<1>4. cache \in [Task -> Seq(Byte)]
  <2>1. <<>> \in Seq(Byte)
    OBVIOUS
  <2>2. QED
    BY <2>1 DEF Init
<1>5. TypeOK /\ Load = 0
  <2>1. 0 \in 0 .. Size /\ Size \in 0 .. Size /\ Size - Size = 0
    BY <1>1
  <2>2. base_address \in [Place -> Byte \union {None}]
    BY <1>2
  <2>3. QED
    BY <1>2, <1>3, <1>4, <2>1, <2>2 DEF TypeOK, Load
<1>6. RingShape /\ BytesWait /\ DefinedMeansShown
  BY <1>1, <1>2, <1>5 DEF RingShape, BytesWait, DefinedMeansShown
<1>7. QED
  BY <1>5, <1>6 DEF StreamInv

(* A step that leaves the ring and the flag alone.                         *)
LEMMA RingKept ==
  ASSUME StreamInv, TypeOK', UNCHANGED ringVars, undefined' = undefined
  PROVE  StreamInv'
BY DEF StreamInv, ringVars, RingShape, BytesWait, Spot, DefinedMeansShown, Load

LEMMA OutStep == ASSUME StreamInv, NEW t \in Task, Out(t) PROVE StreamInv'
<1> DEFINE bytes == string[t]
           n     == Len(bytes)
<1>1. /\ TypeOK /\ RingShape /\ BytesWait
      /\ bytes \in Seq(Byte) /\ n \in 0 .. free
  BY TaskStrings DEF StreamInv, Out
<1>2. /\ Size \in Nat \ {0} /\ start \in 0 .. Size /\ end \in 0 .. Size
      /\ free \in 0 .. Size
  BY <1>1, StreamAssumption DEF TypeOK
<1>3. /\ end' = IF FirstRun(n) < n THEN n - FirstRun(n) ELSE end + n
      /\ FirstRun(n) \in 0 .. n /\ end + FirstRun(n) <= Size
      /\ FirstRun(n) < n => end + FirstRun(n) = Size /\ start <= end /\ n - FirstRun(n) <= start
      /\ start' = start /\ free' = free - n
      /\ base_address' = [i \in Place |-> Written(bytes, i)]
      /\ undefined' = TRUE
  BY <1>1, <1>2, RunFits DEF Out
<1>4. end' \in 0 .. Size /\ free' \in 0 .. Size /\ Load' = Load + n
  <2> DEFINE n1 == FirstRun(n)
  <2>1. /\ n \in 0 .. free /\ n1 \in 0 .. n /\ end + n1 <= Size /\ free' = free - n
        /\ end' = IF n1 < n THEN n - n1 ELSE end + n
    BY <1>1, <1>3
  <2> HIDE DEF n, n1
  <2>2. end' \in 0 .. Size
    BY <1>2, <2>1
  <2>3. free' \in 0 .. Size /\ Load' = Load + n
    BY <1>2, <2>1 DEF Load
  <2>4. QED
    BY <2>2, <2>3
<1>5. RingShape'
  <2> DEFINE n1 == FirstRun(n)
  <2>1. Load \in 0 .. Size /\ (start + Load = end \/ start + Load = end + Size)
    BY <1>1, <1>2 DEF RingShape, Load
  <2>2. n \in Nat /\ n1 \in 0 .. n /\ Load + n <= Size
    BY <1>1, <1>2, <1>3 DEF Load
  <2>3. /\ n1 < n => end + n1 = Size /\ start <= end
        /\ end' = IF n1 < n THEN n - n1 ELSE end + n
        /\ start' = start /\ Load' = Load + n
    BY <1>3, <1>4
  <2> HIDE DEF n, n1
  <2>4. start + Load + n = end' \/ start + Load + n = end' + Size
    BY <1>2, <2>1, <2>2, <2>3
  <2>5. start' + Load' = start + Load + n
    BY <1>2, <2>1, <2>2, <2>3
  <2>6. QED
    BY <2>4, <2>5 DEF RingShape
<1>6. \A i \in Place : base_address'[i] \in Byte \union {None}
  <2> SUFFICES ASSUME NEW i \in Place PROVE Written(bytes, i) \in Byte \union {None}
    BY <1>3
  <2>1. i \in Int /\ base_address[i] \in Byte \union {None}
    BY <1>1, <1>2 DEF TypeOK, Place
  <2>2. \A j \in 1 .. n : bytes[j] \in Byte
    BY <1>1
  <2>3. CASE i \in end .. end + FirstRun(n) - 1
    <3>1. i - end + 1 \in 1 .. n
      BY <1>1, <1>2, <1>3, <2>1, <2>3
    <3>2. Written(bytes, i) = bytes[i - end + 1]
      BY <2>3 DEF Written
    <3>3. QED
      BY <2>2, <3>1, <3>2
  <2>4. CASE i \notin end .. end + FirstRun(n) - 1 /\ FirstRun(n) < n /\ i < n - FirstRun(n)
    <3>1. FirstRun(n) + i + 1 \in 1 .. n
      BY <1>1, <1>3, <2>1, <2>4 DEF Place
    <3>2. Written(bytes, i) = bytes[FirstRun(n) + i + 1]
      BY <2>4 DEF Written
    <3>3. QED
      BY <2>2, <3>1, <3>2
  <2>5. QED
    BY <2>1, <2>3, <2>4 DEF Written
<1>7. TypeOK'
  <2>1. base_address' \in [Place -> Byte \union {None}]
    BY <1>3, <1>6
  <2>2. /\ pc' \in [Task -> {"user", "out", "in", "get"}]
        /\ string' \in [Task -> Strings]
    BY <1>1, StreamAssumption DEF TypeOK, Out, Goto
  <2>3. UNCHANGED <<null, meta, cache, seen>>
    BY DEF Out
  <2>4. QED
    BY <1>1, <1>3, <1>4, <2>1, <2>2, <2>3 DEF TypeOK
<1>8. BytesWait'
  <2> SUFFICES ASSUME NEW k \in 1 .. Load + n
               PROVE  base_address'[Spot(k)] \in Byte
    BY <1>3, <1>4 DEF BytesWait, Spot
  <2>1. k \in 1 .. Size /\ Load \in Nat
    BY <1>1, <1>2 DEF Load
  <2>2. base_address'[Spot(k)] = Written(bytes, Spot(k))
    BY <1>1, <1>3, <2>1, SpotIs
  <2>3. CASE k <= Load
    BY <1>1, <2>1, <2>2, <2>3, WrittenBehind DEF BytesWait
  <2>4. CASE k > Load
    <3>1. PICK j \in 1 .. n : k = Load + j
      BY <1>1, <2>1, <2>4
    <3>2. QED
      BY <1>1, <2>2, <3>1, WrittenBehind
  <2>5. QED
    BY <2>1, <2>3, <2>4
<1>9. DefinedMeansShown'
  BY <1>3 DEF DefinedMeansShown
<1>10. QED
  BY <1>5, <1>7, <1>8, <1>9 DEF StreamInv

-----------------------------------------------------------------------------
(* What is received is what waits, unless the stream is full and looks     *)
(* empty: then it is nothing.                                              *)
LEMMA ReceivedIs ==
  ASSUME TypeOK, RingShape, BytesWait
  PROVE  /\ Received \in Seq(Byte)
         /\ start # end \/ Load = 0 => Received = Unread
         /\ start = end => Received = <<>>
         /\ Unread \in Seq(Byte) /\ Len(Unread) = Load
<1>1. /\ Size \in Nat \ {0} /\ start \in 0 .. Size /\ end \in 0 .. Size
      /\ free \in 0 .. Size /\ Load \in 0 .. Size
  BY StreamAssumption DEF TypeOK, Load
<1>2. \A k \in 1 .. Load :
        /\ Spot(k) = IF start + k - 1 < Size THEN start + k - 1 ELSE start + k - 1 - Size
        /\ base_address[Spot(k)] \in Byte /\ Unread[k] = base_address[Spot(k)]
  <2> SUFFICES ASSUME NEW k \in 1 .. Load
               PROVE  /\ Spot(k) = IF start + k - 1 < Size THEN start + k - 1
                                    ELSE start + k - 1 - Size
                      /\ base_address[Spot(k)] \in Byte
                      /\ Unread[k] = base_address[Spot(k)]
    OBVIOUS
  <2>1. k \in 1 .. Size
    BY <1>1
  <2>2. Unread[k] = base_address[Spot(k)]
    BY DEF Unread, Spot
  <2>3. QED
    BY <2>1, <2>2, SpotIs DEF BytesWait
<1>3. Unread \in Seq(Byte) /\ Len(Unread) = Load
  <2>1. Unread \in [1 .. Load -> Byte]
    BY <1>2 DEF Unread
  <2>2. QED
    BY <1>1, <2>1, FunctionIsSeq
<1>4. CASE start > end
  <2> DEFINE last  == [k \in 1 .. Size - start |-> base_address[start + k - 1]]
             first == [k \in 1 .. end |-> base_address[k - 1]]
  <2>1. Received = last \o first
    <3>1. first = [k \in 1 .. end - 0 |-> base_address[0 + k - 1]]
      <4>1. end - 0 = end /\ \A k \in 1 .. end : 0 + k - 1 = k - 1
        BY <1>1
      <4>2. QED
        BY <4>1
    <3>2. QED
      BY <1>4, <3>1 DEF Received
  <2>2. Load = Size - start + end
    BY <1>1, <1>4 DEF RingShape
  <2>3. \A k \in 1 .. Size - start : base_address[start + k - 1] = Unread[k] /\ Unread[k] \in Byte
    BY <1>1, <1>2, <2>2
  <2>4. \A k \in 1 .. end : /\ base_address[k - 1] = Unread[Size - start + k]
                            /\ Unread[Size - start + k] \in Byte
    BY <1>1, <1>2, <2>2
  <2>5. last \in Seq(Byte) /\ Len(last) = Size - start
    <3>1. last \in [1 .. Size - start -> Byte]
      BY <2>3
    <3>2. Size - start \in Nat
      BY <1>1
    <3> HIDE DEF last
    <3>3. QED
      BY <3>1, <3>2, FunctionIsSeq
  <2>6. first \in Seq(Byte) /\ Len(first) = end
    <3>1. first \in [1 .. end -> Byte]
      BY <2>4
    <3>2. end \in Nat
      BY <1>1
    <3> HIDE DEF first
    <3>3. QED
      BY <3>1, <3>2, FunctionIsSeq
  <2>7. /\ Received \in Seq(Byte) /\ Len(Received) = Load
        /\ \A k \in 1 .. Size - start : Received[k] = last[k]
        /\ \A k \in 1 .. end : Received[Size - start + k] = first[k]
    <3> DEFINE m == Size - start
    <3>1. m \in Nat /\ end \in Nat /\ Len(last) = m
      BY <1>1, <1>4, <2>5
    <3> HIDE DEF last, first, m
    <3>2. /\ last \o first \in Seq(Byte) /\ Len(last \o first) = m + end
          /\ \A k \in 1 .. m : (last \o first)[k] = last[k]
          /\ \A k \in 1 .. end : (last \o first)[m + k] = first[k]
      BY <2>5, <2>6, <3>1, RunAfterRun
    <3>3. QED
      BY <2>1, <2>2, <3>2 DEF m
  <2>8. \A k \in 1 .. Load : Received[k] = Unread[k]
    <3> SUFFICES ASSUME NEW k \in 1 .. Load PROVE Received[k] = Unread[k]
      OBVIOUS
    <3>1. CASE k <= Size - start
      <4>1. k \in 1 .. Size - start
        BY <1>1, <3>1
      <4>2. last[k] = base_address[start + k - 1]
        BY <4>1
      <4>3. QED
        BY <2>3, <2>7, <4>1, <4>2
    <3>2. CASE k > Size - start
      <4>1. PICK j \in 1 .. end : k = Size - start + j
        <5>1. k - (Size - start) \in 1 .. end /\ k = Size - start + (k - (Size - start))
          BY <1>1, <2>2, <3>2
        <5>2. QED
          BY <5>1
      <4>2. first[j] = base_address[j - 1]
        OBVIOUS
      <4>3. QED
        BY <2>4, <2>7, <4>1, <4>2
    <3>3. QED
      BY <1>1, <3>1, <3>2
  <2>9. Received = Unread
    <3> HIDE DEF last, first
    <3>1. QED
      BY <1>3, <2>7, <2>8, SeqEqual
  <2>10. QED
    BY <1>1, <1>3, <1>4, <2>7, <2>9
<1>5. CASE start < end
  <2>1. Load = end - start
    BY <1>1, <1>5 DEF RingShape
  <2>2. Received = [k \in 1 .. end - start |-> base_address[start + k - 1]]
    BY <1>1, <1>5 DEF Received
  <2>3. \A k \in 1 .. Load : base_address[start + k - 1] = Unread[k]
    BY <1>1, <1>2, <2>1
  <2>4. Received = Unread
    BY <2>1, <2>2, <2>3 DEF Unread
  <2>5. QED
    BY <1>1, <1>3, <1>5, <2>4
<1>6. CASE start = end
  <2>1. Received = <<>>
    BY <1>1, <1>6 DEF Received
  <2>2. Load = 0 => Unread = <<>>
    BY <1>3
  <2>3. QED
    BY <1>3, <1>6, <2>1, <2>2
<1>7. QED
  BY <1>1, <1>4, <1>5, <1>6

LEMMA InStep == ASSUME StreamInv, NEW t \in Task, In(t) PROVE StreamInv'
<1>1. /\ TypeOK /\ Size \in Nat \ {0} /\ end \in 0 .. Size
      /\ Received \in Seq(Byte)
  BY StreamAssumption, ReceivedIs DEF StreamInv, TypeOK
<1>2. /\ start' = end /\ end' = end /\ free' = Size /\ base_address' = base_address
      /\ cache' = [cache EXCEPT ![t] = Received]
      /\ pc' = [pc EXCEPT ![t] = "user"]
      /\ UNCHANGED <<undefined, meta, null, string, seen>>
  BY DEF In, Goto, metaVars
<1>3. TypeOK'
  BY <1>1, <1>2 DEF TypeOK
<1>4. Load' = 0
  BY <1>1, <1>2 DEF Load
<1>5. RingShape' /\ BytesWait' /\ DefinedMeansShown'
  BY <1>1, <1>2, <1>4 DEF RingShape, BytesWait, DefinedMeansShown
<1>6. QED
  BY <1>3, <1>5 DEF StreamInv

(* The metadata is set when the markers meet: the stream is empty or full. *)
LEMMA SetStep == ASSUME StreamInv, NEW t \in Task, Set(t) PROVE StreamInv'
<1>1. /\ start = end /\ meta' \in MetaData /\ undefined' = FALSE
      /\ UNCHANGED <<base_address, start, end, free, null, pc, string, cache, seen>>
  BY DEF Set, ringVars
<1>2. TypeOK'
  BY <1>1 DEF StreamInv, TypeOK
<1>3. Load \in {0, Size}
  BY <1>1, StreamAssumption DEF StreamInv, TypeOK, RingShape, Load
<1>4. RingShape' /\ BytesWait' /\ DefinedMeansShown'
  BY <1>1, <1>3 DEF StreamInv, RingShape, BytesWait, Spot, DefinedMeansShown, Load
<1>5. QED
  BY <1>2, <1>4 DEF StreamInv

LEMMA RecycleStep == ASSUME StreamInv, Recycle PROVE StreamInv'
<1>1. /\ base_address' = [i \in Place |-> None]
      /\ start' = 0 /\ end' = 0 /\ free' = Size
      /\ UNCHANGED <<undefined, meta, null, pc, string, cache, seen>>
  BY DEF Recycle, metaVars
<1>2. TypeOK' /\ Load' = 0
  BY <1>1, StreamAssumption DEF StreamInv, TypeOK, Load
<1>3. RingShape' /\ BytesWait' /\ DefinedMeansShown'
  BY <1>1, <1>2, StreamAssumption DEF RingShape, BytesWait, DefinedMeansShown
<1>4. QED
  BY <1>2, <1>3 DEF StreamInv

(* The other steps leave the bytes alone.                                  *)
Between(t) ==
  \/ OutCheck(t) \/ OutRefused(t) \/ InEmpty(t) \/ InCheck(t)
  \/ GetMeta(t) \/ GetFlags(t)

LEMMA BetweenStep == ASSUME StreamInv, NEW t \in Task, Between(t) PROVE StreamInv'
<1>1. UNCHANGED <<ringVars, undefined, meta, null>> /\ TypeOK
  BY DEF Between, OutCheck, OutRefused, InEmpty, InCheck, GetMeta, GetFlags,
         metaVars, StreamInv
<1>2. /\ pc' \in [Task -> {"user", "out", "in", "get"}]
      /\ string' \in [Task -> Strings]
      /\ cache' \in [Task -> Seq(Byte)]
      /\ seen' \in [Task -> MetaData]
  BY <1>1, StreamAssumption
     DEF TypeOK, Between, OutCheck, OutRefused, InEmpty, InCheck, GetMeta, GetFlags,
         Goto
<1>3. TypeOK'
  BY <1>1, <1>2 DEF TypeOK, ringVars
<1>4. QED
  BY <1>1, <1>3, RingKept

LEMMA RingStep == StreamInv /\ [Next]_vars => StreamInv'
<1> SUFFICES ASSUME StreamInv, [Next]_vars PROVE StreamInv'
  OBVIOUS
<1>1. CASE UNCHANGED vars
  <2>1. TypeOK'
    BY <1>1 DEF vars, ringVars, metaVars, StreamInv, TypeOK
  <2>2. QED
    BY <1>1, <2>1, RingKept DEF vars, metaVars
<1>2. CASE Next
  BY <1>2, RecycleStep, OutStep, InStep, SetStep, BetweenStep DEF Next, Between
<1>3. QED
  BY <1>1, <1>2

LEMMA StreamInvariant == Spec => []StreamInv
  BY StreamInit, RingStep, PTL DEF Spec

(* The types, and the flags, however many tasks use the stream.            *)
THEOREM StreamTypes == Spec => []TypeOK
  BY StreamInvariant, PTL DEF StreamInv

(* The markers of a stream of any size are as far apart as it has bytes,   *)
(* after any writes and reads (stream.c:94-190).                           *)
THEOREM MarkersMatchCount == Spec => []MarkersAgree
<1>1. StreamInv => MarkersAgree
  <2> SUFFICES ASSUME StreamInv PROVE (start + Load) % Size = end % Size
    BY DEF MarkersAgree
  <2>1. /\ Size \in Nat \ {0} /\ start \in 0 .. Size /\ end \in 0 .. Size
        /\ Load \in 0 .. Size
        /\ start + Load = end \/ start + Load = end + Size
    BY StreamAssumption DEF StreamInv, TypeOK, RingShape, Load
  <2>2. CASE start + Load = end
    BY <2>2
  <2>3. CASE start + Load = end + Size
    <3>1. CASE end < Size
      <4>1. end \in 0 .. 2 * Size - 1 /\ end + Size \in 0 .. 2 * Size - 1
        BY <2>1, <3>1
      <4>2. end % Size = end /\ (end + Size) % Size = end
        BY <2>1, <3>1, <4>1, Around
      <4>3. QED
        BY <2>3, <4>2
    <3>2. CASE end = Size
      <4>1. Size \in 0 .. 2 * Size - 1
        BY <2>1
      <4>2. Size % Size = 0
        BY <2>1, <4>1, Around
      <4>3. (Size + Size) % Size = 0
        BY <2>1
      <4>4. QED
        BY <2>3, <3>2, <4>2, <4>3
    <3>3. QED
      BY <2>1, <3>1, <3>2
  <2>4. QED
    BY <2>1, <2>2, <2>3
<1>2. QED
  BY <1>1, StreamInvariant, PTL

(* A stream whose flag `undefined' is clear is empty, or full: what a      *)
(* program may conclude when it waits for its output to be shown           *)
(* (software/shell.c:41).                                                  *)
THEOREM DefinedIsShown == Spec => []DefinedMeansShown
  BY StreamInvariant, PTL DEF StreamInv

-----------------------------------------------------------------------------
(* The refinement: Unread is the content of the pipe.                     *)
LEMMA ContentIsPipe ==
  ThePipe!PipeInit <=> /\ Unread = <<>>
                       /\ string = [t \in Task |-> <<>>]
                       /\ cache = [t \in Task |-> <<>>]
  BY DEF ThePipe!PipeInit, Unread

(* Nothing waits: the content is empty.                                    *)
LEMMA NothingWaits ==
  ASSUME Load = 0
  PROVE  Unread = <<>>
  BY DEF Unread

LEMMA NothingWaitsNext ==
  ASSUME Load' = 0
  PROVE  Unread' = <<>>
  BY DEF Unread

(* What leaves the ring alone leaves the content alone.                    *)
LEMMA ContentKept ==
  ASSUME UNCHANGED ringVars
  PROVE  Unread' = Unread
  BY DEF Unread, Load, ringVars

LEMMA PipeInitial == Init => ThePipe!PipeInit
<1> SUFFICES ASSUME Init PROVE ThePipe!PipeInit
  OBVIOUS
<1>1. Load = 0
  BY StreamAssumption DEF Init, Load
<1>2. Unread = <<>>
  BY <1>1, NothingWaits
<1>3. QED
  BY <1>2, ContentIsPipe DEF Init

(* A string that fits becomes the end of the content.                      *)
LEMMA OutAccepts ==
  ASSUME StreamInv, NEW t \in Task, Out(t)
  PROVE  ThePipe!Accept(t)
<1> DEFINE bytes == string[t]
           n     == Len(bytes)
<1>1. /\ TypeOK /\ RingShape /\ BytesWait
      /\ bytes \in Seq(Byte) /\ n \in 0 .. free
  BY TaskStrings DEF StreamInv, Out
<1>2. /\ Size \in Nat \ {0} /\ start \in 0 .. Size /\ free \in 0 .. Size
      /\ Load \in 0 .. Size /\ n \in Nat /\ Load + n <= Size
  BY <1>1, StreamAssumption DEF TypeOK, Load
<1>3. /\ start' = start /\ free' = free - n
      /\ base_address' = [i \in Place |-> Written(bytes, i)]
      /\ string' = [string EXCEPT ![t] = <<>>] /\ cache' = cache
  BY DEF Out
<1>4. Load' = Load + n
  BY <1>2, <1>3 DEF Load
<1>5. Unread \in Seq(Byte) /\ Len(Unread) = Load
  BY <1>1, ReceivedIs
<1>6. Unread' \in Seq(Byte) /\ Len(Unread') = Load + n
  <2>1. Unread' \in [1 .. Load' -> Byte]
    BY OutStep DEF StreamInv, BytesWait, Spot, Unread
  <2>2. Load' \in Nat
    BY <1>2, <1>4
  <2>3. QED
    BY <1>4, <2>1, <2>2, FunctionIsSeq
<1>7. \A k \in 1 .. Load + n : Unread'[k] = Written(bytes, Spot(k))
  <2> SUFFICES ASSUME NEW k \in 1 .. Load + n
               PROVE  Unread'[k] = Written(bytes, Spot(k))
    OBVIOUS
  <2>1. Unread'[k] = base_address'[Spot(k)]
    BY <1>3, <1>4 DEF Unread, Spot
  <2>2. k \in 1 .. Size
    BY <1>2
  <2>3. QED
    BY <1>1, <1>3, <2>1, <2>2, SpotIs
<1>8. /\ \A k \in 1 .. Load : Unread'[k] = Unread[k]
      /\ \A j \in 1 .. n : Unread'[Load + j] = bytes[j]
  <2>1. ASSUME NEW k \in 1 .. Load PROVE Unread'[k] = Unread[k]
    <3>1. k \in 1 .. Load + n
      BY <1>2
    <3>2. Unread[k] = base_address[Spot(k)]
      BY DEF Unread, Spot
    <3>3. QED
      BY <1>1, <1>7, <3>1, <3>2, WrittenBehind
  <2>2. ASSUME NEW j \in 1 .. n PROVE Unread'[Load + j] = bytes[j]
    <3>1. Load + j \in 1 .. Load + n
      BY <1>2
    <3>2. QED
      BY <1>1, <1>7, <3>1, WrittenBehind
  <2>3. QED
    BY <2>1, <2>2
<1>9. Unread' = Unread \o bytes
  <2> DEFINE whole == Unread \o bytes
  <2> HIDE DEF bytes, n
  <2>1. /\ Len(bytes) = n /\ bytes \in Seq(Byte) /\ n \in Nat /\ Load \in Nat
    BY <1>1, <1>2 DEF n
  <2>2. /\ whole \in Seq(Byte) /\ Len(whole) = Load + n
        /\ \A k \in 1 .. Load : whole[k] = Unread[k]
        /\ \A k \in 1 .. n : whole[Load + k] = bytes[k]
    <3> DEFINE u == Unread
               m == Load
    <3>1. u \in Seq(Byte) /\ Len(u) = m /\ m \in Nat
      BY <1>5, <2>1
    <3> HIDE DEF u, m, whole
    <3>2. /\ u \o bytes \in Seq(Byte) /\ Len(u \o bytes) = m + n
          /\ \A k \in 1 .. m : (u \o bytes)[k] = u[k]
          /\ \A k \in 1 .. n : (u \o bytes)[m + k] = bytes[k]
      BY <2>1, <3>1
    <3>3. whole = u \o bytes
      BY DEF whole, u
    <3> DEFINE w == u \o bytes
    <3>4. /\ w \in Seq(Byte) /\ Len(w) = m + n
          /\ \A k \in 1 .. m : w[k] = u[k]
          /\ \A k \in 1 .. n : w[m + k] = bytes[k]
      BY <3>2
    <3> HIDE DEF w
    <3>5. /\ whole \in Seq(Byte) /\ Len(whole) = m + n
          /\ \A k \in 1 .. m : whole[k] = u[k]
          /\ \A k \in 1 .. n : whole[m + k] = bytes[k]
      BY <3>3, <3>4 DEF w
    <3>6. QED
      BY <3>5 DEF u, m
  <2> HIDE DEF whole
  <2>3. ASSUME NEW k \in 1 .. Load + n PROVE Unread'[k] = whole[k]
    <3>1. CASE k <= Load
      BY <1>8, <2>1, <2>2, <3>1
    <3>2. CASE k > Load
      <4>1. PICK j \in 1 .. n : k = Load + j
        <5>1. k - Load \in 1 .. n /\ k = Load + (k - Load)
          BY <2>1, <3>2
        <5>2. QED
          BY <5>1
      <4>2. QED
        BY <1>8, <2>2, <4>1
    <3>3. QED
      BY <2>1, <3>1, <3>2
  <2>4. Unread' = whole
    BY <1>6, <2>2, <2>3, SeqEqual
  <2>5. QED
    BY <2>4 DEF whole
<1>10. Len(Unread) + Len(string[t]) <= Size
  BY <1>2, <1>5
<1>11. QED
  BY <1>3, <1>9, <1>10 DEF ThePipe!Accept, Unread

(* One that does not is ignored.                                           *)
LEMMA RefusedIsIgnored ==
  ASSUME StreamInv, NEW t \in Task, OutRefused(t)
  PROVE  ThePipe!Refuse(t)
<1>1. Len(Unread) = Load
  BY ReceivedIs DEF StreamInv
<1>2. Len(string[t]) \in Nat /\ free \in 0 .. Size /\ Size \in Nat
  BY TaskStrings, StreamAssumption DEF StreamInv, TypeOK
<1>3. Len(Unread) + Len(string[t]) > Size
  BY <1>1, <1>2 DEF OutRefused, Load
<1>4. Unread' = Unread
  BY ContentKept DEF OutRefused
<1>5. QED
  BY <1>3, <1>4 DEF ThePipe!Refuse, OutRefused, Unread

(* A read takes everything, or forgets the content of a full stream.       *)
LEMMA InReads ==
  ASSUME StreamInv, NEW t \in Task, In(t)
  PROVE  ThePipe!Read(t) \/ ThePipe!Forget(t)
<1>1. /\ Received \in Seq(Byte)
      /\ start # end \/ Load = 0 => Received = Unread
      /\ start = end => Received = <<>>
      /\ Len(Unread) = Load
  BY ReceivedIs DEF StreamInv
<1>2. Unread' = <<>>
  <2>1. Load' = 0
    BY StreamAssumption DEF In, Load
  <2>2. QED
    BY <2>1, NothingWaitsNext
<1>3. cache' = [cache EXCEPT ![t] = Received] /\ UNCHANGED string
  BY DEF In
<1>4. CASE start # end \/ Load = 0
  BY <1>1, <1>2, <1>3, <1>4 DEF ThePipe!Read, Unread
<1>5. CASE start = end /\ Load # 0
  <2>1. Load = Size
    BY <1>5, StreamAssumption DEF StreamInv, TypeOK, RingShape, Load
  <2>2. QED
    BY <1>1, <1>2, <1>3, <1>5, <2>1 DEF ThePipe!Forget, Unread
<1>6. QED
  BY <1>4, <1>5

(* So does a read that finds the stream empty.                             *)
LEMMA EmptyReads ==
  ASSUME NEW t \in Task, InEmpty(t)
  PROVE  ThePipe!Read(t)
<1>1. Load = 0
  BY StreamAssumption DEF InEmpty, Load
<1>2. Unread = <<>> /\ Unread' = Unread
  BY <1>1, NothingWaits, ContentKept DEF InEmpty
<1>3. QED
  BY <1>2 DEF ThePipe!Read, InEmpty, Unread

LEMMA CheckOffers ==
  ASSUME StreamInv, NEW t \in Task, OutCheck(t)
  PROVE  ThePipe!Offer(t)
<1>1. Unread' = Unread
  BY ContentKept DEF OutCheck
<1>2. PICK bytes \in Strings : string' = [string EXCEPT ![t] = bytes]
  BY DEF OutCheck
<1>3. bytes \in Seq(Byte) /\ string'[t] = bytes
  BY <1>2, StreamAssumption DEF StreamInv, TypeOK
<1>4. QED
  BY <1>1, <1>2, <1>3 DEF ThePipe!Offer, OutCheck, Unread

LEMMA RecycleDiscards == Recycle => ThePipe!Discard
<1> SUFFICES ASSUME Recycle PROVE ThePipe!Discard
  OBVIOUS
<1>1. Load' = 0
  BY StreamAssumption DEF Recycle, Load
<1>2. QED
  BY <1>1, NothingWaitsNext DEF ThePipe!Discard, Recycle, Unread

(* Every step of the ring is one of the pipe, or none.                     *)
LEMMA PipeStep ==
  StreamInv /\ [Next]_vars => [ThePipe!PipeNext]_<<Unread, string, cache>>
<1> SUFFICES ASSUME StreamInv, [Next]_vars
             PROVE  [ThePipe!PipeNext]_<<Unread, string, cache>>
  OBVIOUS
<1>1. CASE UNCHANGED vars
  BY <1>1, ContentKept DEF vars
<1>2. CASE Recycle
  BY <1>2, RecycleDiscards DEF ThePipe!PipeNext
<1>3. ASSUME NEW t \in Task,
             OutCheck(t) \/ Out(t) \/ OutRefused(t) \/ InEmpty(t) \/ In(t)
      PROVE  ThePipe!PipeNext
  BY <1>3, CheckOffers, OutAccepts, RefusedIsIgnored, EmptyReads, InReads
     DEF ThePipe!PipeNext
<1>4. ASSUME NEW t \in Task, InCheck(t) \/ GetMeta(t) \/ GetFlags(t) \/ Set(t)
      PROVE  UNCHANGED <<Unread, string, cache>>
  BY <1>4, ContentKept DEF InCheck, GetMeta, GetFlags, Set
<1>5. QED
  BY <1>1, <1>2, <1>3, <1>4 DEF Next

(* The ring of bytes implements the pipe, whatever its size and whoever    *)
(* uses it: what is written is read once, whole and in order; only the     *)
(* content of a full stream may be forgotten (stream.c:31-190).            *)
THEOREM RingIsPipe == Spec => BytesFlow
  BY PipeInitial, PipeStep, StreamInvariant, PTL
     DEF Spec, BytesFlow, ThePipe!PipeSpec, Unread
=============================================================================
